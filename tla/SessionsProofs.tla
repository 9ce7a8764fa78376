--------------------------- MODULE SessionsProofs ---------------------------
(***************************************************************************)
(* The sessions stay what they are for every number of threads, sessions   *)
(* and restarts, and however long the clock runs.                          *)
(*                                                                         *)
(* Two questions are behind every property: who may hold a session, and    *)
(* which rows are still to be written.  A session begins with one thread,  *)
(* is named once it has an entry, and is never listed again when it has    *)
(* left the list; so whoever closes it, or deletes its row, comes last.    *)
(***************************************************************************)
EXTENDS Sessions, TLAPS

----------------------------------------------------------------------------
(* The inductive invariant.                                                *)

CallsNameSessions == \A t \in Thread : call[t].pc # "idle" => call[t].session \in Session

Shape == TypeOK /\ CallsNameSessions

\* Nobody but the thread that began a session has it before it has an entry.
BeginsAlone ==
    \A t \in Thread : call[t].pc \in {"push", "enter"} =>
        /\ call[t].session \notin named
        /\ \A u \in Thread \ {t} : call[u].pc # "idle" => call[u].session # call[t].session

\* What is or was in the list has an entry, or is about to get it.
ListedAreKnown ==
    \A s \in sessions \cup cleaner.removed :
        s \in named \/ \E t \in Thread : call[t].pc = "enter" /\ call[t].session = s

KeptAreNamed ==
    /\ entries \subseteq named
    /\ closed \subseteq named
    /\ \A s \in Session : rows[s] # "none" => s \in named

HandledAreNamed ==
    \A t \in Thread : call[t].pc \notin {"idle", "push", "enter"} => call[t].session \in named

ClosingIsOut == \A t \in Thread : call[t].pc = "close" => call[t].session \notin sessions

RestingHoldsNone ==
    cleaner.pc \in {"start", "check", "filter", "ended"} => cleaner.removed = {}

\* What the cleaner is about to close is out of the list, or raced.
TakenAreOut ==
    cleaner.pc \in {"close", "update"} => cleaner.removed \cap sessions \subseteq raced

\* An entry without a row waits for its INSERT, and a DELETE for an entry that is gone.
MissingIsInserted ==
    \A s \in entries :
        rows[s] = "none" => \E t \in Thread : call[t].pc = "insert" /\ call[t].session = s

DeletedIsGone == \A t \in Thread : call[t].pc = "delete" => call[t].session \notin entries

IndInv ==
    /\ Shape
    /\ BeginsAlone /\ ListedAreKnown /\ KeptAreNamed /\ HandledAreNamed
    /\ ClosingIsOut /\ RestingHoldsNone /\ TakenAreOut
    /\ ClosedSessionsAreOut /\ OpenEntriesAreUsable
    /\ MissingIsInserted /\ DeletedIsGone /\ RowsFollowEntries

----------------------------------------------------------------------------
\* A login only makes a session that nobody has.
LEMMA LoginKeeps ==
    ASSUME IndInv, NEW t \in Thread, NEW s \in Session, Login(t, s)
    PROVE  IndInv'
<1> USE DEF IndInv, Login, Begin, Fresh
<1>1. Shape'
  BY DEF Shape, TypeOK, CallsNameSessions, Call, Place, Request, Cleaner, Row, Idle
<1>2. ListedAreKnown' /\ KeptAreNamed' /\ HandledAreNamed'
  BY DEF Shape, TypeOK, CallsNameSessions, Call, Cleaner, Idle, ListedAreKnown, BeginsAlone,
     HandledAreNamed, KeptAreNamed
<1>3. BeginsAlone'
  BY DEF Shape, TypeOK, CallsNameSessions, Call, Cleaner, Idle, BeginsAlone, KeptAreNamed,
     HandledAreNamed
<1>4. ClosingIsOut' /\ RestingHoldsNone' /\ TakenAreOut' /\ ClosedSessionsAreOut' /\ OpenEntriesAreUsable'
  BY DEF Shape, TypeOK, CallsNameSessions, Call, Cleaner, Idle, ClosingIsOut, BeginsAlone,
     HandledAreNamed, RestingHoldsNone, TakenAreOut, ListedAreKnown, ClosedSessionsAreOut,
     KeptAreNamed, OpenEntriesAreUsable, Held
<1>5. MissingIsInserted' /\ DeletedIsGone' /\ RowsFollowEntries'
  BY DEF Shape, TypeOK, CallsNameSessions, Call, Cleaner, Idle, MissingIsInserted, DeletedIsGone,
     BeginsAlone, HandledAreNamed, RowsFollowEntries, UnderWay, Content
<1> QED
  BY <1>1, <1>2, <1>3, <1>4, <1>5

\* The session that is listed is one that nobody has closed.
LEMMA PushKeeps ==
    ASSUME IndInv, NEW t \in Thread, Push(t)
    PROVE  IndInv'
<1> USE DEF IndInv, Push, Goto
<1>1. Shape'
  BY DEF Shape, TypeOK, CallsNameSessions, Call, Place, Request, Cleaner, Row, Idle
<1>2. BeginsAlone' /\ KeptAreNamed' /\ HandledAreNamed'
  BY DEF Shape, TypeOK, CallsNameSessions, Call, Cleaner, Idle, BeginsAlone, KeptAreNamed,
     HandledAreNamed
<1>3. ListedAreKnown'
  BY DEF Shape, TypeOK, CallsNameSessions, Call, Cleaner, Idle, ListedAreKnown, BeginsAlone,
     HandledAreNamed
<1>4. RestingHoldsNone' /\ OpenEntriesAreUsable'
  BY DEF Shape, TypeOK, CallsNameSessions, Call, Cleaner, Idle, RestingHoldsNone,
     OpenEntriesAreUsable, Held, KeptAreNamed
<1>5. ClosingIsOut'
  BY DEF Shape, TypeOK, CallsNameSessions, Call, Cleaner, Idle, ClosingIsOut, BeginsAlone,
     HandledAreNamed
<1>6. TakenAreOut'
  BY DEF Shape, TypeOK, CallsNameSessions, Call, Cleaner, Idle, TakenAreOut, BeginsAlone,
     ListedAreKnown
<1>7. ClosedSessionsAreOut'
  BY DEF Shape, TypeOK, CallsNameSessions, Call, Cleaner, Idle, ClosedSessionsAreOut, ClosingIsOut,
     TakenAreOut, BeginsAlone, KeptAreNamed
<1>8. MissingIsInserted' /\ DeletedIsGone' /\ RowsFollowEntries'
  BY DEF Shape, TypeOK, CallsNameSessions, Call, Cleaner, Idle, MissingIsInserted, DeletedIsGone,
     BeginsAlone, HandledAreNamed, RowsFollowEntries, UnderWay, Content
<1> QED
  BY <1>1, <1>2, <1>3, <1>4, <1>5, <1>6, <1>7, <1>8

\* The entry is new, and about to be inserted.
LEMMA EnterKeeps ==
    ASSUME IndInv, NEW t \in Thread, Enter(t)
    PROVE  IndInv'
<1> USE DEF IndInv, Enter, Goto
<1>1. Shape'
  BY DEF Shape, TypeOK, CallsNameSessions, Call, Place, Request, Cleaner, Row, Idle
<1>2. BeginsAlone' /\ KeptAreNamed' /\ HandledAreNamed'
  BY DEF Shape, TypeOK, CallsNameSessions, Call, Cleaner, Idle, BeginsAlone, KeptAreNamed,
     HandledAreNamed
<1>3. ListedAreKnown'
  BY DEF Shape, TypeOK, CallsNameSessions, Call, Cleaner, Idle, ListedAreKnown, BeginsAlone,
     HandledAreNamed
<1>4. ClosingIsOut' /\ RestingHoldsNone' /\ TakenAreOut' /\ ClosedSessionsAreOut'
  BY DEF Shape, TypeOK, CallsNameSessions, Call, Cleaner, Idle, ClosingIsOut, BeginsAlone,
     HandledAreNamed, RestingHoldsNone, TakenAreOut, ListedAreKnown, ClosedSessionsAreOut,
     KeptAreNamed
<1>5. OpenEntriesAreUsable'
  BY DEF Shape, TypeOK, CallsNameSessions, Call, Cleaner, Idle, OpenEntriesAreUsable, Held,
     RestingHoldsNone, KeptAreNamed
<1>6. MissingIsInserted'
  BY DEF Shape, TypeOK, CallsNameSessions, Call, Cleaner, Idle, MissingIsInserted, DeletedIsGone
<1>7. DeletedIsGone'
  BY DEF Shape, TypeOK, CallsNameSessions, Call, Cleaner, Idle, DeletedIsGone, BeginsAlone,
     HandledAreNamed
<1>8. RowsFollowEntries'
  BY DEF Shape, TypeOK, CallsNameSessions, Call, Cleaner, Idle, RowsFollowEntries, UnderWay,
     Content, MissingIsInserted, DeletedIsGone
<1> QED
  BY <1>1, <1>2, <1>3, <1>4, <1>5, <1>6, <1>7, <1>8

\* A request finds a session that somebody began.
LEMMA CheckKeeps ==
    ASSUME IndInv, NEW t \in Thread, NEW s \in Session, NEW op \in {"use", "logout"}, Check(t, s, op)
    PROVE  IndInv'
<1> USE DEF IndInv, Check, Begin, FindSession, Request
<1>1. Shape'
  BY DEF Shape, TypeOK, CallsNameSessions, Call, Place, Request, Cleaner, Row, Idle
<1>2. BeginsAlone' /\ ListedAreKnown' /\ KeptAreNamed'
  BY DEF Shape, TypeOK, CallsNameSessions, Call, Cleaner, Idle, BeginsAlone, KeptAreNamed,
     HandledAreNamed, ListedAreKnown
<1>3. HandledAreNamed'
  BY DEF Shape, TypeOK, CallsNameSessions, Call, Cleaner, Idle, HandledAreNamed, KeptAreNamed
<1>4. ClosingIsOut' /\ RestingHoldsNone' /\ TakenAreOut' /\ ClosedSessionsAreOut' /\ OpenEntriesAreUsable'
  BY DEF Shape, TypeOK, CallsNameSessions, Call, Cleaner, Idle, ClosingIsOut, BeginsAlone,
     HandledAreNamed, RestingHoldsNone, TakenAreOut, ListedAreKnown, ClosedSessionsAreOut,
     KeptAreNamed, OpenEntriesAreUsable, Held
<1>5. MissingIsInserted' /\ DeletedIsGone' /\ RowsFollowEntries'
  BY DEF Shape, TypeOK, CallsNameSessions, Call, Cleaner, Idle, MissingIsInserted, DeletedIsGone,
     BeginsAlone, HandledAreNamed, RowsFollowEntries, UnderWay, Content
<1> QED
  BY <1>1, <1>2, <1>3, <1>4, <1>5

\* Touching a session moves nothing.
LEMMA TouchKeeps ==
    ASSUME IndInv, NEW t \in Thread, Touch(t)
    PROVE  IndInv'
<1> USE DEF IndInv, Touch, Goto
<1>1. Shape'
  BY DEF Shape, TypeOK, CallsNameSessions, Call, Place, Request, Cleaner, Row, Idle
<1>2. BeginsAlone' /\ ListedAreKnown' /\ KeptAreNamed' /\ HandledAreNamed'
  BY DEF Shape, TypeOK, CallsNameSessions, Call, Cleaner, Idle, BeginsAlone, KeptAreNamed,
     HandledAreNamed, ListedAreKnown
<1>3. ClosingIsOut' /\ RestingHoldsNone' /\ TakenAreOut' /\ ClosedSessionsAreOut' /\ OpenEntriesAreUsable'
  BY DEF Shape, TypeOK, CallsNameSessions, Call, Cleaner, Idle, ClosingIsOut, BeginsAlone,
     HandledAreNamed, RestingHoldsNone, TakenAreOut, ListedAreKnown, ClosedSessionsAreOut,
     KeptAreNamed, OpenEntriesAreUsable, Held
<1>4. MissingIsInserted' /\ DeletedIsGone' /\ RowsFollowEntries'
  BY DEF Shape, TypeOK, CallsNameSessions, Call, Cleaner, Idle, MissingIsInserted, DeletedIsGone,
     BeginsAlone, HandledAreNamed, RowsFollowEntries, UnderWay, Content
<1> QED
  BY <1>1, <1>2, <1>3, <1>4

\* The request ends.
LEMMA UseKeeps ==
    ASSUME IndInv, NEW t \in Thread, Use(t)
    PROVE  IndInv'
<1> USE DEF IndInv, Use, Return
<1>1. Shape'
  BY DEF Shape, TypeOK, CallsNameSessions, Call, Place, Request, Cleaner, Row, Idle
<1>2. BeginsAlone' /\ ListedAreKnown' /\ KeptAreNamed' /\ HandledAreNamed'
  BY DEF Shape, TypeOK, CallsNameSessions, Call, Cleaner, Idle, BeginsAlone, KeptAreNamed,
     HandledAreNamed, ListedAreKnown
<1>3. ClosingIsOut' /\ RestingHoldsNone' /\ TakenAreOut' /\ ClosedSessionsAreOut' /\ OpenEntriesAreUsable'
  BY DEF Shape, TypeOK, CallsNameSessions, Call, Cleaner, Idle, ClosingIsOut, BeginsAlone,
     HandledAreNamed, RestingHoldsNone, TakenAreOut, ListedAreKnown, ClosedSessionsAreOut,
     KeptAreNamed, OpenEntriesAreUsable, Held
<1>4. MissingIsInserted' /\ DeletedIsGone' /\ RowsFollowEntries'
  BY DEF Shape, TypeOK, CallsNameSessions, Call, Cleaner, Idle, MissingIsInserted, DeletedIsGone,
     BeginsAlone, HandledAreNamed, RowsFollowEntries, UnderWay, Content
<1> QED
  BY <1>1, <1>2, <1>3, <1>4

\* The logout goes on to the list.
LEMMA LogoutKeeps ==
    ASSUME IndInv, NEW t \in Thread, Logout(t)
    PROVE  IndInv'
<1> USE DEF IndInv, Logout, Goto
<1>1. Shape'
  BY DEF Shape, TypeOK, CallsNameSessions, Call, Place, Request, Cleaner, Row, Idle
<1>2. BeginsAlone' /\ ListedAreKnown' /\ KeptAreNamed' /\ HandledAreNamed'
  BY DEF Shape, TypeOK, CallsNameSessions, Call, Cleaner, Idle, BeginsAlone, KeptAreNamed,
     HandledAreNamed, ListedAreKnown
<1>3. ClosingIsOut' /\ RestingHoldsNone' /\ TakenAreOut' /\ ClosedSessionsAreOut' /\ OpenEntriesAreUsable'
  BY DEF Shape, TypeOK, CallsNameSessions, Call, Cleaner, Idle, ClosingIsOut, BeginsAlone,
     HandledAreNamed, RestingHoldsNone, TakenAreOut, ListedAreKnown, ClosedSessionsAreOut,
     KeptAreNamed, OpenEntriesAreUsable, Held
<1>4. MissingIsInserted' /\ DeletedIsGone' /\ RowsFollowEntries'
  BY DEF Shape, TypeOK, CallsNameSessions, Call, Cleaner, Idle, MissingIsInserted, DeletedIsGone,
     BeginsAlone, HandledAreNamed, RowsFollowEntries, UnderWay, Content
<1> QED
  BY <1>1, <1>2, <1>3, <1>4

\* What leaves the list is about to be closed.
LEMMA EraseKeeps ==
    ASSUME IndInv, NEW t \in Thread, Erase(t)
    PROVE  IndInv'
<1> USE DEF IndInv, Erase, Goto
<1>1. Shape'
  BY DEF Shape, TypeOK, CallsNameSessions, Call, Place, Request, Cleaner, Row, Idle
<1>2. BeginsAlone' /\ ListedAreKnown' /\ KeptAreNamed' /\ HandledAreNamed'
  BY DEF Shape, TypeOK, CallsNameSessions, Call, Cleaner, Idle, BeginsAlone, KeptAreNamed,
     HandledAreNamed, ListedAreKnown
<1>3. RestingHoldsNone' /\ TakenAreOut' /\ ClosedSessionsAreOut'
  BY DEF Shape, TypeOK, CallsNameSessions, Call, Cleaner, Idle, RestingHoldsNone, TakenAreOut,
     BeginsAlone, ListedAreKnown, ClosedSessionsAreOut, ClosingIsOut, KeptAreNamed
<1>4. ClosingIsOut'
  BY DEF Shape, TypeOK, CallsNameSessions, Call, Cleaner, Idle, ClosingIsOut, BeginsAlone,
     HandledAreNamed
<1>5. OpenEntriesAreUsable'
  BY DEF Shape, TypeOK, CallsNameSessions, Call, Cleaner, Idle, OpenEntriesAreUsable, Held,
     RestingHoldsNone, KeptAreNamed
<1>6. MissingIsInserted' /\ DeletedIsGone' /\ RowsFollowEntries'
  BY DEF Shape, TypeOK, CallsNameSessions, Call, Cleaner, Idle, MissingIsInserted, DeletedIsGone,
     BeginsAlone, HandledAreNamed, RowsFollowEntries, UnderWay, Content
<1> QED
  BY <1>1, <1>2, <1>3, <1>4, <1>5, <1>6

\* A closed entry is out of the list and about to be updated.
LEMMA CloseKeeps ==
    ASSUME IndInv, NEW t \in Thread, Close(t)
    PROVE  IndInv'
<1> USE DEF IndInv, Close, Goto, Return, Change, FindSessionByHash
<1>1. Shape'
  BY DEF Shape, TypeOK, CallsNameSessions, Call, Place, Request, Cleaner, Row, Idle
<1>2. BeginsAlone' /\ ListedAreKnown' /\ KeptAreNamed' /\ HandledAreNamed'
  BY DEF Shape, TypeOK, CallsNameSessions, Call, Cleaner, Idle, BeginsAlone, KeptAreNamed,
     HandledAreNamed, ListedAreKnown
<1>3. ClosingIsOut' /\ RestingHoldsNone' /\ TakenAreOut'
  BY DEF Shape, TypeOK, CallsNameSessions, Call, Cleaner, Idle, ClosingIsOut, BeginsAlone,
     HandledAreNamed, RestingHoldsNone, TakenAreOut, ListedAreKnown
<1>4. ClosedSessionsAreOut'
  BY DEF Shape, TypeOK, CallsNameSessions, Call, Cleaner, Idle, ClosedSessionsAreOut, ClosingIsOut,
     TakenAreOut, BeginsAlone, KeptAreNamed
<1>5. OpenEntriesAreUsable'
  BY DEF Shape, TypeOK, CallsNameSessions, Call, Cleaner, Idle, OpenEntriesAreUsable, Held,
     RestingHoldsNone, KeptAreNamed
<1>6. MissingIsInserted' /\ DeletedIsGone'
  BY DEF Shape, TypeOK, CallsNameSessions, Call, Cleaner, Idle, MissingIsInserted, DeletedIsGone,
     BeginsAlone, HandledAreNamed
<1>7. RowsFollowEntries'
  BY DEF Shape, TypeOK, CallsNameSessions, Call, Cleaner, Idle, RowsFollowEntries, UnderWay,
     Content, MissingIsInserted, DeletedIsGone
<1> QED
  BY <1>1, <1>2, <1>3, <1>4, <1>5, <1>6, <1>7

\* What is dropped is about to be deleted.
LEMMA DropKeeps ==
    ASSUME IndInv, NEW t \in Thread, NEW s \in Session, Drop(t, s)
    PROVE  IndInv'
<1> USE DEF IndInv, Drop, Begin
<1>1. Shape'
  BY DEF Shape, TypeOK, CallsNameSessions, Call, Place, Request, Cleaner, Row, Idle
<1>2. BeginsAlone' /\ ListedAreKnown' /\ KeptAreNamed' /\ HandledAreNamed'
  BY DEF Shape, TypeOK, CallsNameSessions, Call, Cleaner, Idle, BeginsAlone, KeptAreNamed,
     HandledAreNamed, ListedAreKnown
<1>3. ClosingIsOut' /\ RestingHoldsNone' /\ TakenAreOut' /\ ClosedSessionsAreOut' /\ OpenEntriesAreUsable'
  BY DEF Shape, TypeOK, CallsNameSessions, Call, Cleaner, Idle, ClosingIsOut, BeginsAlone,
     HandledAreNamed, RestingHoldsNone, TakenAreOut, ListedAreKnown, ClosedSessionsAreOut,
     KeptAreNamed, OpenEntriesAreUsable, Held
<1>4. MissingIsInserted' /\ RowsFollowEntries'
  BY DEF Shape, TypeOK, CallsNameSessions, Call, Cleaner, Idle, MissingIsInserted, DeletedIsGone,
     RowsFollowEntries, UnderWay, Content
<1>5. DeletedIsGone'
  BY DEF Shape, TypeOK, CallsNameSessions, Call, Cleaner, Idle, DeletedIsGone, BeginsAlone,
     HandledAreNamed
<1> QED
  BY <1>1, <1>2, <1>3, <1>4, <1>5

\* The row is written as the entry is.
LEMMA InsertKeeps ==
    ASSUME IndInv, NEW t \in Thread, Insert(t)
    PROVE  IndInv'
<1> USE DEF IndInv, Insert, Return, Content
<1>1. Shape'
  BY DEF Shape, TypeOK, CallsNameSessions, Call, Place, Request, Cleaner, Row, Idle
<1>2. BeginsAlone' /\ ListedAreKnown' /\ HandledAreNamed'
  BY DEF Shape, TypeOK, CallsNameSessions, Call, Cleaner, Idle, BeginsAlone, KeptAreNamed,
     HandledAreNamed, ListedAreKnown
<1>3. KeptAreNamed'
  BY DEF Shape, TypeOK, CallsNameSessions, Call, Cleaner, Idle, KeptAreNamed, HandledAreNamed
<1>4. ClosingIsOut' /\ RestingHoldsNone' /\ TakenAreOut' /\ ClosedSessionsAreOut' /\ OpenEntriesAreUsable'
  BY DEF Shape, TypeOK, CallsNameSessions, Call, Cleaner, Idle, ClosingIsOut, BeginsAlone,
     HandledAreNamed, RestingHoldsNone, TakenAreOut, ListedAreKnown, ClosedSessionsAreOut,
     KeptAreNamed, OpenEntriesAreUsable, Held
<1>5. DeletedIsGone'
  BY DEF Shape, TypeOK, CallsNameSessions, Call, Cleaner, Idle, DeletedIsGone, BeginsAlone,
     HandledAreNamed
<1>6. MissingIsInserted'
  BY DEF Shape, TypeOK, CallsNameSessions, Call, Cleaner, Idle, MissingIsInserted, DeletedIsGone
<1>7. RowsFollowEntries'
  BY DEF Shape, TypeOK, CallsNameSessions, Call, Cleaner, Idle, RowsFollowEntries, UnderWay,
     MissingIsInserted, DeletedIsGone
<1> QED
  BY <1>1, <1>2, <1>3, <1>4, <1>5, <1>6, <1>7

\* The row follows the entry, or waits for its INSERT.
LEMMA UpdateKeeps ==
    ASSUME IndInv, NEW t \in Thread, Update(t)
    PROVE  IndInv'
<1> USE DEF IndInv, Update, Return, Updated, Content
<1>1. Shape'
  BY DEF Shape, TypeOK, CallsNameSessions, Call, Place, Request, Cleaner, Row, Idle
<1>2. BeginsAlone' /\ ListedAreKnown' /\ KeptAreNamed' /\ HandledAreNamed'
  BY DEF Shape, TypeOK, CallsNameSessions, Call, Cleaner, Idle, BeginsAlone, KeptAreNamed,
     HandledAreNamed, ListedAreKnown
<1>3. ClosingIsOut' /\ RestingHoldsNone' /\ TakenAreOut' /\ ClosedSessionsAreOut' /\ OpenEntriesAreUsable'
  BY DEF Shape, TypeOK, CallsNameSessions, Call, Cleaner, Idle, ClosingIsOut, BeginsAlone,
     HandledAreNamed, RestingHoldsNone, TakenAreOut, ListedAreKnown, ClosedSessionsAreOut,
     KeptAreNamed, OpenEntriesAreUsable, Held
<1>4. DeletedIsGone'
  BY DEF Shape, TypeOK, CallsNameSessions, Call, Cleaner, Idle, DeletedIsGone, BeginsAlone,
     HandledAreNamed
<1>5. MissingIsInserted'
  BY DEF Shape, TypeOK, CallsNameSessions, Call, Cleaner, Idle, MissingIsInserted, DeletedIsGone
<1>6. RowsFollowEntries'
  BY DEF Shape, TypeOK, CallsNameSessions, Call, Cleaner, Idle, RowsFollowEntries, UnderWay,
     MissingIsInserted, DeletedIsGone
<1> QED
  BY <1>1, <1>2, <1>3, <1>4, <1>5, <1>6

\* The row of an entry that is gone goes.
LEMMA DeleteKeeps ==
    ASSUME IndInv, NEW t \in Thread, Delete(t)
    PROVE  IndInv'
<1> USE DEF IndInv, Delete, Return
<1>1. Shape'
  BY DEF Shape, TypeOK, CallsNameSessions, Call, Place, Request, Cleaner, Row, Idle
<1>2. BeginsAlone' /\ ListedAreKnown' /\ KeptAreNamed' /\ HandledAreNamed'
  BY DEF Shape, TypeOK, CallsNameSessions, Call, Cleaner, Idle, BeginsAlone, KeptAreNamed,
     HandledAreNamed, ListedAreKnown
<1>3. ClosingIsOut' /\ RestingHoldsNone' /\ TakenAreOut' /\ ClosedSessionsAreOut' /\ OpenEntriesAreUsable'
  BY DEF Shape, TypeOK, CallsNameSessions, Call, Cleaner, Idle, ClosingIsOut, BeginsAlone,
     HandledAreNamed, RestingHoldsNone, TakenAreOut, ListedAreKnown, ClosedSessionsAreOut,
     KeptAreNamed, OpenEntriesAreUsable, Held
<1>4. DeletedIsGone'
  BY DEF Shape, TypeOK, CallsNameSessions, Call, Cleaner, Idle, DeletedIsGone, BeginsAlone,
     HandledAreNamed
<1>5. MissingIsInserted'
  BY DEF Shape, TypeOK, CallsNameSessions, Call, Cleaner, Idle, MissingIsInserted, DeletedIsGone
<1>6. RowsFollowEntries'
  BY DEF Shape, TypeOK, CallsNameSessions, Call, Cleaner, Idle, RowsFollowEntries, UnderWay,
     Content, MissingIsInserted, DeletedIsGone
<1> QED
  BY <1>1, <1>2, <1>3, <1>4, <1>5, <1>6

\* The thread of the context starts with nothing removed.
LEMMA StartKeeps ==
    ASSUME IndInv, Start
    PROVE  IndInv'
<1> USE DEF IndInv, Start, Cleaning, CleanerGoto
<1>1. Shape'
  BY DEF Shape, TypeOK, CallsNameSessions, Call, Place, Request, Cleaner, Row, Idle
<1>2. BeginsAlone' /\ ListedAreKnown' /\ KeptAreNamed' /\ HandledAreNamed'
  BY DEF Shape, TypeOK, CallsNameSessions, Call, Cleaner, Idle, BeginsAlone, KeptAreNamed,
     HandledAreNamed, ListedAreKnown
<1>3. ClosingIsOut' /\ RestingHoldsNone' /\ TakenAreOut' /\ ClosedSessionsAreOut' /\ OpenEntriesAreUsable'
  BY DEF Shape, TypeOK, CallsNameSessions, Call, Cleaner, Idle, ClosingIsOut, BeginsAlone,
     HandledAreNamed, RestingHoldsNone, TakenAreOut, ListedAreKnown, ClosedSessionsAreOut,
     KeptAreNamed, OpenEntriesAreUsable, Held
<1>4. MissingIsInserted' /\ DeletedIsGone' /\ RowsFollowEntries'
  BY DEF Shape, TypeOK, CallsNameSessions, Call, Cleaner, Idle, MissingIsInserted, DeletedIsGone,
     BeginsAlone, HandledAreNamed, RowsFollowEntries, UnderWay, Content
<1> QED
  BY <1>1, <1>2, <1>3, <1>4

\* A turn begins with nothing removed.
LEMMA WakeKeeps ==
    ASSUME IndInv, Wake
    PROVE  IndInv'
<1> USE DEF IndInv, Wake, Cleaning, CleanerGoto
<1>1. Shape'
  BY DEF Shape, TypeOK, CallsNameSessions, Call, Place, Request, Cleaner, Row, Idle
<1>2. BeginsAlone' /\ ListedAreKnown' /\ KeptAreNamed' /\ HandledAreNamed'
  BY DEF Shape, TypeOK, CallsNameSessions, Call, Cleaner, Idle, BeginsAlone, KeptAreNamed,
     HandledAreNamed, ListedAreKnown
<1>3. ClosingIsOut' /\ RestingHoldsNone' /\ TakenAreOut' /\ ClosedSessionsAreOut' /\ OpenEntriesAreUsable'
  BY DEF Shape, TypeOK, CallsNameSessions, Call, Cleaner, Idle, ClosingIsOut, BeginsAlone,
     HandledAreNamed, RestingHoldsNone, TakenAreOut, ListedAreKnown, ClosedSessionsAreOut,
     KeptAreNamed, OpenEntriesAreUsable, Held
<1>4. MissingIsInserted' /\ DeletedIsGone' /\ RowsFollowEntries'
  BY DEF Shape, TypeOK, CallsNameSessions, Call, Cleaner, Idle, MissingIsInserted, DeletedIsGone,
     BeginsAlone, HandledAreNamed, RowsFollowEntries, UnderWay, Content
<1> QED
  BY <1>1, <1>2, <1>3, <1>4

\* The copies are taken from the list.
LEMMA FilterKeeps ==
    ASSUME IndInv, Filter
    PROVE  IndInv'
<1> USE DEF IndInv, Filter, Cleaning
<1>1. Shape'
  BY DEF Shape, TypeOK, CallsNameSessions, Call, Place, Request, Cleaner, Row, Idle
<1>2. BeginsAlone' /\ KeptAreNamed' /\ HandledAreNamed'
  BY DEF Shape, TypeOK, CallsNameSessions, Call, Cleaner, Idle, BeginsAlone, KeptAreNamed,
     HandledAreNamed
<1>3. ListedAreKnown'
  BY DEF Shape, TypeOK, CallsNameSessions, Call, Cleaner, Idle, ListedAreKnown, BeginsAlone,
     HandledAreNamed
<1>4. ClosingIsOut' /\ RestingHoldsNone' /\ TakenAreOut' /\ ClosedSessionsAreOut'
  BY DEF Shape, TypeOK, CallsNameSessions, Call, Cleaner, Idle, ClosingIsOut, BeginsAlone,
     HandledAreNamed, RestingHoldsNone, TakenAreOut, ListedAreKnown, ClosedSessionsAreOut,
     KeptAreNamed
<1>5. OpenEntriesAreUsable'
  BY DEF Shape, TypeOK, CallsNameSessions, Call, Cleaner, Idle, OpenEntriesAreUsable, Held,
     RestingHoldsNone, KeptAreNamed
<1>6. MissingIsInserted' /\ DeletedIsGone' /\ RowsFollowEntries'
  BY DEF Shape, TypeOK, CallsNameSessions, Call, Cleaner, Idle, MissingIsInserted, DeletedIsGone,
     BeginsAlone, HandledAreNamed, RowsFollowEntries, UnderWay, Content
<1> QED
  BY <1>1, <1>2, <1>3, <1>4, <1>5, <1>6

\* What leaves the list in the second pass was copied in the first, or raced.
LEMMA RemoveKeeps ==
    ASSUME IndInv, Remove
    PROVE  IndInv'
<1> USE DEF IndInv, Remove, Cleaning, CleanerGoto
<1>1. Shape'
  BY DEF Shape, TypeOK, CallsNameSessions, Call, Place, Request, Cleaner, Row, Idle
<1>2. BeginsAlone' /\ ListedAreKnown' /\ KeptAreNamed' /\ HandledAreNamed'
  BY DEF Shape, TypeOK, CallsNameSessions, Call, Cleaner, Idle, BeginsAlone, KeptAreNamed,
     HandledAreNamed, ListedAreKnown
<1>3. ClosingIsOut' /\ RestingHoldsNone' /\ ClosedSessionsAreOut'
  BY DEF Shape, TypeOK, CallsNameSessions, Call, Cleaner, Idle, ClosingIsOut, BeginsAlone,
     HandledAreNamed, RestingHoldsNone, ClosedSessionsAreOut, TakenAreOut, KeptAreNamed
<1>4. TakenAreOut'
  BY DEF Shape, TypeOK, CallsNameSessions, Call, Cleaner, Idle, TakenAreOut, BeginsAlone,
     ListedAreKnown
<1>5. OpenEntriesAreUsable'
  BY DEF Shape, TypeOK, CallsNameSessions, Call, Cleaner, Idle, OpenEntriesAreUsable, Held,
     RestingHoldsNone, KeptAreNamed
<1>6. MissingIsInserted' /\ DeletedIsGone' /\ RowsFollowEntries'
  BY DEF Shape, TypeOK, CallsNameSessions, Call, Cleaner, Idle, MissingIsInserted, DeletedIsGone,
     BeginsAlone, HandledAreNamed, RowsFollowEntries, UnderWay, Content
<1> QED
  BY <1>1, <1>2, <1>3, <1>4, <1>5, <1>6

\* A copy is closed, and is out of the list unless it raced.
LEMMA CleanerCloseKeeps ==
    ASSUME IndInv, NEW s \in Session, CleanerClose(s)
    PROVE  IndInv'
<1> USE DEF IndInv, CleanerClose, Cleaning, Change, FindSessionByHash, CleanerTook
<1>1. Shape'
  BY DEF Shape, TypeOK, CallsNameSessions, Call, Place, Request, Cleaner, Row, Idle
<1>2. BeginsAlone' /\ ListedAreKnown' /\ KeptAreNamed' /\ HandledAreNamed'
  BY DEF Shape, TypeOK, CallsNameSessions, Call, Cleaner, Idle, BeginsAlone, KeptAreNamed,
     HandledAreNamed, ListedAreKnown
<1>3. ClosingIsOut' /\ RestingHoldsNone' /\ TakenAreOut'
  BY DEF Shape, TypeOK, CallsNameSessions, Call, Cleaner, Idle, ClosingIsOut, BeginsAlone,
     HandledAreNamed, RestingHoldsNone, TakenAreOut, ListedAreKnown
<1>4. ClosedSessionsAreOut'
  BY DEF Shape, TypeOK, CallsNameSessions, Call, Cleaner, Idle, ClosedSessionsAreOut, ClosingIsOut,
     TakenAreOut, BeginsAlone, KeptAreNamed
<1>5. OpenEntriesAreUsable'
  BY DEF Shape, TypeOK, CallsNameSessions, Call, Cleaner, Idle, OpenEntriesAreUsable, Held,
     RestingHoldsNone, KeptAreNamed
<1>6. MissingIsInserted' /\ DeletedIsGone'
  BY DEF Shape, TypeOK, CallsNameSessions, Call, Cleaner, Idle, MissingIsInserted, DeletedIsGone,
     BeginsAlone, HandledAreNamed
<1>7. RowsFollowEntries'
  BY DEF Shape, TypeOK, CallsNameSessions, Call, Cleaner, Idle, RowsFollowEntries, UnderWay,
     Content, MissingIsInserted, DeletedIsGone
<1> QED
  BY <1>1, <1>2, <1>3, <1>4, <1>5, <1>6, <1>7

\* The row follows the entry, or waits for its INSERT.
LEMMA CleanerUpdateKeeps ==
    ASSUME IndInv, CleanerUpdate
    PROVE  IndInv'
<1> USE DEF IndInv, CleanerUpdate, Cleaning, CleanerGoto, Updated, Content
<1>1. Shape'
  BY DEF Shape, TypeOK, CallsNameSessions, Call, Place, Request, Cleaner, Row, Idle
<1>2. BeginsAlone' /\ ListedAreKnown' /\ KeptAreNamed' /\ HandledAreNamed'
  BY DEF Shape, TypeOK, CallsNameSessions, Call, Cleaner, Idle, BeginsAlone, KeptAreNamed,
     HandledAreNamed, ListedAreKnown
<1>3. ClosingIsOut' /\ RestingHoldsNone' /\ TakenAreOut' /\ ClosedSessionsAreOut' /\ OpenEntriesAreUsable'
  BY DEF Shape, TypeOK, CallsNameSessions, Call, Cleaner, Idle, ClosingIsOut, BeginsAlone,
     HandledAreNamed, RestingHoldsNone, TakenAreOut, ListedAreKnown, ClosedSessionsAreOut,
     KeptAreNamed, OpenEntriesAreUsable, Held
<1>4. DeletedIsGone'
  BY DEF Shape, TypeOK, CallsNameSessions, Call, Cleaner, Idle, DeletedIsGone, BeginsAlone,
     HandledAreNamed
<1>5. MissingIsInserted'
  BY DEF Shape, TypeOK, CallsNameSessions, Call, Cleaner, Idle, MissingIsInserted, DeletedIsGone
<1>6. RowsFollowEntries'
  BY DEF Shape, TypeOK, CallsNameSessions, Call, Cleaner, Idle, RowsFollowEntries, UnderWay,
     MissingIsInserted, DeletedIsGone
<1> QED
  BY <1>1, <1>2, <1>3, <1>4, <1>5, <1>6

\* A turn ends when nothing is left of it.
LEMMA SleepKeeps ==
    ASSUME IndInv, Sleep
    PROVE  IndInv'
<1> USE DEF IndInv, Sleep, Cleaning
<1>1. Shape'
  BY DEF Shape, TypeOK, CallsNameSessions, Call, Place, Request, Cleaner, Row, Idle
<1>2. BeginsAlone' /\ ListedAreKnown' /\ KeptAreNamed' /\ HandledAreNamed'
  BY DEF Shape, TypeOK, CallsNameSessions, Call, Cleaner, Idle, BeginsAlone, KeptAreNamed,
     HandledAreNamed, ListedAreKnown
<1>3. ClosingIsOut' /\ RestingHoldsNone' /\ TakenAreOut' /\ ClosedSessionsAreOut' /\ OpenEntriesAreUsable'
  BY DEF Shape, TypeOK, CallsNameSessions, Call, Cleaner, Idle, ClosingIsOut, BeginsAlone,
     HandledAreNamed, RestingHoldsNone, TakenAreOut, ListedAreKnown, ClosedSessionsAreOut,
     KeptAreNamed, OpenEntriesAreUsable, Held
<1>4. MissingIsInserted' /\ DeletedIsGone' /\ RowsFollowEntries'
  BY DEF Shape, TypeOK, CallsNameSessions, Call, Cleaner, Idle, MissingIsInserted, DeletedIsGone,
     BeginsAlone, HandledAreNamed, RowsFollowEntries, UnderWay, Content
<1> QED
  BY <1>1, <1>2, <1>3, <1>4

\* The destructor touches no session.
LEMMA StopKeeps ==
    ASSUME IndInv, Stop
    PROVE  IndInv'
<1> USE DEF IndInv, Stop
<1>1. Shape'
  BY DEF Shape, TypeOK, CallsNameSessions, Call, Place, Request, Cleaner, Row, Idle
<1>2. BeginsAlone' /\ ListedAreKnown' /\ KeptAreNamed' /\ HandledAreNamed'
  BY DEF Shape, TypeOK, CallsNameSessions, Call, Cleaner, Idle, BeginsAlone, KeptAreNamed,
     HandledAreNamed, ListedAreKnown
<1>3. ClosingIsOut' /\ RestingHoldsNone' /\ TakenAreOut' /\ ClosedSessionsAreOut' /\ OpenEntriesAreUsable'
  BY DEF Shape, TypeOK, CallsNameSessions, Call, Cleaner, Idle, ClosingIsOut, BeginsAlone,
     HandledAreNamed, RestingHoldsNone, TakenAreOut, ListedAreKnown, ClosedSessionsAreOut,
     KeptAreNamed, OpenEntriesAreUsable, Held
<1>4. MissingIsInserted' /\ DeletedIsGone' /\ RowsFollowEntries'
  BY DEF Shape, TypeOK, CallsNameSessions, Call, Cleaner, Idle, MissingIsInserted, DeletedIsGone,
     BeginsAlone, HandledAreNamed, RowsFollowEntries, UnderWay, Content
<1> QED
  BY <1>1, <1>2, <1>3, <1>4

\* The end touches no session.
LEMMA JoinKeeps ==
    ASSUME IndInv, Join
    PROVE  IndInv'
<1> USE DEF IndInv, Join, Cleaning
<1>1. Shape'
  BY DEF Shape, TypeOK, CallsNameSessions, Call, Place, Request, Cleaner, Row, Idle
<1>2. BeginsAlone' /\ ListedAreKnown' /\ KeptAreNamed' /\ HandledAreNamed'
  BY DEF Shape, TypeOK, CallsNameSessions, Call, Cleaner, Idle, BeginsAlone, KeptAreNamed,
     HandledAreNamed, ListedAreKnown
<1>3. ClosingIsOut' /\ RestingHoldsNone' /\ TakenAreOut' /\ ClosedSessionsAreOut' /\ OpenEntriesAreUsable'
  BY DEF Shape, TypeOK, CallsNameSessions, Call, Cleaner, Idle, ClosingIsOut, BeginsAlone,
     HandledAreNamed, RestingHoldsNone, TakenAreOut, ListedAreKnown, ClosedSessionsAreOut,
     KeptAreNamed, OpenEntriesAreUsable, Held
<1>4. MissingIsInserted' /\ DeletedIsGone' /\ RowsFollowEntries'
  BY DEF Shape, TypeOK, CallsNameSessions, Call, Cleaner, Idle, MissingIsInserted, DeletedIsGone,
     BeginsAlone, HandledAreNamed, RowsFollowEntries, UnderWay, Content
<1> QED
  BY <1>1, <1>2, <1>3, <1>4

\* The entries come from the rows, which nobody holds.
LEMMA RestartKeeps ==
    ASSUME IndInv, Restart
    PROVE  IndInv'
<1> USE DEF IndInv, Restart, Starting
<1>1. Shape'
  <2>1. call' \in [Thread -> Call] /\ cleaner' \in Cleaner /\ CallsNameSessions'
    BY DEF CallsNameSessions, Call, Place, Request, Cleaner, Idle
  <2>2. now' \in 0 .. MaxTime /\ last' \in [Session -> 0 .. MaxTime] /\ boots' \in 0 .. MaxBoots
    BY SessionsAssumption DEF Shape, TypeOK
  <2>3. named' \subseteq Session
    BY DEF Shape, TypeOK
  <2> QED
    BY <2>1, <2>2, <2>3 DEF Shape, TypeOK
<1>2. BeginsAlone' /\ ListedAreKnown' /\ HandledAreNamed'
  BY DEF Shape, TypeOK, CallsNameSessions, Call, Cleaner, Idle, BeginsAlone, KeptAreNamed,
     HandledAreNamed, ListedAreKnown, Row
<1>3. KeptAreNamed'
  BY DEF Shape, TypeOK, CallsNameSessions, Call, Cleaner, Idle, KeptAreNamed, HandledAreNamed, Row
<1>4. ClosingIsOut' /\ RestingHoldsNone' /\ TakenAreOut' /\ ClosedSessionsAreOut'
  BY DEF Shape, TypeOK, CallsNameSessions, Call, Cleaner, Idle, ClosingIsOut, BeginsAlone,
     HandledAreNamed, RestingHoldsNone, TakenAreOut, ListedAreKnown, ClosedSessionsAreOut,
     KeptAreNamed, Row
<1>5. OpenEntriesAreUsable'
  BY DEF Shape, TypeOK, CallsNameSessions, Call, Cleaner, Idle, OpenEntriesAreUsable, Held,
     RestingHoldsNone, KeptAreNamed, Row
<1>6. DeletedIsGone'
  BY DEF Shape, TypeOK, CallsNameSessions, Call, Cleaner, Idle, DeletedIsGone, BeginsAlone,
     HandledAreNamed, Row
<1>7. MissingIsInserted'
  BY DEF Shape, TypeOK, CallsNameSessions, Call, Cleaner, Idle, MissingIsInserted, DeletedIsGone,
     Row
<1>8. RowsFollowEntries'
  BY DEF Shape, TypeOK, CallsNameSessions, Call, Cleaner, Idle, RowsFollowEntries, UnderWay,
     Content, MissingIsInserted, DeletedIsGone, Row
<1> QED
  BY <1>1, <1>2, <1>3, <1>4, <1>5, <1>6, <1>7, <1>8

\* The clock touches no session.
LEMMA TickKeeps ==
    ASSUME IndInv, Tick
    PROVE  IndInv'
<1> USE DEF IndInv, Tick
<1>1. Shape'
  BY SessionsAssumption DEF Shape, TypeOK, CallsNameSessions, Call, Place, Request, Cleaner, Row,
     Idle
<1>2. BeginsAlone' /\ ListedAreKnown' /\ KeptAreNamed' /\ HandledAreNamed'
  BY DEF Shape, TypeOK, CallsNameSessions, Call, Cleaner, Idle, BeginsAlone, KeptAreNamed,
     HandledAreNamed, ListedAreKnown
<1>3. ClosingIsOut' /\ RestingHoldsNone' /\ TakenAreOut' /\ ClosedSessionsAreOut' /\ OpenEntriesAreUsable'
  BY DEF Shape, TypeOK, CallsNameSessions, Call, Cleaner, Idle, ClosingIsOut, BeginsAlone,
     HandledAreNamed, RestingHoldsNone, TakenAreOut, ListedAreKnown, ClosedSessionsAreOut,
     KeptAreNamed, OpenEntriesAreUsable, Held
<1>4. MissingIsInserted' /\ DeletedIsGone' /\ RowsFollowEntries'
  BY DEF Shape, TypeOK, CallsNameSessions, Call, Cleaner, Idle, MissingIsInserted, DeletedIsGone,
     BeginsAlone, HandledAreNamed, RowsFollowEntries, UnderWay, Content
<1> QED
  BY <1>1, <1>2, <1>3, <1>4

----------------------------------------------------------------------------
(* The theorems.                                                           *)

\* Nothing has begun.
LEMMA InitHolds == Init => IndInv
<1> SUFFICES ASSUME Init PROVE IndInv
  OBVIOUS
<1>1. call \in [Thread -> Call] /\ cleaner \in Cleaner /\ CallsNameSessions
  BY DEF Init, CallsNameSessions, Call, Place, Request, Cleaner, Idle, Starting
<1>2. now \in 0 .. MaxTime /\ last \in [Session -> 0 .. MaxTime] /\ boots \in 0 .. MaxBoots
  BY SessionsAssumption DEF Init
<1>3. rows \in [Session -> Row]
  BY DEF Init, Row
<1>4. Shape
  BY <1>1, <1>2, <1>3 DEF Init, Shape, TypeOK
<1>5. BeginsAlone /\ ListedAreKnown /\ KeptAreNamed /\ HandledAreNamed
  BY DEF Init, Idle, Starting, BeginsAlone, ListedAreKnown, KeptAreNamed, HandledAreNamed
<1>6. ClosingIsOut /\ RestingHoldsNone /\ TakenAreOut /\ MissingIsInserted /\ DeletedIsGone
  BY DEF Init, Idle, Starting, ClosingIsOut, RestingHoldsNone, TakenAreOut, MissingIsInserted,
     DeletedIsGone
<1>7. ClosedSessionsAreOut /\ OpenEntriesAreUsable /\ RowsFollowEntries
  BY DEF Init, ClosedSessionsAreOut, OpenEntriesAreUsable, RowsFollowEntries
<1> QED
  BY <1>4, <1>5, <1>6, <1>7 DEF IndInv

\* A step that changes nothing.
LEMMA StutterKeeps ==
    ASSUME IndInv, UNCHANGED vars
    PROVE  IndInv'
<1> USE DEF IndInv, vars
<1>1. Shape'
  BY DEF Shape, TypeOK, CallsNameSessions
<1>2. BeginsAlone' /\ ListedAreKnown' /\ KeptAreNamed' /\ HandledAreNamed'
  BY DEF BeginsAlone, ListedAreKnown, KeptAreNamed, HandledAreNamed
<1>3. ClosingIsOut' /\ RestingHoldsNone' /\ TakenAreOut' /\ MissingIsInserted' /\ DeletedIsGone'
  BY DEF ClosingIsOut, RestingHoldsNone, TakenAreOut, MissingIsInserted, DeletedIsGone
<1>4. ClosedSessionsAreOut' /\ OpenEntriesAreUsable' /\ RowsFollowEntries'
  BY DEF ClosedSessionsAreOut, OpenEntriesAreUsable, Held, RowsFollowEntries, UnderWay, Content
<1> QED
  BY <1>1, <1>2, <1>3, <1>4

\* Every step keeps the invariant.
LEMMA NextKeeps == IndInv /\ [Next]_vars => IndInv'
<1> SUFFICES ASSUME IndInv, [Next]_vars PROVE IndInv'
  OBVIOUS
<1>1. ASSUME NEW t \in Thread, Step(t) PROVE IndInv'
  BY <1>1, PushKeeps, EnterKeeps, InsertKeeps, TouchKeeps, UseKeeps, LogoutKeeps, EraseKeeps,
     CloseKeeps,
     UpdateKeeps, DeleteKeeps DEF Step
<1>2. ASSUME NEW t \in Thread, NEW s \in Session, Ask(t, s) PROVE IndInv'
  BY <1>2, LoginKeeps, DropKeeps, CheckKeeps DEF Ask
<1>3. ASSUME Clean PROVE IndInv'
  BY <1>3, StartKeeps, WakeKeeps, FilterKeeps, RemoveKeeps, CleanerCloseKeeps, CleanerUpdateKeeps,
     SleepKeeps DEF Clean
<1>4. ASSUME Stop \/ Join \/ Restart \/ Tick PROVE IndInv'
  BY <1>4, StopKeeps, JoinKeeps, RestartKeeps, TickKeeps
<1> QED
  BY <1>1, <1>2, <1>3, <1>4, StutterKeeps DEF Next

\* The invariant holds in every behaviour, whatever the fairness.
THEOREM Invariance == Spec => []IndInv
BY InitHolds, NextKeeps, PTL DEF Spec

\* Every variable keeps its type, whatever the clock, the clients and the restarts do.
THEOREM TypeCorrect == Spec => []TypeOK
<1>1. IndInv => TypeOK
  BY DEF IndInv, Shape
<1> QED
  BY <1>1, Invariance, PTL

\* UpdateSessions and RemoveSession: a session is out of the list when its entry is closed.
THEOREM ClosedAreOut == Spec => []ClosedSessionsAreOut
<1>1. IndInv => ClosedSessionsAreOut
  BY DEF IndInv
<1> QED
  BY <1>1, Invariance, PTL

\* Whatever leaves the list is closed afterwards, but for the three races that are named.
THEOREM OpenAreUsable == Spec => []OpenEntriesAreUsable
<1>1. IndInv => OpenEntriesAreUsable
  BY DEF IndInv
<1> QED
  BY <1>1, Invariance, PTL

\* DBSubscriber: the last signal about a session leaves the row as the entry is.
THEOREM RowsFollow == Spec => []RowsFollowEntries
<1>1. IndInv => RowsFollowEntries
  BY DEF IndInv
<1> QED
  BY <1>1, Invariance, PTL
=============================================================================
