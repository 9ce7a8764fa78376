------------------------------ MODULE Sessions ------------------------------
(***************************************************************************)
(* Sessions of the HTTP clients.  SessionContext keeps the sessions that   *)
(* can be used in a list; ModelContext keeps an entry for each session     *)
(* that was ever begun, with the time it ended, and the table mirrors the  *)
(* entries.  Logins and logouts come in threads of the HTTP server, and a  *)
(* thread of the context looks for sessions that ran out, once a second.   *)
(*                                                                         *)
(* The list has a mutex, which neither the clock nor Touch respects: a     *)
(* turn of the cleaner asks every session twice whether it ran out, and    *)
(* may get two answers.  raced and left record what comes of that; they    *)
(* are the only variables the program does not have.                       *)
(***************************************************************************)
EXTENDS Integers

CONSTANTS
    Thread,     \* threads of the HTTP server
    Session,    \* sessions, by their random hash
    Lifetime,   \* how long a session lives without being used
    MaxTime,    \* bound: the clock stops there
    MaxBoots    \* bound: restarts of the process

ASSUME SessionsAssumption ==
    /\ Lifetime \in Nat
    /\ MaxTime \in Nat
    /\ MaxBoots \in Nat

VARIABLES
    now,        \* system_clock, in seconds
    sessions,   \* _sessions of SessionContext
    last,       \* _last_interaction of each session
    entries,    \* _sessions of ModelContext
    closed,     \* the entries with a destruction time
    rows,       \* the table
    named,      \* sessions whose hash a client may have seen
    call,       \* what each thread of the server is doing
    cleaner,    \* what the thread of the context is doing, and the sessions it removed
    running,    \* _running
    owner,      \* the destructor of the context
    raced,      \* sessions that answered a turn of the cleaner in two ways
    left,       \* sessions whose entry was made, or kept by a restart, when they had left the list
    boots       \* restarts so far

vars == <<now, sessions, last, entries, closed, rows, named, call, cleaner, running, owner,
          raced, left, boots>>

----------------------------------------------------------------------------
Nobody == "nobody"

Row == {"none", "open", "closed"}

Place == {"idle", "push", "enter", "insert", "touch", "func", "erase", "close", "update",
          "delete"}

Request == {"none", "login", "use", "logout", "drop"}

Call == [pc : Place, op : Request, session : Session \cup {Nobody}]

Cleaner == [pc : {"start", "check", "filter", "remove", "close", "update", "ended"},
            removed : SUBSET Session, session : Session \cup {Nobody}]

Idle == [pc |-> "idle", op |-> "none", session |-> Nobody]

Starting == [pc |-> "start", removed |-> {}, session |-> Nobody]

Goto(t, pc) == call' = [call EXCEPT ![t].pc = pc]

Return(t) == call' = [call EXCEPT ![t] = Idle]

Begin(t, pc, op, s) ==
    /\ owner = "up" /\ call[t] = Idle
    /\ call' = [call EXCEPT ![t] = [pc |-> pc, op |-> op, session |-> s]]

\* _mu of the list, which the cleaner holds between its two passes.
Locked == cleaner.pc = "remove"

\* Session::Status.
Expired(s) == now - last[s] > Lifetime

Content(s) == IF s \in closed THEN "closed" ELSE "open"

\* make_session: a random hash, which nobody has yet.
Fresh(s) == s \notin named /\ \A t \in Thread : call[t].session # s

----------------------------------------------------------------------------
(* Requests.                                                               *)

\* Login: the name and the password were right, make_session.
Login(t, s) ==
    /\ Fresh(s)
    /\ last' = [last EXCEPT ![s] = now]
    /\ Begin(t, "push", "login", s)
    /\ UNCHANGED <<now, sessions, entries, closed, rows, named, cleaner, running, owner, raced, left, boots>>

\* AddSession, the part under the mutex of the list.
Push(t) ==
    /\ call[t].pc = "push" /\ ~ Locked
    /\ sessions' = sessions \cup {call[t].session}
    /\ Goto(t, "enter")
    /\ UNCHANGED <<now, last, entries, closed, rows, named, cleaner, running, owner, raced, left, boots>>

\* AddSession, the entry in the model.
Enter(t) ==
    /\ call[t].pc = "enter"
    /\ LET s == call[t].session IN
       /\ entries' = entries \cup {s}
       /\ named' = named \cup {s}
       /\ left' = IF s \in sessions THEN left ELSE left \cup {s}
    /\ Goto(t, "insert")
    /\ UNCHANGED <<now, sessions, last, closed, rows, cleaner, running, owner, raced, boots>>

\* FindSession, by a hash that a client may know.
FindSession(s) == s \in named /\ s \in sessions /\ ~ Locked

\* SessionChecker finds the session, expired or not.
Check(t, s, op) ==
    /\ FindSession(s)
    /\ op \in {"use", "logout"}
    /\ Begin(t, "touch", op, s)
    /\ UNCHANGED <<now, sessions, last, entries, closed, rows, named, cleaner, running, owner, raced, left, boots>>

\* Seeded fault: the session is touched for the second to come.
TouchAhead(t) ==
    /\ call[t].pc = "touch"
    /\ last' = [last EXCEPT ![call[t].session] = now + 1]
    /\ Goto(t, "func")
    /\ UNCHANGED <<now, sessions, entries, closed, rows, named, cleaner, running, owner, raced, left, boots>>

Touch(t) ==
    /\ call[t].pc = "touch"
    /\ last' = [last EXCEPT ![call[t].session] = now]
    /\ Goto(t, "func")
    /\ UNCHANGED <<now, sessions, entries, closed, rows, named, cleaner, running, owner, raced, left, boots>>

\* The handler of a request that has nothing to do with the sessions.
Use(t) ==
    /\ call[t].pc = "func" /\ call[t].op = "use"
    /\ Return(t)
    /\ UNCHANGED <<now, sessions, last, entries, closed, rows, named, cleaner, running, owner, raced, left, boots>>

\* The handler Logout calls RemoveSession.
Logout(t) ==
    /\ call[t].pc = "func" /\ call[t].op = "logout"
    /\ Goto(t, "erase")
    /\ UNCHANGED <<now, sessions, last, entries, closed, rows, named, cleaner, running, owner, raced, left, boots>>

\* Seeded fault: a logout leaves the session in the list.
EraseNothing(t) ==
    /\ call[t].pc = "erase" /\ ~ Locked
    /\ Goto(t, "close")
    /\ UNCHANGED <<now, sessions, last, entries, closed, rows, named, cleaner, running, owner, raced, left, boots>>

\* RemoveSession, the part under the mutex of the list.
Erase(t) ==
    /\ call[t].pc = "erase" /\ ~ Locked
    /\ sessions' = sessions \ {call[t].session}
    /\ Goto(t, "close")
    /\ UNCHANGED <<now, last, entries, closed, rows, named, cleaner, running, owner, raced, left, boots>>

\* The entry that RemoveSession and the cleaner look for.
FindSessionByHash(s) == s \in entries

\* Change, of an entry that is there: it gets its destruction time.
Change(s) == closed' = closed \cup {s}

\* Seeded fault: a closed entry is not signalled.
CloseSilently(t) ==
    /\ call[t].pc = "close"
    /\ \/ FindSessionByHash(call[t].session) /\ Change(call[t].session)
       \/ ~ FindSessionByHash(call[t].session) /\ UNCHANGED closed
    /\ Return(t)
    /\ UNCHANGED <<now, sessions, last, entries, rows, named, cleaner, running, owner, raced, left, boots>>

\* RemoveSession, the entry in the model, without the mutex of the list.
Close(t) ==
    /\ call[t].pc = "close"
    /\ LET s == call[t].session IN
       \/ FindSessionByHash(s) /\ Change(s) /\ Goto(t, "update")
       \/ ~ FindSessionByHash(s) /\ Return(t) /\ UNCHANGED closed
    /\ UNCHANGED <<now, sessions, last, entries, rows, named, cleaner, running, owner, raced, left, boots>>

\* /model/sessions/remove takes the entry out of the model, the session being used or not.
Drop(t, s) ==
    /\ s \in entries
    /\ entries' = entries \ {s}
    /\ Begin(t, "delete", "drop", s)
    /\ UNCHANGED <<now, sessions, last, closed, rows, named, cleaner, running, owner, raced, left, boots>>

----------------------------------------------------------------------------
(* The table, one statement for each signal.                               *)

\* Seeded fault: the INSERT takes the session as it was when it was begun.
InsertOpen(t) ==
    /\ call[t].pc = "insert"
    /\ rows' = [rows EXCEPT ![call[t].session] = "open"]
    /\ Return(t)
    /\ UNCHANGED <<now, sessions, last, entries, closed, named, cleaner, running, owner, raced, left, boots>>

\* The statement is put together from the entry as it is when the signal is delivered.
Insert(t) ==
    /\ call[t].pc = "insert"
    /\ rows' = [rows EXCEPT ![call[t].session] = Content(call[t].session)]
    /\ Return(t)
    /\ UNCHANGED <<now, sessions, last, entries, closed, named, cleaner, running, owner, raced, left, boots>>

\* An UPDATE finds no row that was not inserted or is deleted.
Updated(s) == [rows EXCEPT ![s] = IF @ = "none" THEN @ ELSE Content(s)]

Update(t) ==
    /\ call[t].pc = "update"
    /\ rows' = Updated(call[t].session)
    /\ Return(t)
    /\ UNCHANGED <<now, sessions, last, entries, closed, named, cleaner, running, owner, raced, left, boots>>

Delete(t) ==
    /\ call[t].pc = "delete"
    /\ rows' = [rows EXCEPT ![call[t].session] = "none"]
    /\ Return(t)
    /\ UNCHANGED <<now, sessions, last, entries, closed, named, cleaner, running, owner, raced, left, boots>>

----------------------------------------------------------------------------
(* UpdateSessions, the thread of the context.                              *)

CleanerGoto(pc) == cleaner' = [cleaner EXCEPT !.pc = pc]

Cleaning(pc) == cleaner.pc = pc

Start ==
    /\ Cleaning("start")
    /\ running' = TRUE
    /\ CleanerGoto("check")
    /\ UNCHANGED <<now, sessions, last, entries, closed, rows, named, call, owner, raced, left, boots>>

\* Seeded fault: the thread does not look at _running.
WakeAlways ==
    /\ Cleaning("check")
    /\ CleanerGoto("filter")
    /\ UNCHANGED <<now, sessions, last, entries, closed, rows, named, call, running, owner, raced, left, boots>>

\* while (_running), at the end of a sleep of a second.
Wake ==
    /\ Cleaning("check")
    /\ CleanerGoto(IF running THEN "filter" ELSE "ended")
    /\ UNCHANGED <<now, sessions, last, entries, closed, rows, named, call, running, owner, raced, left, boots>>

\* The mutex is taken; the first pass copies the sessions that ran out.
Filter ==
    /\ Cleaning("filter")
    /\ cleaner' = [cleaner EXCEPT !.pc = "remove", !.removed = {s \in sessions : Expired(s)}]
    /\ UNCHANGED <<now, sessions, last, entries, closed, rows, named, call, running, owner, raced, left, boots>>

\* Seeded fault: the second pass is missing.
RemoveNothing ==
    /\ Cleaning("remove")
    /\ CleanerGoto("close")
    /\ UNCHANGED <<now, sessions, last, entries, closed, rows, named, call, running, owner, raced, left, boots>>

\* The second pass asks every session again and takes it out of the list.
Remove ==
    /\ Cleaning("remove")
    /\ LET expired == {s \in sessions : Expired(s)} IN
       /\ sessions' = sessions \ expired
       /\ raced' = raced \cup (expired \ cleaner.removed) \cup (cleaner.removed \ expired)
    /\ CleanerGoto("close")
    /\ UNCHANGED <<now, last, entries, closed, rows, named, call, running, owner, left, boots>>

CleanerTook(s, pc) == cleaner' = [pc |-> pc, removed |-> cleaner.removed \ {s}, session |-> s]

\* The copies get their destruction time, one after the other.
CleanerClose(s) ==
    /\ Cleaning("close")
    /\ s \in cleaner.removed
    /\ \/ FindSessionByHash(s) /\ Change(s) /\ CleanerTook(s, "update")
       \/ ~ FindSessionByHash(s) /\ CleanerTook(s, "close") /\ UNCHANGED closed
    /\ UNCHANGED <<now, sessions, last, entries, rows, named, call, running, owner, raced, left, boots>>

CleanerUpdate ==
    /\ Cleaning("update")
    /\ rows' = Updated(cleaner.session)
    /\ CleanerGoto("close")
    /\ UNCHANGED <<now, sessions, last, entries, closed, named, call, running, owner, raced, left, boots>>

\* Seeded fault: a turn ends after its first session.
SleepEarly ==
    /\ Cleaning("close")
    /\ cleaner' = [pc |-> "check", removed |-> {}, session |-> Nobody]
    /\ UNCHANGED <<now, sessions, last, entries, closed, rows, named, call, running, owner, raced, left, boots>>

Sleep ==
    /\ Cleaning("close") /\ cleaner.removed = {}
    /\ cleaner' = [pc |-> "check", removed |-> {}, session |-> Nobody]
    /\ UNCHANGED <<now, sessions, last, entries, closed, rows, named, call, running, owner, raced, left, boots>>

----------------------------------------------------------------------------
(* The end of the context, and of the process.                             *)

\* The destructor of a context that nobody uses any more.
Stop ==
    /\ owner = "up"
    /\ \A t \in Thread : call[t] = Idle
    /\ running' = FALSE
    /\ owner' = "joining"
    /\ UNCHANGED <<now, sessions, last, entries, closed, rows, named, call, cleaner, raced, left, boots>>

Join ==
    /\ owner = "joining" /\ Cleaning("ended")
    /\ owner' = "gone"
    /\ UNCHANGED <<now, sessions, last, entries, closed, rows, named, call, cleaner, running, raced, left, boots>>

\* The process ends anyhow and comes up with an empty list and the entries of the table.
Restart ==
    /\ boots < MaxBoots
    /\ boots' = boots + 1
    /\ sessions' = {}
    /\ entries' = {s \in Session : rows[s] # "none"}
    /\ closed' = {s \in Session : rows[s] = "closed"}
    /\ named' = named \cup {s \in Session : \E t \in Thread : call[t].session = s}
    /\ call' = [t \in Thread |-> Idle]
    /\ cleaner' = Starting
    /\ running' = FALSE /\ owner' = "up"
    /\ left' = left \cup {s \in Session : rows[s] = "open"}
    /\ UNCHANGED <<now, last, rows, raced>>

Tick ==
    /\ now < MaxTime
    /\ now' = now + 1
    /\ UNCHANGED <<sessions, last, entries, closed, rows, named, call, cleaner, running, owner, raced, left, boots>>

----------------------------------------------------------------------------
Init ==
    /\ now = 0
    /\ sessions = {} /\ entries = {} /\ closed = {} /\ named = {} /\ raced = {} /\ left = {}
    /\ last = [s \in Session |-> 0]
    /\ rows = [s \in Session |-> "none"]
    /\ call = [t \in Thread |-> Idle]
    /\ cleaner = Starting
    /\ running = FALSE /\ owner = "up"
    /\ boots = 0

Step(t) ==
    \/ Push(t) \/ Enter(t) \/ Insert(t)
    \/ Touch(t) \/ Use(t) \/ Logout(t) \/ Erase(t) \/ Close(t) \/ Update(t) \/ Delete(t)

Ask(t, s) ==
    \/ Login(t, s) \/ Drop(t, s)
    \/ \E op \in {"use", "logout"} : Check(t, s, op)

Clean ==
    \/ Start \/ Wake \/ Filter \/ Remove \/ CleanerUpdate \/ Sleep
    \/ \E s \in Session : CleanerClose(s)

Next ==
    \/ \E t \in Thread : Step(t)
    \/ \E t \in Thread, s \in Session : Ask(t, s)
    \/ Clean
    \/ Stop \/ Join \/ Restart \/ Tick

Spec == Init /\ [][Next]_vars

\* Threads are scheduled, and a thread that waits for the mutex gets it, since the cleaner sleeps for
\* a second without it; clients, the clock and the destructor do as they please.
FairSpec == Spec /\ WF_vars(Clean) /\ WF_vars(Join) /\ \A t \in Thread : SF_vars(Step(t))

----------------------------------------------------------------------------
(* Properties.                                                             *)

TypeOK ==
    /\ now \in 0 .. MaxTime
    /\ {sessions, entries, closed, named, raced, left} \subseteq SUBSET Session
    /\ last \in [Session -> 0 .. MaxTime]
    /\ rows \in [Session -> Row]
    /\ call \in [Thread -> Call]
    /\ cleaner \in Cleaner
    /\ running \in BOOLEAN
    /\ owner \in {"up", "joining", "gone"}
    /\ boots \in 0 .. MaxBoots

\* Somebody has taken the session out of the list and not yet closed its entry.
Held(s) ==
    \/ s \in cleaner.removed
    \/ \E t \in Thread : call[t].pc = "close" /\ call[t].session = s

\* The entry of a session that cannot be used any more is closed: the clock running on between
\* the two passes of a turn, a login that takes longer than the session lives, and a restart are
\* the only ways to leave one open.
OpenEntriesAreUsable ==
    \A s \in entries \ closed : s \in sessions \/ Held(s) \/ s \in raced \/ s \in left

\* A closed session cannot be used, unless it was used between the two passes of a turn.
ClosedSessionsAreOut == closed \cap sessions \subseteq raced

\* A signal about the session is under way.
UnderWay(s) ==
    \/ cleaner.pc = "update" /\ cleaner.session = s
    \/ \E t \in Thread : call[t].pc \in {"insert", "update", "delete"} /\ call[t].session = s

\* The row of an entry says the same as the entry, though its UPDATE may overtake its INSERT.
RowsFollowEntries ==
    \A s \in entries : rows[s] = Content(s) \/ UnderWay(s)

\* A session that ran out is taken out of the list, unless it is used or the context destroyed before that.
ExpiryIsNoticed ==
    \A s \in Session : (s \in sessions /\ Expired(s)) ~> (s \notin sessions \/ ~ Expired(s) \/ owner # "up")

\* A logout is written to the table, unless the entry is removed or the process ends before.
LogoutIsRecorded ==
    \A s \in Session : \A b \in 0 .. MaxBoots :
        (boots = b /\ \E t \in Thread : call[t].op = "logout" /\ call[t].session = s)
            ~> (rows[s] = "closed" \/ s \notin entries \/ boots # b)

\* A destructor that the thread has heard of ends: one that comes before the thread has begun
\* is overridden by it, and waits for ever.
StopIsHeard ==
    (owner = "joining" /\ ~ running /\ cleaner.pc # "start") ~> (owner # "joining")
=============================================================================
