# TLA+ models of CameraManagerCore

CameraManagerCore is a server for PTZ cameras: HTTP and WebSocket clients drive cameras, file
*events* that a camera acts on one at a time, and edit a model of cameras, users, permissions and
sessions that is mirrored into an SQLite database. This directory holds TLA+ models of the parts
of it that keep state and are shared by threads, the TLC configurations that check them, and proofs
that TLAPS checks.

Paths below are relative to `src/source/` unless they start with `src/`.

## 1. Inventory

`src/main.cpp` creates the contexts in this order: the database adapter, `ModelContext`,
`EventContext` (with the rows of the event table as its archive), one camera pool of a single
worker with a queue of 1024, `CamerasContext`, the camera loop (its own thread, every second),
`SessionContextAsync` (its own thread, every second), `DBSubscriber`, `EventSubscriber`, and then
an HTTP server and three WebSocket servers of two threads each. All of them meet in the contexts,
so everything below is called from several threads.

| component | state | operations | interacts with | hard because | correct when |
|---|---|---|---|---|---|
| `events/EventContext.hpp` | map of hash to (Event, SML machine); status = two flags of the Event | Create, Change (Acknowledged, Processed, HasVideo), RemoveEvent, FindEvent, GetEvents, GetStatus, archive getters | emits the Event signal after its unlock | everything in Change after the search runs without the lock, on references into the map | a change is never lost to the table; marks are true |
| `events/EventSubscriber.hpp` | none of its own | on Added / Changed: choose an event of the camera, run its action on the pool, mark it Processed | reads EventContext, posts to the pool, changes EventContext from within the handler | nested signal, snapshot read and used later, failing cameras | one active event per camera, oldest first, nobody left waiting |
| `database/subscriber/DBSubscriber.hpp`, `database/statements` | the tables | one INSERT, UPDATE or DELETE per signal | subscribed to every entity type | runs in the order of delivery, not of change | tables converge to memory |
| `database/adapters/SqliteAdapter.hpp` | current command, bound blobs | `<<` a statement, parameters | called by the signals of all types | one command object, no lock: two types may be answered at once | a statement is executed as its thread wrote it |
| `signals/SignalContext.hpp` | a generator and a list of subscribers per type | Add/Remove generator, Add/Remove subscriber, ProcessAllSubscribers | every context emits, every subscriber listens | list copied under a mutex and called outside it; one recursive mutex per generator held during handlers | a signal reaches whoever is subscribed; nested signals do not block |
| `thread_pool/pool/implementation/MpscBoundedQueue.hpp` | ring of (sequence, data), two positions | push, pop | every poster, the workers and the thieves | lock-free | a bounded FIFO that loses and repeats nothing |
| `thread_pool/pool/implementation/{Worker,ThreadPool}.hpp`, `thread_pool/ExecutionWrapper.hpp` | a queue and a thread per worker, a round-robin counter | post, steal, run, stop; `pool \| task \| execute` waits for the result | HTTP handlers, camera loop, EventSubscriber | stealing, stop during work, a full queue, cameras that never answer | a task is neither lost nor run twice; a waiter gets its answer |
| `model/ModelContext.hpp` | vectors of ten entity types, two maps from a user to cameras and permissions | Add, Change, Remove, AddLink, RemoveLink, finders | emits a signal per change after its unlock | maps keyed by mutable content, cascades | links and maps agree; subscribers converge |
| `schemas/http/http_schemas/Cameras.hpp` | none | twenty commands: find the camera, post a task, wait, unwrap the result | ModelContext, pool, CamerasContext | the camera may go between the two searches; an empty result is unwrapped in a noexcept function | a command is answered |
| `cameras/CamerasContext.hpp`, `cameras/processors/LockFrameProcessor.hpp` | map of camera to (interaction, lock frame), hashed by the id | Add, Clear, `\|`, `&`, updater on the Camera signal; Lock, Unlock, IsLocked, which nobody calls | camera loop, HTTP handlers, pool | the id under a key changes | the replica follows the model |
| `cameras/CameraLooper.hpp`, `cameras/processors` | last states per camera, last actions per camera, recorder processes | start, stop, one turn per second | CamerasContext, ModelContext, pool, signals | decisions by copies, marks written later, callbacks of child processes | unattended cameras get their idle action |
| `session/SessionContext.hpp`, `schemas/http/http_schemas/Login.hpp` | list of sessions with the time of last use | AddSession, FindSession, RemoveSession, background expiry | ModelContext | expiry against logout and use; stop of the thread | a session that left the list is closed in its row, and never one in use |
| `schemas/http`, `schemas/ws` | connections | parse, check permission, call a context, broadcast | all contexts | I/O | follow the contexts |
| `iss`, `cameras/interactions`, `utility`, `src/modules/CameraRecorder` | connections, none, none, a child process | protocols and helpers | | I/O | not modelled |

The full list, with the status of each part, is in `PROJECT.json` ("components"); everything that is
hard to test is listed there under "hazards", at its line.

## 2. Plan

In the order of what matters most to the people who use the system. A module that is proved about
declares no `RECURSIVE` operator; constants carry named assumptions; every operation is an action.

| step | modules | question | status |
|---|---|---|---|
| 1 | `EventContext`, `EventPipeline`, abstract `CameraQueue`, `EventQueue`, `EventPipelineProofs`, `EventQueueProofs` | does every event reach its camera once and in order, and the table? | done, the refinement proved |
| 2 | `BoundedQueue`, abstract `BoundedFifo`, `BoundedQueueProofs` | is the lock-free ring of the pool a bounded FIFO? | done, the refinement proved |
| 3 | `ModelContext`, `ModelContextProofs` | are the rights of a user live, and stored? | done for users, targets and links |
| 4 | `Cameras` (the HTTP commands, the worker, CamerasContext, the id that changes the hash of a key), `CamerasProofs` | is every command answered; do the replica, the records and the table follow the model? | done; locks have no caller and are left out |
| 5 | `IdleActions` (IdleActionProcessor, CameraLooper) over `Cameras`, its proofs in `CamerasProofs` | does an unattended camera go to its idle position, and only then? | done |
| 6 | `Sessions` (SessionContextAsync with login, logout and the session checker), `SessionsProofs` | is a session that was left out of the list closed in its row, and never one in use? | done |
| 7 | `Database` (SqliteAdapter and the statements, two signals at a time), `DatabaseProofs` | is each statement executed as it was written; do the tables mirror the model? | done for objects with an id, the mirror proved |
| 8 | `ThreadPool` over the queues of step 2 (workers, stealing, stop, packaged tasks), `ThreadPoolProofs` | does every waiter get its answer; is a task ever lost or run twice? | done |
| 9 | proofs of the refinement `ImplementsCameraQueue`, of the mirror of `Database` and of `RefusalsAreTrue` | do the last safety properties hold for every instance? | done |
| 10 | relations between the modules that are only described here: `ThreadPool` over `BoundedFifo`, `IdleActions` over `Cameras` with the pool of `ThreadPool` | do the parts fit together as the models of each assume? | open |

## 3. The modules

### 3.1 Events

`EventContext` holds the state of `events/EventContext.hpp`: the keys of `_events`, the Boost.SML
machine stored beside each, the flags of the shared `Event` (a status is read off two of them, the
machine is never asked), the creation time. `Create` and `RemoveEvent` are single lock regions.
`Change` is not: it takes the lock for the search and runs on with a reference, and neither the machine
nor the flags are guarded by anything, so it is one action per access to shared data:

| action | code | shared data |
|---|---|---|
| `BeginAck`, `BeginHasVideo` | `FindEvent` in the handler or in the recorder's reader | container |
| `LookUp` | search under the lock | container |
| `CheckStatus` | the guard of the case (`GetStatus`) | flags |
| `Dispatch` | `process_event` reads the current state of the machine | machine |
| `Move` | it writes the new state, whatever became of the one it read | machine |
| `Mark` | the action of the transition writes a log line and then the flag (`EventContext.hpp:56-71`) | flags |
| `Complete` | it looks for an anonymous transition (`ack -> X`) until there is none | machine |
| `Finish` | the anonymous transition writes its state | machine |
| `Confirm` | `is(...)` of the target state decides whether a signal is sent | machine |
| `SetHasVideo` | the case without guard and machine | flags |

A node that another thread erased keeps its bytes or becomes junk ("freed"): both are explored.
The time of an event is stamped from a clock that stops at `MaxClock`.

`EventPipeline` adds the Event signal and its two subscribers in the order `main.cpp` registers
them. `Deliver` takes the recursive mutex of the generator and lets `DBSubscriber` write the row
(INSERT, UPDATE or DELETE from the flags of that moment, since the signal carries the pointer).
`Snapshot` and `Choose` are `EventSubscriber::ProcessEvent`: copy the events of the camera under the
lock, read their statuses later, pick the new event if it is the only busy one or, after an
acknowledgement, an earliest waiting one. `RunAction` is the blocking execution on the pool; on
success the handler calls `Change(Processed)`, whose signal is delivered inside the first one.
`Restart` may happen between any two steps and loads the rows as the archive. `MaxRuns` bounds how often
the action of one event succeeds.

Two races in this code lose an update of the table, and `RowsConverge` names them. `crossed` is a
history variable that holds the events they hit. A processing and an acknowledgement of one event
*cross* when one of them finds the machine in a state it leaves while the other has not yet written the
machine or set its flag: then the acknowledgement may set its flag after the other thread has written
the row, find no state it can complete, fail the test at `:299` and send no signal. And a removal
overtakes a creation when it comes before the Added signal was delivered: the INSERT leaves a row of an
event that is gone. For everything else (two acknowledgements, two handlers that run one event, video
reports, a change whose last test comes late, a removal in the middle of a change) the property says
that the table gets what the context has: a difference means that a thread is *certain* to deliver
(`WillDeliver`), by the state the machine is in, not that some thread is still somewhere in `Change`.

`ArchiveIsInert` is about every step: no call under way, and no further start, moves the machine of what
was loaded, acknowledges it, marks it processed or runs its action; only a video may be reported of it.
Its mutant lets the transition table acknowledge what is archived.

`CameraQueue` is the promise: per camera, one active event, oldest first, each event moving one way.
`EventQueue` restricts the requests to what the test "Add test" of `src/test/SubscribersTest.cpp`
does (one client per camera works its queue from the oldest) and shows by the refinement
`ImplementsCameraQueue` that the pipeline keeps the promise under that discipline; the runs with an
expected violation show what happens outside it.

Abstracted: the flags of all events of a snapshot are read in one step; the archive and paging
getters change nothing and are left out; nothing tears or reorders the accesses to one machine or flag,
which are data races in the code; `on_acknowledge_action` is stored by the code and never
executed; the statements of one signal are atomic (module `Database` drops this for the types with
an id); the WebSocket servers, which subscribe too, only broadcast.

### 3.2 The queue of the pool

`BoundedQueue` is `MPMCBoundedQueue`: the sequence number and data of each cell and two positions.
Every action is one access to shared memory: `LoadPosition`, `ReadSequence` (its three branches),
`Claim` and `MissClaim` (`compare_exchange_weak`, which may fail without a reason), `MoveData`,
`StoreSequence`. `BoundedFifo` is the bounded FIFO of the tasks claimed at the exchange;
`ImplementsFifo` maps the tasks between the two positions to its queue and the tasks in the hands of
a popping thread to `held`. Abstracted: memory is sequentially consistent (the acquire and release
pairs of the code order the data of a cell, and the x86 build adds no more); positions do not wrap
(2^63 operations); the move of the whole queue object, which nobody calls while threads use it.

### 3.3 Users, targets and links

`ModelContext` is `model/ModelContext.hpp` with its HTTP handlers and the tables behind it. A
*target* is a camera or a permission: `_ImplAddLink`, `_ImplRemoveLink` and `_ImplFillData` are one
template for both. A handler looks objects up (`BeginRemove`, `BeginLink`, `BeginUnlink`), runs one
region of the mutex (`Add`, `Remove`, `AddLink` with `Fill`, `RemoveLink`) and then has its signal
answered: `Enter` takes the lock of the signal of its type, `Execute` is the statement and `Fail` one
that is logged and forgotten. Signals of different threads overtake each other. `repr` counts how often
a target is in the entry of a user, `keyed` says whose entry can be found, `numbered` which objects have
the id that only their INSERT fills in. `Restart` rebuilds everything from the tables
(`FillRepresentations`). `Remove` takes the links of the object and its entries with it, without signals
for them.

The finders take any number, so the id 0 names the object whose INSERT is under way. `IdOf` is the id an
object has now; links are stored by the ids their ends had (`Ids`, with `Zero`), and `Named` is what such
a pair names. An object may be removed by 0 (its DELETE then finds no row and the INSERT leaves one), a
link may be made with 0 (stored for nobody), and the entry of a user, which is hashed by its id, is lost
when the id arrives. `AddLink` reads the ids, and looks them up again in `_ImplFillData`; the INSERT does
not take the mutex of the context, so an id may arrive between the two: `Fill` is a step of its own, and
the link may be one of the new object, or nothing is found. While a thread is there no other operation
enters the context (`Free`).

Three history variables name what the mirror is lost by: `early` (links made and objects deleted under
id 0), `lost` (what a failed statement was about) and `mixed` (statements of two types in the adapter at
once, where they may be exchanged: module `Database` and the run `statements_mix`). `Next` follows the
process up to the first `mixed` state. `MaxLost` bounds the size of `lost`, `MaxBoots` the restarts. The
properties hold beside what is named: the damage of an id 0 or a failed statement stays with the object
or link it was about.

Abstracted: entities without links (settings, actions, archive settings) take the same `_ImplAdd`
and `_ImplRemove` and are in `Database`; `Change` over HTTP carries an object of id 0 and so never
passes its first test; ids are never reused (external: the tables use AUTOINCREMENT); foreign keys
are off unless a connection switches them on (external: SQLite). A thread that reads an id while it is
being written reads the old or the new one.

### 3.4 Commands to cameras

`Cameras` follows a command through the system. A handler of `Cameras.hpp` (one action each,
`RelativeMoveSc` to `StopMulticastSc`) finds the camera in the model and calls the pool (`Post`); the
single worker takes the task (`Take`), finds the camera in the replica (`Find`), performs the command
(`Interact`), records a move through the CameraAction signal (`Record`), and the handler unwraps the
result (`Answer`). `AddCamera`, `BeginRemove` and `RemoveCamera` edit the model, and the Camera
signal reaches its three subscribers one by one: `ToReplica` (CamerasContext), `ToRecords`
(IdleActionProcessor) and `ToTable` (DBSubscriber, whose INSERT fills in the id). The loop takes part
as a poster: `LoopPost`, `LoopMark`.

`devices` and `known` are hash maps whose keys keep the hash of the moment they were filed, so a key
is a camera and its filing: `byZero` before the INSERT, `byId` after it or from the table. `KeyOf` is
the key a search computes now; a removal looks for the id one key after another and so finds both.
Three things end the process (`down`): an empty result unwrapped in a noexcept function, and a record
of a move for which no frame is found (`end()` dereferenced, a null node: the signal handler of
`main.cpp` exits), and a turn of the loop (`LoopFail`, of which `IdleActions` says when). It is started again by `Restart`, as it is after any other crash.

Abstracted: what a camera answers (success, failure, exception) is one result, since the handler
answers all of them; `AddPresetSc` and `ChangePresetSc` post two tasks, one after the other, and are
modelled by one of them, since the second is a command of its own to the same camera; requests name the id of a row (never 0); cameras are of the two kinds that
CamerasContext knows; the other posters of the pool (EventSubscriber, CameraStatusProcessor) add
tasks that touch nothing here. A camera cannot be changed: the HTTP handler passes ModelContext an
object of id 0, which it refuses, so the Changed branches of the updaters are never reached.

### 3.5 Idle actions

`IdleActions` extends `Cameras` by the frames of IdleActionProcessor: `frame` (in_idle and the last
action of each key) and `copies` (what is left of the copy of this turn). It conjoins to each step of
`Cameras` what it does to them: `UpdateFrames` to `ToRecords`, `RecordMove` to `Record`, `Send` to
`LoopPost`, `Mark` to `LoopMark`, `Dereference` to `LoopFail`; `Copy` and `Skip` are the rest of `operator()`. Time is abstracted
to what the comparison with `idle_timeout_sec` tells apart: `Age` makes a `fresh` last action
`stale`; a copy that is behind its frame is `older` until `AgeCopy`, since it may be overdue while
the frame is not. The last element of an empty buffer is unwritten memory (`unused`): the decision may go
either way. A frame that `[]` made has a buffer without room (`never`): its last element is at a null
address, and the next turn that looks at it while it is not idle ends the process (`Dereference`).
Only cameras that were added or removed since the start can have such a frame (`NeverIsEdited`).

Abstracted: an idle action that cannot be parsed, which the loop skips; CameraInIdle signals, which
only broadcast; the other processors of a turn.

### 3.6 Sessions

`Sessions` is `SessionContextAsync` with the entries of ModelContext and the rows behind it. A login
lists a session under the mutex of the list (`Push`), gives it an entry in the model (`Enter`) and a
row (`Insert`); the checker of a request finds it (`Check`), touches it (`Touch`) and lets the handler
run (`Use`, or `Logout`, which takes it out of the list and closes the entry: `Erase`, `Close`,
`Update`); `Drop` and `Delete` are `/model/sessions/remove`. The thread of the context (`Start`,
`Wake`, `Filter`, `Remove`, `CleanerClose`, `CleanerUpdate`, `Sleep`) asks every session twice whether
it ran out, once to copy it and once to remove it; the clock (`Tick`) and `Touch` respect no mutex,
so it may get two answers: `raced` holds the sessions for which it did. `Stop` and `Join` are the
destructor; it waits for ever when the thread sets `_running` after it (`StopIsHeard` says that
nothing else can make it wait). `Restart` comes up with an empty list and the entries of the table.

Abstracted: a hash is a model value, since a random hash is new; the lazy policy, which nothing
instantiates; entries added or changed by hand through `/model/sessions`; the destruction time itself
(see the hazard at `SqliteSessionsStatements.hpp:65`).

### 3.7 The tables and the adapter

`Database` follows a signal of one of the six types with an id through `DBSubscriber` and
`SqliteAdapter`. `AddCamera` to `RemoveEventArchiveSettings` are the HTTP handlers; the answer to the
signal is one step per operation of the adapter: `Write` (`<<` of the statement into
`_current_command`), `Bind` (`<<` of a blob), `Prepare` and `Clear` (`>>`), and `Execute` or `Extract`
(the engine). An INSERT is followed by the SELECT that reads the id back from a row that looks like
the object. Signals of one type come one after the other (`MayAnswer`), those of two types interleave
in the adapter. `kind` gives the objects of an instance their types, which differ in whether a blob is
bound (settings; `Found` of a SELECT with an empty blob is empty, because it compares with NULL) and
whether ids are reused (archive settings: no AUTOINCREMENT). `overlapped` and `muddled` record what can
cost the mirror its truth; the properties show that nothing else can.

Abstracted: the columns of a row are one value (`body`); two threads writing the same `std::string`
at once, which is undefined, leave a statement that is one of theirs or one the engine refuses; an
UPDATE is never asked for over HTTP, because ModelContext refuses the object of id 0 that the handlers
give it; links, sessions and events have no id to read back and are in their own modules.

### 3.8 Workers and those who wait for them

`ThreadPool` is `pool | task | execute`: a thread chooses a worker by turn (`GetWorker`), posts a
packaged task (`Push`) and waits for its future (`Get`). A worker looks at its flag (`Check`), takes
from its own queue (`Pop`), else from that of the next worker (`Steal`), and executes (`Run`). A task
in `Hung` never returns, like a command to a camera that holds its connection. `Stop` and `Join` are
the destructor, one worker after the other. `post` asserts that the queue took the task, and the build
(`src/CMakeLists.txt`) keeps assertions, so a full queue ends the process (`owner` is "aborted").

Abstracted: the queues are FIFOs, which section 3.2 shows of the ring; a worker sees whether a queue
is empty in one step, though a ring whose head is being stored looks empty for a moment, after which
the worker comes back; `getWorker` for a thread of the pool, since no task posts another.

## 4. What is checked

| run | instance | shows |
|---|---|---|
| `event_pipeline` | 2 threads, 2 events, 1 camera, camera failures, 1 restart; any requests; 1.9 million states | the table converges to memory but for the two races that are named, marks are true, the archive is inert |
| `camera_queue` | 2 threads, 3 events in one queue, failures, 1 restart | refinement of `CameraQueue`; oldest first |
| `two_cameras` | 2 clients, 2 cameras that obey, 3 events | the same with a busy neighbour; no action runs twice; every event is processed, every request returns |
| `bounded_queue` | 2 producers, 2 consumers, 3 tasks, ring of 2 | refinement of `BoundedFifo`, exclusive cells, truthful refusals, every operation returns |
| `model_links` | 2 threads, 2 users, 1 target, ids and 0, 1 failing statement, 1 restart; 1.3 million states | rights in effect name live objects and are stored, rows converge, but for what an id 0 or a failed statement loses |
| `idle_actions` | 2 HTTP threads, the loop and the worker, 1 camera that may refuse, 1 restart; any requests | replica, records and table follow the model; only edited cameras are fatal; one task per waiter, one frame per camera; every request returns; an unattended camera is sent home |
| `sessions` | 2 HTTP threads, the cleaner, 1 session, 3 seconds, 1 restart, the destructor at any time | list, entry and row agree but for the races that are named; what ran out is noticed; a logout reaches the table; the destructor ends once the thread has begun |
| `database` | 2 threads, three mixes of two types of objects, 2 contents | objects and rows mirror each other, ids tell objects apart, but for what is named: overlapping statements, complaints, repeated contents, removals before the id |
| `thread_pool` | 3 workers with queues of 1, 4 tasks of which 2 hang, the destructor | a waiting task is in one place; a thread is answered unless both workers that serve its queue hang or a full queue ends the process; the destructor ends |

Runs that end in a counterexample, each with its finding in `PROJECT.json`:

| run | property | what the code does |
|---|---|---|
| `executed_twice` | `ExecutedAtMostOnce` | an event created during an acknowledgement is run by both signals |
| `added_camera` (`MCIdleActions`) | `CommandsAreAnswered` | the replica does not find a camera added since the start; the process ends |
| `statements_mix` | `SuccessfulAddsAreStored` | a user and a camera added at once share the command of the adapter: one is logged as added and not stored |

More departures were met while modelling and have no run of their own:

- two simultaneous acknowledgements of one event both pass the guard (`EventContext.hpp:305`); a
  processing and an acknowledgement may cross, and the flag of the second misses the table (`:299`);
  Removed may overtake Added and leave a row of an event that no longer exists (`:336`);
- any request may name the object whose id is still 0 (`Model.hpp:333`, `:694`, `:800`): the link is
  stored for nobody, the removal deletes no row, and a right given before the id of its user arrives is
  in an entry that is not found again (`ContextMisc.hpp:28`);
- a late HasVideo of an acknowledged event starts the next one of its camera beside the active one
  (`EventSubscriber.hpp:86`);
- `RemoveLink` never erases the link from its vector (`ModelContext.hpp:577`), though it logs that it
  did (`:588`): the link cannot be given again before the next start;
- the rows of links outlive their ends, because nothing switches SQLite's foreign keys on
  (`SqliteUserCamerasStatement.hpp:40`);
- the loop marks a camera idle that was moved since the copy (`IdleActionProcessor.hpp:162`);
- the destructor of the session context, run before its thread has begun, is overridden and waits for
  ever (`SessionContext.hpp:216-218`);
- a post to a full queue ends the process at an assertion (`ThreadPool.hpp:156`), where `:69` documents
  `std::overflow_error`;
- a frame that the loop makes for a removed camera has a buffer without room, and its next turn
  dereferences a null address (`IdleActionProcessor.hpp:137`, `:162`);
- the SELECT of settings with an empty blob finds nothing, throws and leaves its blob in the adapter,
  and later statements without a place for a blob are refused (`SqliteSettingsStatement.hpp:105`).

The models contain these behaviours; the properties that hold are stated so that
they survive them, and name them.

Every property of a passing run has a mutant in `PROJECT.json`: a definition of the model replaced
by a plausible bug of the code (marked "Seeded fault" in the module), which the run must then refuse.

**Bounds.** Two threads are enough for every pairwise race on one event, since each step of a thread
is explored against each step of the other and a third thread meets the same pairs; three events are
the smallest queue in which the order of two waiting ones matters behind an active one; two cameras
show interference. The ring has two cells, so three tasks start the second lap, two producers and
two consumers meet on one position, and the queue is both full and empty. In
`model_links` two threads let every operation meet every other, the second in the midst of the first;
two users are needed for one that has its id beside one that waits for it, while cameras and permissions
are one template and never meet, so one target does; a third thread only adds to what may be pending (the
theorems hold for any number). In `idle_actions` one thread edits while the other
commands and the loop is a third poster; one camera is enough because cameras share nothing but the
queue of the worker, which serves any task in turn (and the theorems of section 5 hold for any number
of cameras). In `sessions` a session runs out when more than its one second has passed since it was used, so three
seconds let it run out, with a touch in the first second or without, and let it be touched when it has
run out; that it runs out once more after such a touch needs a fourth second, and is left to the
theorems, which hold for any number. Sessions are independent but for the turn of the cleaner, and the safety part was proved for
any number. In `database` two objects of a type meet in the reuse of ids and a third of another type
in the adapter; two threads are enough for every overlap of two statements. Three workers are the
smallest ring of thieves in which a queue may be deserted while another worker is idle; four tasks,
two hung, let a queue of one fill behind a hung worker. One restart is enough because a restart leaves
nothing but the rows. `MaxBoots` bounds the restarts, `MaxTime` the clock of the sessions; `MaxClock` stops
the clock of the events, which advances when an event is stamped: at 0 all events of `event_pipeline` are
of one time, which leaves the choice among them open; the queues have as many times as events. `MaxRuns`
is 2, one more than any action should be run. `MaxLost` is the number of failures between two starts. Symmetry is used
in runs without liveness only. `CHECK_DEADLOCK FALSE` is set because the system may stop: once every
event, task or object of the instance was used and all clients are idle, nothing is left to do.

**Fairness.** `two_cameras` assumes weak fairness of each thread (the operating system runs it;
every step stays enabled once it is, except for the signal mutex, which is requested finitely often
here) and that clients go on acknowledging, as the test does. `bounded_queue` assumes weak fairness
of each thread and strong fairness of `Claim`: a `compare_exchange_weak` does not fail for ever
without a reason. `idle_actions` assumes weak fairness of each HTTP thread, of the worker and of the
loop; the passing of time and the coming of requests are not fair. `sessions` assumes weak fairness of
the cleaner and of the join, and strong fairness of a request that was begun: the cleaner takes the
mutex again and again but sleeps a second without it, in which a thread that waits gets it. It
assumes nothing of the clock, the clients or the destructor. `thread_pool` assumes weak fairness of
each thread that posts or waits, of each worker and of a destructor that was begun. Safety properties
assume nothing.

## 5. What is proved

TLAPS checks the proofs for every number of threads, events, cameras, users, targets, objects,
sessions, tasks, workers, cells and restarts. Each module has one inductive invariant, a lemma or a
step per action that keeps it, and the theorems that follow.

`EventPipelineProofs` assumes `EventAssumption` and `PipelineAssumption` only. Its inductive
invariant is the conjunction of

- `TypeOK`;
- `Fresh`: nobody but its creator knows an event before it is published, so a creation never
  overwrites an event that somebody changes;
- `RemovalIsFinal`: a removal under way is about an event that is gone, so its DELETE never hides a
  live one;
- `MarkerHasExecuted`: whoever is about to mark an event has run its action, which carries
  `MarkedWasExecuted` through the unlocked steps of `Change`;
- `InsertionIsKnown`: the Added signal still to be delivered is about an event of the context, or one
  whose removal overtook it;
- `ChangesAreNamed`: inside `Change` a thread makes one of the two changes the machine knows;
- `ChangesAreApart`, the heart of `RowsConverge`: while the changes of an event do not cross, the state
  of the machine tells who was there: it is not processed before the processing marks it, and never
  `created` or `processed` again once an acknowledgement moved it, so whoever sets a flag finds the
  state for which it will signal;
- `ArchiveIsOutOfReach` (no handler holds an archived event, no change is about to move one) and
  `ArchiveMatchesTable` (the row of an archived event has its flags, so a further start changes
  nothing), which `ArchiveIsInert` needs;
- `MarkedWasExecuted` and `RowsConverge` themselves.

From it follow `TypeCorrect`, `TableConverges`, `MarksAreTrue` and the action property
`ArchiveStaysInert`.

`EventQueueProofs` extends it by what the clients of the test keep to. Its invariant, `QueueInv`, is
stated for one client at a time (`ClientInv`), since the events of a camera are touched by no other
client: so a step of one leaves what is said of the others alone. `TurnsAreKept` carries what a client
found across its unlocks: the event whose action is about to be run, or was run and is about to be
marked, is the earliest unfinished one of its camera and nothing of that camera is active.
`MachinesAgree` says when the state machine and the flags, which `Change` sets one after the other,
tell the same (not between `mark` and `finish` of its own client, `Unsettled`), so that no event is
refused its mark. `RunsAreCounted` follows an action from before
its first run. From it follow `ActionsRunOnce` (`ExecutedAtMostOnce`, which does not hold without the
discipline: see the run `executed_twice`) and the refinement `PipelineRefinesQueues`
(`ImplementsCameraQueue`): each step of the pipeline moves one event along its queue, or none.
A restart is the `Clear` of the queues, after which no event of before is handled any more.

`BoundedQueueProofs` assumes `RingAssumption` (a ring of at least two cells). The numbers in the cells
carry the argument: a thread that owns a cell finds its own number there (`OwnersHaveTheNumber`), two
owners of one cell would need two numbers (`OneOwnerPerPosition`, and arithmetic of laps in `SameCell`),
so the number an operation saw before its exchange is still there if the exchange succeeds
(`ClaimsAreFresh`). `WindowIsBounded`, `WaitingAreFull` and `OthersAreFree` say what every position
between and beyond the two counters holds: so the exchange of a push finds room and that of a pop a
task. `OneOwnerPerCell` (`CellsAreExclusive`) and `ImplementsQueue`, the refinement of `BoundedFifo`
with the mapping that the run uses, follow: each step is a step of the FIFO or a stutter. The action
property `RefusalsAreTrue` (`RefusalsHaveAReason`) follows too: every cell is that of one position of
the present lap (`CellOfThisLap`), and when nobody holds a cell, the number that position has is not
too small for an earlier one unless the ring is full, or empty.

`ThreadPoolProofs` assumes `PoolAssumption`. `WaitingAreSomewhere` speaks of a cardinality; the
invariant says the same by indices: no two places hold one task (`QueuedOnce`, `TakenOnce`,
`QueuedOrTaken`), only tasks that are waited for are held (`QueuedWait`, `TakenWait`), and each of them
is (`NoneIsLost`). Taking a task, by the worker or the thief, is the one step that moves the others.

`ModelContextProofs` assumes `ModelAssumption` only. Its invariant adds to the three properties
`OnlyCreated` (ids are handed out once), `CallsAreTyped`, `FillingIsFresh` (the link that is being added
is not there and its ends are, though an id may arrive in between), `AddIsFirst` (an object waiting for
its id has no row, is inserted by one thread, and is live unless its removal is under way or came under
id 0), `RemoveIsFinal`, `LinkIsNamed` (a link under way is stored by the ids of its rows, or named in
`early`) and `UnlinkIsFinal` (a link whose deletion is under way is not in effect and cannot be given
anew, because RemoveLink leaves it in the container or one of its ends is gone: this is why no late
DELETE erases a right in effect). `RightsAreLive`, `RowsConvergeToObjects`, `RightsSurvive` and
`TypeCorrect` follow, each with the exceptions its property names.

`CamerasProofs` assumes `CamerasAssumption` only. Its invariant adds to the three properties

- `OnlyCreated`, `CallsAreTyped`, `WorkerHasPoster`: who can be where, and that it is about a camera
  that was made;
- `AddIsNew`: a camera whose addition is under way is in the model and was not there at the start, so
  the cameras of the start are filed by their id;
- `RemoveIsFinal`: a camera that is being removed has its id, so its addition is over, and it never
  comes back, so no late deletion hides a live camera;
- `LoadedIsFiled`: a camera of the start that nobody removed is found by its key;
- `EmptyIsEdited`: so whoever was handed an empty result asked for another camera.

`CommandKeeps` and `EditKeeps` say once what commands leave alone of the edits and edits of the
commands. `TypeCorrect`, `ReplicasFollow`, `StartedCamerasAreSafe` and `TasksAreAwaited` follow; the
last bounds the queue of the pool by the number of posters.

The second part of `CamerasProofs` shows that each step of `IdleActions` is a step of `Cameras` or leaves its
variables alone; that the end of the process at a buffer without room is a `LoopFail` of a camera that
was edited is the invariant `NeverIsEdited` (`IdleActionsImplementCameras`), so the theorems above hold for it, and that a camera
of the start that nobody removed has one frame (`OneFrame`): its hash does not change any more, so the
`[]` with which the loop marks it finds the frame in which moves are recorded.

`SessionsProofs` assumes `SessionsAssumption`. Its invariant answers two questions. Who may hold a
session: only the thread that began it before it has an entry (`BeginsAlone`), and nobody lists it
again (`ListedAreKnown`, `HandledAreNamed`, `ClosingIsOut`, `TakenAreOut`). Which rows are still to be
written: `MissingIsInserted`, `DeletedIsGone`. `ClosedAreOut`, `OpenAreUsable` and `RowsFollow` follow.

`DatabaseProofs` assumes `DatabaseAssumption`. `StatementsStayTheirOwn` is what the adapter promises a
thread that meets no other in it: the statement it executes is the one it wrote, with the id its
object has at the time. The text stays because a statement begun meanwhile is an overlap
(`OneStatementAtATime`, `CurrentIsOwn`), the id because the signals of a type come one after the other
(`OneAnswerPerType`). `TypeCorrect` needs that ids only grow (`IdsAreGiven`), for which a bounded set of
numbers has a greatest one (`GreatestExists`, by the library's well-founded minimum).

The mirror of the tables rests on it (`MirrorInv`). Two things can go wrong with an id. A table may give
one again after the row that had it was deleted; no object that is still there loses its id that way,
because every object that names an id, or is about to learn one, has a row of its own of that id or a
later one (`IdsAreBacked`: an assignment of rows, which each step carries on). And a SELECT finds any row
that looks like the object; while no request repeats the contents of another, the row is the only one
(`InsertHasNoRow`, `SelectHasOneRow`, `Alone`), so the id is that of the INSERT. `ListedObjectsHaveRows`,
`RowsAreOfObjects` and `IdsAreDistinct` follow, each with the exceptions its property names: statements
of two types met in the adapter (`overlapped`), or the contents were muddled. `OneTypeIsKept` shows that
the first exception is one of types that share the adapter: with one type alone it never occurs.

TLC found the inductive invariants of `CamerasProofs`, `SessionsProofs`, `BoundedQueueProofs`,
`EventQueueProofs` and `DatabaseProofs` invariant on small instances, those of the runs for the last two, before they were proved.

Every invariant, action property and refinement that a passing run checks is proved. **Model-checked
only:** liveness (`EveryEventProcessed`, `RequestsReturn`, `OperationsReturn`, `WaitersAreAnswered`,
`DestructorEnds`, `UnattendedIsSentHome`, `ExpiryIsNoticed`, `LogoutIsRecorded`, `StopIsHeard`), which is
out of reach of the prover, as is ENABLED, and the three violations, each found by TLC on its instance.
No module declares a `RECURSIVE` operator.

## 6. What is not modelled, and why

The archive and paging getters, formatting, logging and parsing carry no state. The HTTP and
WebSocket servers, the ISS connection, the camera protocols and the recorder child process are I/O;
what their handlers change is modelled with the context they call, and the WebSocket servers only
broadcast what the signals say. `SignalContext` has no module of its own: generators and subscribers
are made before the servers start and go when the process ends, so its tables do not change while
threads run, and the delivery under the mutex of a generator is part of the modules that send
signals. The locks of cameras (`CamerasContext::Lock`, `LockFrameProcessor`) have no caller in the
repository, so no state of the program has a locked camera. A change of an object over HTTP is refused
by ModelContext, which is given an object of id 0, so neither the Changed branches of the updaters nor
UPDATE of the six types is ever reached. `CameraStatusProcessor` asks cameras and emits what they say.
