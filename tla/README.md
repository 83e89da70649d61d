# TLA+ models of iorap

iorap is the Android service that makes cold application launches faster. When
an application is launched it records, with perfetto, which pages the launch
reads from disk; at night it compiles the recorded traces of an activity into a
list of file ranges; and when the activity is launched again it reads those
ranges ahead. `iorapd` runs this as a native daemon that the Android framework
talks to over binder.

This directory holds TLA+ modules translated from the C++ sources (`src/src`,
`src/include`), the TLC configurations that check them on small instances, and
theorems about them checked by TLAPS. `PROJECT.json` maps every definition to
the lines it models and lists the runs, the mutants that each property is known
to catch, the findings, the hazards and the theorems.

## 1. The system

| Component | Source | State | Operations |
|---|---|---|---|
| Binder service | `binder/iiorap_impl.*` | registered task listener, fake-behaviour switch, started flag | receive app-launch, package, job, dex-opt events; reply with task results |
| Event manager: launches | `manager/event_manager.cc` | `AppLaunchEventDefender`, `AppLaunchEventSubject`, `AppLaunchEventState` | one handler per app-launch event, trace streams in flight |
| Event manager: jobs, packages | `manager/event_manager.cc` | job subject, task callbacks, system properties | nightly maintenance, package change, dex-opt, purge and compile requests |
| Perfetto consumer | `perfetto/perfetto_consumer.cc` | handles with their last operation, watchdog looper | create, start, read, destroy, poll; time out and prune |
| Perfetto rx producer | `perfetto/rx_producer.cc` | one state subject per handle, global handle map | turns perfetto callbacks and timed commands into a stream of traces |
| Async pool | `common/async_pool.h`, `rx_async.h` | futures of running threads, shutdown flag | LaunchAsync, Join, Shutdown |
| Prefetcher client | `prefetcher/read_ahead.cc`, `session*.cc` | open sessions, mapped files by task | BeginTask, FinishTask |
| Prefetcher daemon | `prefetcher/prefetcher_daemon.cc` | forked child, command pipe, sessions in the child | send, reassemble and execute commands |
| Database | `db/models.*` | packages, activities, app_launch_histories, raw_traces, prefetch_files | row operations, schema version |
| Trace files, clean-up | `db/file_models.cc`, `db/clean_up.cc` | files on disk | keep the newest, remove those of a package |
| Maintenance | `maintenance/*` | last job, forked compiler and its watchdog | compile what is due, clean the database |
| Package versions | `binder/package_version_map.cc`, `package_manager_remote.cc` | cached map, binder connection | find or query, update, reconnect |
| Compiler | `compiler/compiler.cc` | none (a pipeline) | traces and inodes to a list of file ranges |
| Inode resolution | `inode2filename/*` | none (a search) | inodes to file names, in process or by a child process |
| Serialization, helpers, tools | `serialize/*`, `common/*`, `*/main.cc` | none | file I/O, result types, logging, command lines |

How they interact. Binder threads call the event manager. Launch events are
handled on the binder thread that delivered them; job events are moved to the
worker thread. A launch that may be traced opens a perfetto stream: an rx chain
that runs on a thread of the async pool, is fed by perfetto's own callback thread
and by timers, is joined with the id of the launch's row in
`app_launch_histories` (which the binder thread produces when the launch
finishes), and ends on an idle-priority io thread that writes the trace file,
inserts the `raw_traces` row and deletes the oldest files of the component. A
launch whose activity has a compiled trace is read ahead instead, in the process
or through the prefetcher daemon. Nightly maintenance forks the compiler for
activities that have enough traces, and removes what belongs to packages that
changed. Package changes and dex-opt events remove files and rows at any time.

What is hard to get right: the ordering between the binder thread (row id), the
perfetto threads (trace) and the io thread (file and row); launches whose events
are missing, repeated or name different components; handles whose callbacks race
their registration and the watchdog; rows and files that two threads remove and
add; a disk that changes under the scan that names its inodes; processes that die in
between, and pipes that end too early.

## 2. Launches: `LaunchProtocol`, `LaunchEvents`, `LaunchEventsInv`

`LaunchProtocol` is the promise: one launch at a time, at most one collector
(trace or read-ahead) per launch, chosen once and at most given up; a trace is
saved only for a launch that finished while being traced and has a history row.

`LaunchEvents` is the code of `event_manager.cc`:

| Model | Code |
|---|---|
| `last_event_type`, `Defend`, `Legal` | `AppLaunchEventDefender::OnAppLaunchEvent` (722-800): accept, rewrite to a failure or cancellation, or reject |
| `ready`, `Subscribe` | `AppLaunchEventSubject` (802-873): an event that comes before the worker thread has subscribed is dropped |
| `component_name` ... `rx_in_flight` | the fields of `AppLaunchEventState` |
| `OnIntentStarted` ... `OnReportFullyDrawn` | the cases of `OnNewEvent` (184-376), each one action of `OnAppLaunchEvent` |
| `StartCollecting`, `StartTracing` | choice of collector (386-453, 473-576), with the outcome of the database and package manager queries as a choice |
| `AbortTrace`, `MarkPendingTrace`, `FinishReadAhead` | 455-467, 578-620 |
| `RecordDbLaunchHistory` | 622-699: insert the row, feed or fail the history id chain |
| `TraceCollected`, `TraceChainError`, `TraceSaved` | the stream of 500-571 on the other threads: the trace, then the row id, then file, row and pruning, each of which may fail |
| `Restart` | the process dies and init restarts it: tables stay, everything else is new |

Launches, rows, chains and traces are numbered. The number of a launch also
stands for its sequence id and its timestamps, so a stale field shows which
launch it came from. Events arrive one at a time (the subject's own comment: the
activity manager does not interleave launches), and the streams of any number of
launches proceed in between. A handler is one action: it runs on one thread
under one lock, and other threads see only the chain it feeds and the rows it
inserts, at its end. What is abstracted: the contents of traces, times and
names, logging, and the system properties (the two switches are chosen anew at
every event, since a property change may flip them at any time).

Bounds of the passing run: three launches, one ordinary and one blacklisted
component and an intent without a component, at most one raw trace kept per
component. Three launches are enough for a stream of the first to be pending
while the second fails and the third finishes, and for pruning to drop a row; the
third launch carries a window title and the second has no timestamps, so every
early return of `OnNewEvent` happens.

| Run | Checks | Shows |
|---|---|---|
| `LaunchEvents` | `CollectorReleased`, `RawTraceOfItsLaunch`, `RowOfOneLaunch`, `AlwaysASubscriber`, `IInv`, `ImplementsProtocol`, `InFlightResolves` | with the subject subscribed first and launches that stay on one side of the blacklist, collectors are released, rows and traces belong to one launch, `LaunchProtocol` is implemented, and a trace in flight ends |

`Aligned` names the two assumptions of the passing run: no event before the
subscription, and no redirect across the blacklist. The code does not enforce
either.

Fairness: `WF(TraceStep)` says that the threads behind a stream keep running: a
stream's thread, the worker thread and the io thread have nothing else to wait
for, and perfetto or its watchdog ends every trace. `WF(Subscribe)`: the
constructor posts the subscription to the worker thread. Launch events and
restarts are the environment's and have no fairness.

Seen while modelling, and not the subject of a run: without the second assumption,
when an intent and its activity are on different sides of the blacklist, `component_name_`
changes between the events of one launch (event_manager.cc:207), a chain or a running
stream is left to the next launch, and `RawTraceOfItsLaunch` fails: the trace is
filed under another launch's row, where event_manager.cc:120-121 wants it associated
with its own (set `Redirects` to all pairs to see it). The stream prunes the files of
the component that `StartTracing` was called with (the intent's), while the row is
the launched activity's, so that after a redirect within an app the launched
component keeps more traces than `kPerfettoMaxTraces` (event_manager.cc:564 wants
not 'too many files per-app'). `Redirects` in `LaunchEvents.cfg` keeps to one component.
Events that arrive before the worker thread has subscribed are dropped, although the
defender moves on: with `EarlyEvents = TRUE` TLC finds a launch that finishes without
the begin its state should have seen, and `RecordDbLaunchHistory` finds no subscriber
(`AlwaysASubscriber` fails).

### Proofs

`LaunchEventsProofs` proves `TypeCorrect` (`Spec => []TypeOK`) for all constants:
among other things that the ids in the state name existing rows, chains and
streams. The rest is proved under `Aligned`, for any components, any blacklist and
any number of launches: `IInv` (in `LaunchEventsInv`, with `TypeOK` a part of it) is
inductive, `CollectorReleased`, `RawTraceOfItsLaunch`, `RowOfOneLaunch` and
`AlwaysASubscriber` follow from it, and with it every step maps to a step of
`LaunchProtocol` or to a stutter (`ProtocolImplemented`).

None of the properties is inductive alone. That a raw trace is filed under its
launch's row needs the whole history: a chain is created by exactly one launch,
the subscriber and the observable of a launch under way are the same chain, a
chain's id is the row inserted for the chain's launch, that row says it was traced
exactly when the stream it was subscribed with is left in flight, and no two
streams read the same chain. `StateInv` states these facts in groups (launch,
chain, collector, stream, fields, rows), with one lemma per handler. The refinement
needs one thing more, `FlightInv`: a stream that still runs is the current one or
was left in flight, and not both, because `LaunchProtocol` counts a launch that was
handed on and not yet resolved where the code only has a list of subscriptions.
`IInv` is both, and `LaunchEvents.cfg` checks it with TLC.

`RowOfOneLaunch` states more than a row's timestamps; beside it the invariant has
that a launch has at most one collector (`OneCollector`), that only a cold launch has
one (`CollectedIsCold`), and that `kReportFullyDrawn` completes its own launch's row
(`FullyDrawnOfItsLaunch`). Only model-checked: the liveness property `InFlightResolves`
(liveness under fairness is out of the prover's reach).

## 3. Perfetto streams: `TraceStreams`, `PerfettoStreams`

`TraceStreams` is what a launch relies on when it subscribes to a trace stream:
the stream hands over one trace or none, never takes it back, and ends.
`PerfettoStreams` is the code of `perfetto_consumer.cc` and `rx_producer.cc`
that provides it:

| Model | Code |
|---|---|
| `session`, `StateDiagram`, `Report` | perfetto itself (external): the transitions `DcheckValidStateTransition` (235-315) expects, on perfetto's callback thread |
| `created`, `kind`, `timers` | `last_created_`, `states_` and the delayed messages of the looper |
| `creator`; `CreateRaw`, `TrackHandle`, `MapSubject`, `BindHandle` | `CreatePerfettoStateStream` (473-538) on the worker thread, cut where another thread can get in between |
| `subject`, `last_state`, `dest`; `OnStateChanged` | `state_subject_map_` and the `StateChangedSubject` in it, under `state_subject_mutex_` |
| `inbox`, `arrived`, `commands`; `SendCommand`, `ZipState`, `ZipError`, `Execute` | the zip of commands (event_manager.cc 478-490) and state changes on the coordinator thread, and what a pair does |
| `Held`, `ReleaseHandle` | the `shared_ptr<PerfettoConsumerHandle>` in the subject, in each state change and in the creating thread; the last one destroys the handle |
| `watchdog`; `OnTraceMessage`, `CheckTimeout`, `CullTraces`, `PruneTrace` | the looper thread, cut at each unlock |
| `Unsubscribe` | `AbortTrace` of the launch |

iorapd configures traces that start by themselves (`deferred_start = false`), so
`StartTracing`, the timeout and the pruning matter only to deferred streams (the
command line tool's); `DeferredStart` gives the choice and the passing run has both.

| Run | Checks | Shows |
|---|---|---|
| `PerfettoStreams` | `HandleValid`, `TraceDelivered`, `EndedNotFailed`, `HandleDestroyed`, `IInv`, `ImplementsStreams` | no handle is destroyed while it is referred to and each is destroyed in the end; a late timeout changes nothing; a stream of iorapd's kind that completes has its trace; `TraceStreams` is implemented, with its liveness |
| `PerfettoStreams_early` | `StreamEnds`, violated | a callback before the handle is in the map is dropped and the stream never ends |

Bounds: two handles and a limit of one, so that the second stream makes the
watchdog prune; every stream gets at most three state changes and three
commands, which is all there are. Assumed in the passing run and in the proofs
(`Orderly`): perfetto does not call back before the handle is in the map, and
does not report `kConnecting` (a third state change before `kTraceEnded` would
pair `kStopTracing` with the wrong state). `ClockSetBack` lets the timeout test
fail, since it reads `CLOCK_REALTIME` while the looper does not; it is off in the
passing run, since then nothing ends a stream that perfetto leaves hanging.

Fairness: perfetto connects, and ends traces that started by themselves (the
configuration has a duration); a deferred session may hang for ever. The looper
delivers its messages, and the threads of the coordinator, the timer and the
creating worker run. Nothing is assumed of unsubscription.

### Proofs

`PerfettoStreamsProofs` proves, for any number of handles and any limit, type
correctness (`TypeOK`), and under `Orderly` the inductive invariant `IInv`, which the
run checks with `TypeOK` as a part of it. From it follow `HandleValid`, the safety part of
the refinement (`StreamsImplemented`), `TraceDelivered` and `EndedNotFailed`.

The invariant is proved in two layers. `HandlesInv` follows the session: a subject
that is bound has seen every state its session is in, and has emitted at most one, two
or no state changes at each. On the way through the diagram and the handle map there
are at most two, so the third pair, which destroys the handle, never meets a live
subject. A handle's invariant mentions only that handle, so one frame lemma serves
every other handle in every step. `IInv` adds what the zip has of a stream that traces by
itself: what was emitted is a beginning of `Course`, then an error or nothing, and the
second pair, which reads the trace, completes the stream at once (`OnCourse`); and only
a subject that was told of an error has sent one (`ErrorsReported`). Without the
first, a completed stream might have paired `kReadTrace` with another state and have no
trace; without the second, a timeout that comes late might fail a stream whose session
has ended well.

Only model-checked: that streams resolve (the liveness part of `ImplementsStreams`) and
`HandleDestroyed`.

Seen while modelling, and not the subject of a run: the pruning advances its iterator
before it first looks (perfetto_consumer.cc:374-385), so the oldest handle is never
picked, and it calls back with the handle whose message it is handling, not with the
one it prunes (`CullTraces` and `PruneTrace` do the same); `kInvalidHandle` from perfetto
would fail the check of `last_created_` (perfetto_consumer.cc:193) before
`OnCreateFailed` could report it; a deferred stream that is unsubscribed before
`kStartTracing` leaves its subject, and so its handle, behind (the TODO at
rx_producer.cc:529); with a limit of zero the pruning would step past the end of
`states_`; a deferred stream pairs `kStopTracing` with `kTracing`, so it completes
without a trace unless the session ends straight from `kConfigured`.

## 4. The pool: `AsyncPool`

The trace streams and the io work run on threads of this pool. The model cuts
`async_pool.h` where another thread can get in between.

| Model | Code |
|---|---|
| `futures`, `shutting_down` | `futures_`, `shutting_down_` |
| `functor`, `Complete` | the thread `std::async` starts for a functor, and its end |
| `launcher`; `Spawn`, `Push`, `NotifyOne` | `LaunchAsync` (77-87): start, queue under the mutex, notify |
| `shutdown`; `SetFlag`, `NotifyAll` | `Shutdown` (39-43), which never takes the mutex |
| `join`, `awaited`; `Lock`, `Pop`, `NothingToPop`, `Get`, `TestFlag`, `Wait` | `Join` (47-72); the mutex is held in `Locked` |
| `promised` | history: what had been launched when `Shutdown` was called |

| Run | Checks | Shows |
|---|---|---|
| `AsyncPool` | `JoinedIsDone`, `IInv`, `FuturesCollected` | `Join` returns only after `Shutdown` and when everything launched before has run; no future stays in the queue while a thread is in `Join` |

Bounds: two functors, so that one can be launched while `Join` waits for the
other. Fairness: a functor ends, and the threads in `LaunchAsync`, `Shutdown` and
`Join` run; a spurious wake-up may happen but is never promised, and nobody has
to call `Shutdown` (the daemon does not, `iorapd/main.cc` leaves a TODO).

`AsyncPoolProofs` proves `IInv` and `JoinedIsDone` for any set of functors.
`JoinedIsDone` is not inductive: it needs that a launched functor is queued,
awaited or done, and that the queue is empty, under the same lock, when the flag
is tested. `FuturesCollected` is liveness and is model-checked only.

Seen while modelling: `Shutdown` sets the flag and notifies without the mutex, and may
do both between `Join`'s test of the flag and its wait. Then `Join` never returns,
against async_pool.h:37-38. `SetFlag` and `NotifyAll` allow it, and so no property
here promises that `Join` returns.

## 5. Traces and the database: `Database`, `TraceStore`, `TraceStoreInv`

`Database` is `db/models.h`: the five tables as sets of rows, one operator per
statement, ids that are given again once the last row is gone (an INTEGER PRIMARY
KEY without AUTOINCREMENT), and foreign keys, which SQLite neither tests nor
cascades until `CleanUpDatabase` turns them on, once per process. `TraceStore` is
everybody who adds and removes rows and files:

| Model | Code |
|---|---|
| `launch`; `StartLaunch`, `LookUpVersion`, `SelectOrInsertPackage`, `SelectOrInsertActivity`, `InsertHistory` | a launch on its binder thread: `StartTracing` and `InsertDbLaunchHistory` (event_manager.cc 505-699), `SelectOrInsert` (models.h 748-772) |
| `pending`, `io`; `WriteTrace`, `InsertRawTrace`, `SelectOlder`, `RemoveOlder`, `DeleteOlder` | the io thread: 525-568 and `DeleteOlderFiles` |
| `thread["worker"]`; `StartMaintenance`, `UpdateAll...`, `SelectPackages`, `CleanPackage`, `FinishPackage` | `StartMaintenance` (1095-1133), `CleanUpDatabase` |
| `thread["binder"]`; `Purge`, `Compile`, `OnPackageChanged` | requests of the dex-opt service and the shell, package changes (1028-1045) |
| `SelectRawTraces` ... `DeletePrefetchFile` | `CleanUpFilesForPackage` and `CleanUpFilesForActivity`, on either thread |
| `CompilePackage` ... `FinishCompilePackage` | `controller.cc`: `CompilePackage`, `CompileActivity`, `StartViaFork`; the compiler's output (`O_TRUNC`, then written in place) |
| `version_map`, `package_manager`; `GetOrQueryPackageVersion`, `IsNews` | `PackageVersionMap` |
| `installed`, `changes`; `ChangePackage` | the package manager (external): its calls may fail or be lost |
| `Crash`, `CrashWithoutMap`, `Upgrade` | the process dies (an empty optional or a null pointer in `UpdateAll` and `Find` is one reason); a database of another schema version is cleaned up and created anew |

A statement holds the mutex of the database handle and is one step; removing a
file is another. What is abstracted: the contents of files and their names (a raw
trace is named by its component and launch, a compiled one by its component),
times, and which histories lack timestamps. `launch`, `forgotten`, `overlapped` and
`interrupted` in rows and states are history that only properties read. init kills
the forked compiler together with the daemon.

| Run | Checks | Shows |
|---|---|---|
| `TraceStore` | `StoreInv`, `Integrity`, `RawTraceHasFile`, `RawTraceOfItsLaunch`, `CompiledTraceIsWhole`, `UpdatedRemoved` | rows have their parents, a raw trace its file and its launch, a compiled trace that would be read ahead was written to its end, and rows of a version that is no longer installed go |
| `TraceStore_uninstalled` | `UninstalledRemoved`, violated | `CleanUpDatabase` skips a package the map does not have, so what was uninstalled stays for ever |

Bounds: one package with one activity, a limit of one raw trace, one trace enough
to compile, and two versions, of which the second is too wide for an `int` (of three
bits) and is truncated in every row. The run starts after a first launch whose trace
is on its way, and two more events (launches, requests, package changes,
restarts) come in any order, while maintenance runs any number of times: enough for
a clean-up to meet a launch, a purge a compilation, and a package change both.

Three properties name when they do not hold. `RawTraceHasFile` exempts a row whose
file was removed when the daemon died (`interrupted`); `CompiledTraceIsWhole` also
two threads on the same package at once (`overlapped`): nothing excludes a purge, or
a compilation from the shell, while the nightly maintenance works on the package,
and then a compilation may leave a row without its file, two rows, or a
file that another compiler is writing. `CompiledTraceIsWhole` therefore
says nothing of what two threads did to one version of a package at once, and neither
property of what a crash left behind; a compiler that fails or is killed, clean-ups and
compilations one after the other, and work on other packages are covered.
`RawTraceOfItsLaunch` holds in full for a launch whose row is still there. When a
clean-up deleted the row before the trace arrived (`forgotten`), the id may be another
launch's by then, and the trace is filed under that launch, which is what the code does
(event_manager.cc:552 keeps the id only); the property then says that it is a later
launch and never an earlier one.

Fairness: the job scheduler starts the maintenance again and again and the worker
thread runs; the package manager is not down whenever `UpdateAll` asks (strong
fairness), nor whenever a restarted daemon creates its map. Nothing is assumed of
launches, requests and the io thread.

### Proofs

`TraceStoreProofs` proves all five safety properties of the run for any packages,
activities and versions and without regard to the bound on events, in four inductive
invariants (`IInv` in `TraceStore`, the others in `TraceStoreInv`), each of which rests on
the ones before it. The one assumption, `StoreAssumption`, says that versions are
integers, that an `int` has a positive width, and that no package row is the value
that stands for none.

- `IInv` is behind `Integrity`: a launch holds the id of a package or activity row, a
  trace that of a history row and a compilation that of an activity row, each used for
  a later row. While SQLite does not test foreign keys these ids must still name rows;
  `IInv` says they do, and that a maintenance past its PRAGMA has foreign keys on, so
  that nobody deletes a package under them before; afterwards SQLite refuses the row
  instead. One lemma covers every step of a thread that leaves the upper tables alone.
- `Typed` is behind `TypeOK`: ids are keys of finite tables, and a thread holds rows of
  the right table at each step. That `NewId` is new in its table needs the greatest id
  of a finite set, which is found through the well-founded order of the numbers.
- `Recorded` is behind `RawTraceHasFile` and `RawTraceOfItsLaunch`: a trace is in one
  place, with the launch, on its way to the io thread, written, or in one row, which the
  io thread and both others may hold too. Neither property is inductive: two removals of
  one row are harmless only because no other row names the same file. A history id is
  given again only when every trace with the old one is `forgotten`, and then to a launch
  that is later than all of them, since the launch that is going on is the `Latest`.
- `Compiled` is behind `CompiledTraceIsWhole`: as long as no two threads have worked on
  its package at once and no crash came in between, a component has one row of
  `prefetch_files`, joined to the activity of the component, its file is there unless
  a thread is about to delete the row, and the one thread that compiles it has found
  no row and is the one writer of the file. It needs that only the nightly maintenance
  deletes packages, so what the worker took from the table is still in it.

`StoreInv` is all four, and the run checks it. Only model-checked:
`UpdatedRemoved`, which is liveness.

Seen while modelling, and not the subject of a run: `package.version` is an `int`
and the map's version an `int64_t`, so a package whose version code is 2^31 or more
never equals its row and is cleaned up every night; a trace file written just
before a crash has no row and is never collected; `std::filesystem::remove` may throw;
the PRAGMA is assumed to succeed (its failure is only logged).

## 6. Read-ahead: `Prefetch`, `PrefetchInv`

A launch with a compiled trace begins a read-ahead task, whose session opens the
files of the trace and advises, maps or locks their ranges until the task is
finished. Sessions live in iorapd, or (the default) in a forked `iorap.prefetcherd`
that gets commands over a pipe and never answers, or that gets the open trace file
over a socket. `session_kind` chooses; one module covers the three.

| Model | Code |
|---|---|
| `pc`, `task`, `todo` | where the launch thread is in a call, and the commands it has still to send; every `SendCommand` is a step, since it blocks on a full pipe |
| `BeginTask`, `CreateTaskSession`, `OpenTraceFile`, `SendNext`, `RememberTask` | `ReadAhead::BeginTask` (261-402), in its order: the session comes before the trace file is opened |
| `OpenTraceFd`, `CreateFdSession` | `BeginTaskForSockets` (224-259) |
| `FinishTask`, `FinishUnknownTask`, `ReleaseTask` | `FinishTask` (199-222); the last reference to the session goes with the task, and its destructor sends `kDestroySession` |
| `DestroyReadAhead`, `ReturnFromMain` | the destructors, at the end of `iorap.cmd.readahead` |
| `sessions`, `file_map`, `recents` | `sessions_map_`, `read_ahead_file_map_`, `recents_` |
| `channel`; `longbuf`, `longbuf_fds`, `pending` | the pipe; `longbuf_`, `longbuf_fds_` and the rest of `many_commands` in the child |
| `ReadCommands`, `ReceiveCommand`, `Exit` | `ParseCommands` and `ParseSocketCommands` (291-606), `Main` (1062), `ReceiveCommand` (1222) |
| `served` | the `SessionDirect` objects (`path_map_`, `entry_list_map_`), wherever they live, with the open descriptors and the mappings of their process |
| `Die`, `Kill` | either process ends at any point |

A command is two halves in the pipe, so that a read can end within one; what
`Command::Write` and `Command::Read` do is that, and that a name too long for
the 1024 bytes of `SendCommand` is dropped (`Fits`). A descriptor arrives with the
first half of its command, and a read returns nothing behind it (unix(7)).

| Run | Checks | Shows |
|---|---|---|
| `Prefetch` | `IInv`, `SessionsMirrorTasks`, `NothingOutlivesItsSession`, `CommandsMeetTheirSession`, `CallsReturn`, `FinishedIsReleased`, `ExitArrives` | what the sessions hold, once the commands on their way have arrived, is what the traces of the unfinished tasks ask for; what sessions own goes with them; no command meets a missing or an existing session by mistake; calls return, finished tasks are released and the exit arrives |
| `Prefetch_finish` | `FinishedHasNoSession`, violated | a task without a trace file leaves its session behind, in both processes, and `FinishTask` does not find it |

`SessionsMirrorTasks` carries out the commands in flight on the child's sessions
(`Arrived`) and compares with `Promised`, which is written from the trace files alone:
an id has the first of its paths that gets through, and the entries are those whose id
has a path. `SessionDirect::RegisterFilePath` opens the file first, into an `int`
(session.cc:118), and then inserts it: for an id that is registered already
`InsertFilePath` returns true all the same, and `path_fd_map_.insert` (133) does not take
the descriptor (libc++, which Android builds with, looks for the key before it makes an
entry). Nobody owns that descriptor and nobody closes it, although read_ahead.h:38 wants
any descriptor that a task opened cleaned up with `FinishTask`. `served.leaked` is these
descriptors. `Promised` says which they are, one for each id that the trace file of
a task gives again to a file that opens (`LeakedBy`), so `SessionsMirrorTasks` accounts
for them exactly, and `NothingOutlivesItsSession` says that nothing else outlives a
session. The compiler names every id once (`NameOnce` in section 8): only a trace file
from elsewhere leaks.

Bounds: two tasks, so that one begins while the commands of the other are on their
way; a pipe of two commands, less than any call sends; a trace of a
file that opens and one that is gone, and a trace that gives the same id to a file with
a long name, which the pipe drops, and twice to another file, which leaks a descriptor;
fadvise and mmap (mlock maps in the same way); a limit of no recent task, so that two
tasks show the one too many that is kept. Deadlock is not checked: the
system stops when the client has ended, and when the child was killed and the pipe
is full. Fairness: a call that can go on does, and so does the child. No call has to
be made, and nobody has to crash.

The model assumes that task ids are fresh (they are the sequence ids of launches)
and fit 32 bits, and that mmap and mlock succeed. The entries of a session are a set:
a range that a trace has twice is mapped once. So are the leaked descriptors: an id that
a trace gives more than twice counts once.

### Proofs

`PrefetchProofs` proves for any tasks, trace files and kinds of session, any size of
the pipe and any limit of recent tasks that `IInv` (`PrefetchInv`, with `TypeOK` a part of
it) is inductive, and from it `NothingOutlivesItsSession`, `CommandsMeetTheirSession` and
`SessionsMirrorTasks`, which is a conjunct of it. The assumption `PrefetchAssumption`
types the constants: numbers, and the index and list of each trace file as sequences of
entries, of any length and with any ids, ranges and repetitions; the marks `Missing` and
`Corrupt` are not themselves trace files.

`IInv` has to relate three things that are never in one place: the call of iorapd, the
stream of half commands, and the sessions of the child.

- `StreamInv`: the halves of each command follow each other in what is kept and what is
  in the pipe (`Paired`), at most one half is kept between reads, and with it the
  descriptor that came with it (`KeptFds`). A read may end after any half, and hands the
  descriptors over separately; the proof pairs them with their commands by counting
  (`Rank`, `FdsOfRead`), and shows that what was parsed and what is kept are together what
  was there (`ParseIsWhole`, `KeptAfterRead`).
- `OrderInv`: what is on its way is in an order the sessions of the child can follow
  (`Ordered`): created once, before the other commands, and destroyed after them.
- `CallInv`, `TodoInv`, `ChildInv`: at each step of a call, which tasks have a session
  to come (`Fresh`), have one (`Live`) or are about to lose it, in iorapd and in the
  child, and what the call has still to send for them. `CommandsMeetTheirSession` is the
  head of `Ordered`; it holds after a send because the task is `Live` or `Fresh` then.
- `Tidy`: whatever is open or mapped belongs to a session and to a path or an entry of
  it. `NothingOutlivesItsSession` is this for what sessions own, and it is inductive
  because destroying a session takes its descriptors and mappings along, also after a
  trace file asked for an entry of a path it never registered.
- `LeakInv`: what has leaked, with what the commands on their way will still leak, is
  not more than the trace files of the tasks give again; a child that has ended holds
  nothing. `SessionsMirrorTasks` has this with equality while both processes live. An
  iorapd that died has sent a part of a call, whose leaks are a part of what was promised
  (`LeaksGrow`), so `LeakInv` is an inclusion and goes on after the death;
  `kDestroySession` and `kExit` leak nothing.
- `MirrorInv`: when the commands of a call are sent, what a task may have opened by
  when, and that the pipe holds nothing that does not fit. `SessionsMirrorTasks` needs it
  to be inductive, and the rest of `IInv` too: only a whole stream is parsed to the
  commands that were sent (`ArrivedIs`).

The argument for `SessionsMirrorTasks` has two halves. What happens on the way: carrying
out a sequence of commands is a fold (`CommandsFold`, `FoldConcat`, `FoldEnds`), so that
sending a command appends it to the fold (`SentArrives`), a read leaves the sequence
(`ReadParses`), and the child takes its first element. What the commands do:
`Holding(held, kinds, leaked)` is the service that has exactly these sessions, with what
is open and mapped for them, and these leaks, and each command takes one such service to another
(`HoldingCreates`, `HoldingRegisters`, `HoldingReadsAhead`, `HoldingDestroys`). By
induction over the places of the index, and then of the list, the commands of a trace
file make of a new session `Wanted` (`Registered`, `EntriesRead`, `TaskPrefetched`, and
`FdPrefetched` for the socket); the places whose commands are skipped or dropped on the
way are counted out (`Counting`). An action of iorapd then changes both sides alike.

`ProcessFd` carries out the calls of a whole trace file at once. `AfterCalls` is
therefore a recursive function of the number of calls made, and what it preserves is
proved by induction over that number: `Induction` is an induction lemma over sets of
numbers, which needs no operator as a parameter.

Only model-checked: the liveness properties `CallsReturn`, `FinishedIsReleased` and
`ExitArrives`.

Seen while modelling, and not the subject of a run: neither process closes the end
of the pipe it does not use and exec keeps both, so the child never sees an end of
file (`EndOfFile` is never true, and an iorapd that crashes leaves the child behind
for ever), and writing to a dead child blocks instead of failing. `IsDaemon` is true
in the parent, so `~Impl` never waits for the child, which `prefetcher_daemon.h:103`
promises. `RecordRecent` keeps six tasks where the comment says five. posix_fadvise
returns its error and mmap `MAP_FAILED`, and the code tests for `< 0` and null: the
failures count as successes. A name too long for the buffer is read ahead in
process and over the socket, but not over the pipe. The socket always uses fadvise.

## 7. Inodes and names: `InodeSearch`, `ResolverContract`, `InodeResolver`

A trace has inodes, and only a search of the disk finds their names. The compiler
asks an inode resolver, which forks `iorap.inode2filename` and reads what it
prints. `ResolverContract` is what the caller relies on (inode_resolver.h:69-83):
when a search completes, each inode it was asked for has been answered, once, by a
name or by an error. `InodeSearch` is the search in the child, `InodeResolver` the
two processes and the pipe between them.

| Model | Code |
|---|---|
| `disk`, `Stat`, `ReadDirectoryEntries`; `Change` | the file systems (external): readdir gives a number and a type without the device, stat follows links; others replace files meanwhile |
| `cache`, `CacheEntries` | the text cache (data_source.cc), with lines that have no name or are no lines |
| `pending`; `Begin`, `Expand`, `Continue`, `DropError` | the depth-first pull of `TreeTraversalPreOrderObservableImpl` (606-697), and of the cache |
| `remaining`; `Match`, `Skip`, `Stop` | `inode_set` and `FilterFilenamesForSpecificInodes` (1069-1174): an entry with the right number is asked for its device, and the entry after the last match ends the search |
| `candidate`; `Verify` | the second stat (1217-1258) |
| `SourceEnds`, `NotFound`, `Complete` | what is left becomes `kCouldNotFindFilename`, if the scan emitted anything at all |
| `ListEntry`, `ListNothing` | `EmitAllFilenames` (1278-1364) |
| `reader`, `answers`, `actual_result_count`; `Fork`, `ReadOneLine`, `InvalidOutput`, `OutputEof` | `EmitFromCommandWithArgv` (258-366) |
| `child`, `stream`, `flushed`, `consumed`; `Flush`, `ChildReturns`, `Kill`, `BrokenPipe` | the child, its stdout buffer, the pipe, and how it may end |

| Run | Checks | Shows |
|---|---|---|
| `InodeResolver` | `IInv`, `AnswersAreTrue`, `HaltsAfterLastInode`, `ImplementsContract`, `AnswersEnd` | a name that is answered led to its inode during the search, a file that stayed in its place is not missed, the scan stops with the last inode, and the parent keeps the contract and ends wherever the child dies |

Bounds: two partitions that use the same inode numbers, a link from one to the
other, a name with a blank, a socket, and a file system that gives no types; three
text caches, one of them with a nameless, a garbage and a stale line; requests for two
inodes, for one that is not there, for none, and for all; both sources with and
without verification; one change of the disk, at a file or at a directory, one fault (a call that fails or a child
that is killed) and a pipe of two results. Every decision of the search is about
one entry, the inodes with its number and what stat says of it, so two inodes of
one number and one change between two calls reach each. Deadlock is not checked:
a search ends. Fairness: both processes are scheduled; nothing else is assumed.

Assumed: the list of inodes is a set (the compiler's is), and `fdopen` fails like
`fork`, with the child left behind (`CannotFork`).

### Proofs

`InodeResolverProofs` proves for every disk, request, cache and bound:
`PipeHolds` (`IInv`), `ScanHalts`, `NamesLed`, `AnswersTrue` (`AnswersAreTrue`)
and `KeepsContract`, the refinement. The parent completes when the number of lines is
the number of inodes, and never looks at the child's exit status. That this is
enough needs an invariant that crosses the pipe: `Accounted` says that each inode is in
one place, still searched for, with stat, or told, and told once; `PipeInv` says that
the parent has emitted and counted just the lines that it read. As many lines as
inodes are then lines about all of them. `IInv` is both, with `TypeOK`.

`AnswersTrue` is the whole of `AnswersAreTrue`: that an inode called missing was
missing (`MissesAreGone`) is about the names that a scan has to meet, `Met`, the
least set that holds the roots and is closed under what a steady directory shows.
`ScanInv` is what makes it inductive: there is a set of names dealt with, what comes
next after them is among them or pending, and no inode still searched for is at one
of them. When nothing is pending that set is closed, so it holds all of `Met`
(`AllIsMet`); a change of the disk only takes names away from what a scan has to find
(`ChangeTakesAway`). Model-checked only: `AnswersEnd`.

Seen while modelling, and not the subject of a run: the parent reads a name with `>>`
and so up to its first blank, where the comment above promises a 'string with potential
spaces' (out_of_process_inode_resolver.cc:169-181); in process, an empty text cache
completes without an answer, against inode_resolver.h:77, since nothing is ever
emitted into the scan, and it is the count in the parent that makes this an error;
`EmitAll` has no count, and completes after a killed child; a search for no inodes
completes its subscriber and forks nevertheless; the parent never waits for the child.

## 8. Compilation: `TraceCompiler`, `Compilation`

`TraceCompiler` has the stages of compiler.cc as operators, and `Compilation` one run
of `iorap.cmd.compiler`, composed with `ResolverContract`.

| Model | Code |
|---|---|
| `GetStartTimestamp`, `Select`, `PacketEvents`, `Relative` | 239-403: events up to the limit, with the timestamp of their own or of the event before, relative to the start modulo 2^64 |
| `ReduceResolvedInodesToMap`, `ResolveEvent`, `Resolve` | 438-456, 592-735: names and the blacklist |
| `InsertEarliest`, `Merge`, `Sort`, `multiless` | 621-690, 757-818: one event per page, the earliest, and the order |
| `KeepAdded`, `NameOnce`, `TraceFile` | 865-920: additions, file ids by first appearance, offsets of pages |
| `SelectInodes`, `ResolverSteps`, `Combine`, `ResolvePageCacheEntries` | the two readings of the traces, before and after the resolver |
| `Terminate` | a resolver that fails: the subscriber has no on_error and rxcpp terminates |
| `OpenOutput`, `EmitText`, `WriteFully`, `MapAndSerialize`, `Sync` | the output, call by call |
| `Purge` | iorapd removes a raw trace meanwhile (`TraceStore`) |

| Run | Checks | Shows |
|---|---|---|
| `Compilation` | `OutputIsEarliestFirst`, `WrittenFromFullAnswer`, `CompilationEnds` | the trace file has each page that was added, once, in the order of its earliest time over all traces; it is written only from a full answer; and the compilation ends |
| `Compilation_transactional` | `Transactional`, violated | the output is truncated before anything can fail, so a compilation without a page leaves an empty file |

Each reading drops the inputs it cannot open, read or parse, with a message in the log
(compiler.cc:86-110, rx_producer.cc:591-609), and does so on its own (`Dropped`). So an
input that fails in the first reading and is read in the second has events whose inodes
were never asked for: compiler.cc:595-606 logs each and leaves its page out, and the
compilation succeeds. `WrittenFromFullAnswer` promises an answer for every event only if
no reading failed on an input that was there (`drops = 0`), and otherwise that the inputs
of the first reading are answered; `OutputIsEarliestFirst` is about the pages of the
second reading whose inode has a name.

`OutputIsEarliestFirst` compares the pipeline with a definition that has no pass over
the events: `Pages` is the set of pages that the traces contain, each with
the time of the last stamp before it, and the order of two entries is that of the
minima of their times.

Bounds: five commands by hand (a page twice with the later time first; a stamp
before the start, which wraps; a limit that cuts an event that gives its time to
the next; deletions alone; no stamps) and every packet of two events from a small set;
three inodes, of which two may have one name; timestamps modulo 16; one removed trace,
one input that is there and is not read in one of the two readings (`MaxDrops`), and one
failing call of those that write the output (`MaxFaults`). Fairness: the process is scheduled, and the resolver ends,
which is what `AnswersEnd` of `InodeResolver` shows. Deadlock is not checked: a
compilation ends.

Assumed: a release build (the `DCHECK` that a packet has a timestamp is off),
and a command line with an output file.

### Proofs

`CompilationProofs` proves `FullAnswer` (`WrittenFromFullAnswer`) for any traces,
commands and answers, and any number of inputs that vanish or are dropped. It needs what
is true at each stage in between (`StagesInOrder`: past the resolver the answers are
complete; `NothingNew`: they are for what the first reading got) and, for the runs in
which nothing was dropped that is there, that the second reading gets nothing else:
traces only vanish, so the inputs it reads are among those of the first
(`SecondReading`). `EarliestFirst`
proves `OutputIsEarliestFirst` for any traces, limits, blacklist and answers. The
invariant behind it is `MergedInv`: of all events fed to it the set that is merged
`Keeps` one per page, with the earliest time (`InsertKeepsEarliest` for one insertion,
`Merged` for an input), and a trace file that is there is `TraceFile` of this set,
sorted. The rest is about the operators:

- The passes are folds over sequences, which are recursive functions on sets of
  positions. `Induction` is a lemma about a set of numbers, so that it needs no operator
  as a parameter; with it each fold is shown to exist and to go element by element
  (`FoldExists`, `SelectingIsFold`, `ResolvingIsFold`, `MergingIsFold`, `KeepingIsFold`,
  `NamingIsFold`, `Flattened`).
- `PagesAreFed`: what the passes keep of an input, packet by packet (`PacketSelected`,
  `TraceSelected`, `Resolved`), is what `PagesOf` says without passes. The stamp that a
  fold carries along is the last stamp before the event (`StampOfNext`).
- `Sorted`: the events of a merged set are in a total order (`TotalOrder`), so that the
  places the smaller ones leave are all taken, once, and the sequence is in order.
- `TraceFileIs`: the additions in their order, each name once, and every entry's file by
  the place of its name. `MergeGivesOrder` puts these together.

Only model-checked: the liveness property `CompilationEnds`.

Seen while modelling, and not the subject of a run: an event without a
timestamp of its own is never tested against the limit.

## 9. Package versions: `PackageVersions`

`TraceStore` takes a package manager that sometimes fails to answer. `PackageVersions`
is what stands behind an answer: two connections to system_server, which may die and
come back at any point, the map that is filled over one of them, and the observer and
death recipient that are registered over the other.

| Model | Code |
|---|---|
| `server`, `installed`; `Boot`, `Die`, `ChangePackage` | system_server and its packages (external) |
| `link`; `InvokeFails`, `GetPackageService`, `WakeUp`, `Answered`, `Failed` | `PackageManagerRemote`: `InvokeRemote` (130-143) and `ReconnectWithTimeout` (107-128), one second of sleep a step |
| `NullService` | a call after a time-out goes through the null `package_service_` |
| `MapConnected`, `GetAllPackages`, `GetPackageVersion`, `StoreMap`, `MapCallFails` | `PackageVersionMap::Create` and `UpdateAll`, with `GetPackageVersionMap` (67-89), one answer a step |
| `UpdateAllCrashes` | `UpdateAll` without a package manager, or with an empty optional |
| `QueryVersion`, `QueryAnswered` | `GetOrQueryPackageVersion` for a package that the map does not have |
| `Free` | `mutex_`: it is held while the map's connection is in a call |
| `ServiceConnected`, `Register`, `LinkToDeath`, `LinkToDeathFails`, `Exit` | the constructor of `IIorapImpl::Impl` (284-308) and what it calls |
| `obituary`, `BinderDied` | `PackageManagerDeathRecipient::binderDied` |
| `changes`, `OnPackageChanged`, `Update` | `onPackageChanged` calls on their way; event_manager.cc 1028-1045 and `PackageVersionMap::Update` |
| `main`, `Restart` | start-up in the order of `iorapd/main.cc`; exit, and init starts iorapd again |
| `missed`, `refreshed` | history: changes that nobody was told of since the map was made |

| Run | Checks | Shows |
|---|---|---|
| `PackageVersions` | `MapIsCurrent`, `MutexReleased`, `ObserverReturns` | once the changes on their way have arrived, the map has the installed version of a package, or none, unless the package changed unobserved; the mutex is released also when system_server never returns; and the observer ends up registered with a system_server that stays, however often it died before |

Bounds: two packages, one of them installed at first, two changes, two starts of
system_server, one `linkToDeath` that fails, and a minute of two attempts. Two answers
make a map, so that a change, a death or both fall before, between and after
them; and system_server can die once at every place and come back. Deadlock is not
checked: once system_server has died for the last time little is left to do. Fairness:
the two connections go on (their threads only sleep a second at a time, and calls of
binder return), and binder delivers an obituary. Nothing is assumed of system_server,
of requests or of the delivery of changes.

`TypeOK` is not among the run's properties; it is the first part of `IInv`, which is
proved.

### Proofs

`PackageVersionsProofs` proves `IInv`, `TypeOK` and `MapIsCurrent` for any packages,
versions and bounds. `MapIsCurrent` is not inductive: `MapInv` adds that the last
call on its way for a package says what is installed, that the answers collected so
far are current in the same sense as the map, and that a map that is being collected
holds the mutex, so that no change is applied to the old map and lost with it. A
removal takes no mutex and changes no map, and is the one call that may be consumed
meanwhile. The two liveness properties are model-checked.

Seen while modelling, and not the subject of a run: when `ReconnectWithTimeout` has
failed, `package_service_` is null and the next call goes through it, so that a second
query crashes iorapd, where package_version_map.h:71 promises -1 'If no version can be
found for some reason'. The time is tested before the connection, so the one that the
last attempt got is not used (package_manager_remote.cc:115-124). After a failing
`linkToDeath` the reconnected service gets a recipient but not the observer. A
change between the creation of the map and the registration of the observer is
missed, and so is one while system_server starts, until the nightly `UpdateAll`. A call
of a system_server that has died may still be on its way when `UpdateAll` reads a newer
version, and then puts the older one back (`refreshed` leaves such packages out). `Find` reads the map without the mutex.

## 10. Plan

1. `LaunchEvents` (done; its safety and its refinement are proved).
2. `PerfettoStreams` (done; its safety is proved).
3. `AsyncPool` (done).
4. `Database`, `TraceStore` (done; its safety is proved).
5. `Prefetch` (done; its safety is proved).
6. `InodeSearch`, `ResolverContract`, `InodeResolver` (done; its safety is proved).
7. `TraceCompiler`, `Compilation` (done; its safety is proved).
8. `PackageVersions` (done). Next: `TraceStore`'s map as an abstraction of it, with
   the refinement.

## 11. Not modelled, and why

- Of the binder service (`binder/iiorap_impl.cc`) the constructor and the start are in
  `PackageVersions`, and the calls that its one thread makes are actions of
  `LaunchEvents` and `TraceStore`. Left out are the listener, whose replies are dropped
  when there is none, the dump commands, and canned replies for the tests of the Java
  side. A job event of either type runs the whole maintenance, also `kStopJob`.
- The parcelables and protobufs: field by field, without state.
- The arguments of the command-line tools and of `iorapd/main.cc`, whose start-up order is
  in `PackageVersions`.
- Logging, tracing and introspection helpers.
