----------------------------- MODULE TraceStore -----------------------------
(***************************************************************************)
(* The traces iorapd keeps: rows of the database and files on disk.        *)
(* Launches add rows on a binder thread, traces are saved on the io        *)
(* thread, the worker thread runs the nightly maintenance (clean up, then  *)
(* compile), and requests on another binder thread purge or compile a      *)
(* package or follow a package change.  No two of them exclude each other: *)
(* a step is one statement, one file operation or one look at the map of   *)
(* versions; steps that only read before they decide are taken together.   *)
(***************************************************************************)
EXTENDS Database, Sequences

CONSTANTS
    Packages,            \* names of packages
    Activities,          \* names of activities
    Versions,            \* version codes, as 64 bit integers
    IntWidth,            \* bits of an int
    kPerfettoMaxTraces,  \* raw traces kept for a component
    MinTraces,           \* s_min_traces
    MaxEvents,           \* bound: launches, requests, package changes and restarts
    None                 \* std::nullopt

\* Of powers the provers only know that they are integers.
ASSUME StoreAssumption ==
    /\ Versions \subseteq Int
    /\ IntWidth \in Nat \ {0} /\ 2^IntWidth > 0
    /\ MaxEvents \in Nat
    /\ None \notin [id : Nat \ {0}, name : Packages, version : Int]

VARIABLES
    installed,        \* external: the version of each installed package
    changes,          \* external: events on their way to the package change observer
    package_manager,  \* package_manager_ is not null
    version_map,      \* version_map_
    files,            \* raw traces on disk: [component, launch]
    compiled,         \* compiled traces on disk: [component, writers, whole]
    launch,           \* the binder thread with launches
    pending,          \* traces with a history id, on their way to the io thread
    io,               \* the io thread
    thread,           \* the worker thread and the other binder thread
    events,           \* history: what came from outside so far, which also numbers launches
    forgotten,        \* history: launches whose app_launch_histories row was deleted
    overlapped,       \* history: packages both threads have worked on at once
    interrupted       \* history: files whose row was still there when the daemon died

disk == <<files, compiled>>
mapVars == <<package_manager, version_map>>
external == <<installed, changes>>
ghosts == <<forgotten, interrupted>>
history == <<events, ghosts>>
vars == <<database, disk, mapVars, external, launch, pending, io, thread, history, overlapped>>

Threads == {"worker", "binder"}

\* A 64 bit version code becomes an int wherever a row or a component takes it.
ToInt(version) == ((version + 2^(IntWidth - 1)) % 2^IntWidth) - 2^(IntWidth - 1)

Component(p, a, version) == [package |-> p, activity |-> a, version |-> ToInt(version)]

Components == [package : Packages, activity : Activities, version : Int]
RawFiles == [component : Components, launch : 0 .. MaxEvents]

NoLaunch == [pc |-> "none", number |-> 0, package |-> None, activity |-> None,
             trace |-> None, id |-> 0]
IoIdle == [pc |-> "idle", trace |-> None, rows |-> {}]
Idle == [job |-> "none", pc |-> "idle", packages |-> {}, package |-> None,
         activities |-> {}, rows |-> {}]

-----------------------------------------------------------------------------
(* Versions of packages *)

Unversioned == -1

\* What the package manager answers for a package, installed or not.
Answer(p) == IF installed[p] = None THEN Unversioned ELSE installed[p]

\* PackageVersionMap::Create: a map, no map, or not even a package manager.
CreatedMaps == {<<TRUE, installed>>, <<TRUE, None>>, <<FALSE, None>>}

\* GetOrQueryPackageVersion: the possible versions, each with the map it leaves.
GetOrQueryPackageVersion(p) ==
    IF version_map = None THEN {<<None, None>>}
    ELSE IF version_map[p] # None THEN {<<version_map[p], version_map>>}
    ELSE {<<Unversioned, version_map>>,
          <<Answer(p), [version_map EXCEPT ![p] = Answer(p)]>>}

\* PackageVersionMap::Update returns true: a new package or a new version.
IsNews(event) == version_map # None /\ version_map[event.package] # event.version

Event == events < MaxEvents /\ events' = events + 1

\* The package manager changes a package and tells the observer, which may be lost.
ChangePackage(p, version) ==
    /\ Event
    /\ installed' = [installed EXCEPT ![p] = version]
    /\ \/ changes' = Append(changes, [package |-> p, version |-> version])
       \/ UNCHANGED changes
    /\ UNCHANGED <<database, disk, mapVars, launch, pending, io, thread, ghosts, overlapped>>

-----------------------------------------------------------------------------
Init ==
    /\ EmptyDatabase
    /\ installed \in [Packages -> Versions \union {None}]
    /\ changes = <<>>
    /\ \E m \in CreatedMaps : package_manager = m[1] /\ version_map = m[2]
    /\ files = {} /\ compiled = {}
    /\ launch = NoLaunch
    /\ pending = {}
    /\ io = IoIdle
    /\ thread = [t \in Threads |-> Idle]
    /\ events = 0
    /\ forgotten = {} /\ overlapped = {} /\ interrupted = {}

-----------------------------------------------------------------------------
(* A launch: StartTracing, then RecordDbLaunchHistory *)

StartLaunch(p, a, traced) ==
    /\ launch.pc = "none"
    /\ Event
    /\ \E answer \in IF traced THEN GetOrQueryPackageVersion(p) ELSE {<<None, version_map>>} :
        /\ launch' = [pc |-> "started", number |-> events, package |-> p, activity |-> a, id |-> 0,
                      trace |-> IF answer[1] = None THEN None
                                ELSE Component(p, a, answer[1])]
        /\ version_map' = answer[2]
    /\ UNCHANGED <<database, disk, package_manager, external, pending, io, thread,
                   ghosts, overlapped>>

\* InsertDbLaunchHistory gives up when there is no version.
LookUpVersion ==
    /\ launch.pc = "started"
    /\ \E answer \in GetOrQueryPackageVersion(launch.package) :
        /\ launch' = IF answer[1] = None THEN NoLaunch
                     ELSE [launch EXCEPT !.pc = "version", !.id = ToInt(answer[1])]
        /\ version_map' = answer[2]
    /\ UNCHANGED <<database, disk, package_manager, external, pending, io, thread,
                   history, overlapped>>

\* ActivityModel::SelectOrInsert, its package.  Only this thread inserts packages,
\* so nothing happens between the SELECT and the INSERT.
SelectOrInsertPackage ==
    LET found == PackagesNamedVersion(launch.package, launch.id)
        new == NewPackage(launch.package, launch.id)
    IN  /\ launch.pc = "version"
        /\ \/ /\ \E row \in found : launch' = [launch EXCEPT !.pc = "package", !.id = row.id]
              /\ UNCHANGED packages
           \/ /\ found = {}
              /\ launch' = [launch EXCEPT !.pc = "package", !.id = new.id]
              /\ packages' = packages \union {new}
        /\ UNCHANGED <<activities, app_launch_histories, raw_traces, prefetch_files,
                       foreign_keys, disk, mapVars, external, pending, io, thread,
                       history, overlapped>>

\* ActivityModel::SelectOrInsert, its activity.
SelectOrInsertActivity ==
    LET found == ActivityNamed(launch.activity, launch.id)
        new == NewActivity(launch.activity, launch.id)
    IN  /\ launch.pc = "package"
        /\ \/ /\ \E row \in found : launch' = [launch EXCEPT !.pc = "activity", !.id = row.id]
              /\ UNCHANGED activities
           \/ /\ found = {}
              /\ Accepts(packages, launch.id)
              /\ launch' = [launch EXCEPT !.pc = "activity", !.id = new.id]
              /\ activities' = activities \union {new}
           \/ /\ found = {}
              /\ ~Accepts(packages, launch.id)
              /\ launch' = NoLaunch
              /\ UNCHANGED activities
        /\ UNCHANGED <<packages, app_launch_histories, raw_traces, prefetch_files,
                       foreign_keys, disk, mapVars, external, pending, io,
                       thread, history, overlapped>>

\* AppLaunchHistoryModel::Insert; the id goes to the trace, if there is one.
InsertHistory ==
    LET new == NewHistory(launch.id, launch.trace # None, launch.number)
    IN  /\ launch.pc = "activity"
        /\ \/ /\ Accepts(activities, launch.id)
              /\ app_launch_histories' = app_launch_histories \union {new}
              /\ pending' = IF launch.trace = None THEN pending
                            ELSE pending \union {[component |-> launch.trace,
                                                  launch |-> launch.number,
                                                  history_id |-> new.id]}
           \/ /\ ~Accepts(activities, launch.id)
              /\ UNCHANGED <<app_launch_histories, pending>>
        /\ launch' = NoLaunch
        /\ UNCHANGED <<packages, activities, raw_traces, prefetch_files, foreign_keys,
                       disk, mapVars, external, io, thread, history, overlapped>>

-----------------------------------------------------------------------------
(* The io thread saves a trace and deletes the oldest of the component *)

\* Mutant: a trace that was not written goes on to the database.
WriteTraceIgnoresFailure(t) ==
    /\ io.pc = "idle"
    /\ pending' = pending \ {t}
    /\ io' = [io EXCEPT !.pc = "written", !.trace = t]
    /\ \/ files' = files \union {[component |-> t.component, launch |-> t.launch]}
       \/ UNCHANGED files
    /\ UNCHANGED <<database, compiled, mapVars, external, launch, thread, history, overlapped>>

\* The trace, or nothing if it cannot be written, perfetto fails or the launch is
\* given up.
WriteTrace(t) ==
    /\ io.pc = "idle"
    /\ pending' = pending \ {t}
    /\ \/ /\ files' = files \union {[component |-> t.component, launch |-> t.launch]}
          /\ io' = [io EXCEPT !.pc = "written", !.trace = t]
       \/ UNCHANGED <<files, io>>
    /\ UNCHANGED <<database, compiled, mapVars, external, launch, thread, history, overlapped>>

\* Mutant: the row of the latest launch instead of the one the trace was started in.
InsertRawTraceOfLatest ==
    LET file == [component |-> io.trace.component, launch |-> io.trace.launch]
        id == Max(Ids(app_launch_histories) \union {0})
    IN  /\ io.pc = "written"
        /\ io' = [io EXCEPT !.pc = "inserted"]
        /\ raw_traces' = raw_traces \union {NewRawTrace(id, file)}
        /\ UNCHANGED <<packages, activities, app_launch_histories, prefetch_files,
                       foreign_keys, disk, mapVars, external, launch, pending,
                       thread, history, overlapped>>

InsertRawTrace ==
    LET file == [component |-> io.trace.component, launch |-> io.trace.launch]
        id == io.trace.history_id
    IN  /\ io.pc = "written"
        /\ \/ /\ Accepts(app_launch_histories, id)
              /\ raw_traces' = raw_traces \union {NewRawTrace(id, file)}
              /\ io' = [io EXCEPT !.pc = "inserted"]
           \/ /\ ~Accepts(app_launch_histories, id)
              /\ io' = IoIdle
              /\ UNCHANGED raw_traces
        /\ UNCHANGED <<packages, activities, app_launch_histories, prefetch_files,
                       foreign_keys, disk, mapVars, external, launch, pending,
                       thread, history, overlapped>>

\* Rows beyond the limit, the oldest first: DeleteOlderFiles works on this list.
Oldest(rows) ==
    {t \in rows : Cardinality({u \in rows : u.id > t.id}) >= kPerfettoMaxTraces}

SelectOlder ==
    LET older == Oldest(RawTracesOf(io.trace.component))
    IN  /\ io.pc = "inserted"
        /\ io' = IF older = {} THEN IoIdle ELSE [io EXCEPT !.pc = "pruning", !.rows = older]
        /\ UNCHANGED <<database, disk, mapVars, external, launch, pending, thread,
                       history, overlapped>>

\* Mutant: one round more than there are rows.
IoAfterOneMore(rows) ==
    IF rows = {} THEN IoIdle
    ELSE [io EXCEPT !.pc = "pruning", !.rows = rows \ {First(rows)}]

\* The list without its first row; nothing is left to do after the last.
IoAfter(rows) ==
    IF rows \ {First(rows)} = {} THEN IoIdle
    ELSE [io EXCEPT !.pc = "pruning", !.rows = rows \ {First(rows)}]

RemoveOlder ==
    /\ io.pc = "pruning"
    /\ \/ /\ files' = files \ {First(io.rows).file_path}
          /\ io' = [io EXCEPT !.pc = "removed"]
       \/ /\ io' = IoAfter(io.rows)
          /\ UNCHANGED files
    /\ UNCHANGED <<database, compiled, mapVars, external, launch, pending, thread,
                   history, overlapped>>

DeleteOlder ==
    /\ io.pc = "removed"
    /\ raw_traces' = Delete(raw_traces, First(io.rows).id)
    /\ io' = IoAfter(io.rows)
    /\ UNCHANGED <<packages, activities, app_launch_histories, prefetch_files, foreign_keys,
                   disk, mapVars, external, launch, pending, thread, history, overlapped>>

-----------------------------------------------------------------------------
(* Clean-up: CleanUpFilesForPackage and CleanUpFilesForActivity *)

Set(t, state) == thread' = [thread EXCEPT ![t] = state]

CurrentPackage(t) == First(thread[t].packages)
CurrentActivity(t) == First(thread[t].activities)
CurrentRow(t) == First(thread[t].rows)

\* The component a thread works on.
Current(t) ==
    [package |-> thread[t].package.name, activity |-> CurrentActivity(t).name,
     version |-> thread[t].package.version]

DropPackage(t) ==
    [thread[t] EXCEPT !.pc = "packages", !.packages = @ \ {CurrentPackage(t)},
                      !.package = None, !.activities = {}, !.rows = {}]
DropActivity(t, pc) ==
    [thread[t] EXCEPT !.pc = pc, !.activities = @ \ {CurrentActivity(t)}, !.rows = {}]

\* PurgePackage, for the dex-opt event or the shell.
Purge(p) ==
    /\ Event
    /\ thread["binder"].pc = "idle"
    /\ Set("binder", [Idle EXCEPT !.job = "purge", !.pc = "packages",
                                  !.packages = PackagesNamed(p)])
    /\ UNCHANGED <<database, disk, mapVars, external, launch, pending, io, ghosts>>

\* OnPackageChanged: a deleted package is left to the maintenance, and one with a
\* new version is only noted; the same version again is cleaned up.
OnPackageChanged ==
    LET event == Head(changes)
        rows == PackagesNamedVersion(event.package, ToInt(event.version))
    IN  /\ thread["binder"].pc = "idle"
        /\ changes # <<>>
        /\ changes' = Tail(changes)
        /\ \/ /\ event.version = None
              /\ UNCHANGED <<version_map, thread>>
           \/ /\ event.version # None
              /\ IsNews(event)
              /\ version_map' = [version_map EXCEPT ![event.package] = event.version]
              /\ UNCHANGED thread
           \/ /\ event.version # None
              /\ ~IsNews(event)
              /\ \E found \in LimitOne(rows) :
                    Set("binder", [Idle EXCEPT !.job = "purge", !.pc = "packages",
                                               !.packages = found])
              /\ UNCHANGED version_map
        /\ UNCHANGED <<database, disk, package_manager, installed, launch,
                       pending, io, history>>

\* Mutant: only a version above the one in the map is obsolete.
CleanPackageAbove(t) ==
    LET package == CurrentPackage(t)
        state == thread[t]
    IN  /\ state.pc = "packages"
        /\ state.packages # {}
        /\ \/ /\ \/ state.job = "purge"
                 \/ /\ state.job = "maintenance"
                    /\ version_map[package.name] # None
                    /\ version_map[package.name] < package.version
              /\ Set(t, [state EXCEPT !.pc = "activities", !.package = package,
                                      !.activities = ActivitiesOf(package.id)])
           \/ /\ state.job = "maintenance"
              /\ version_map[package.name] # None => version_map[package.name] >= package.version
              /\ Set(t, DropPackage(t))
        /\ UNCHANGED <<database, disk, mapVars, external, launch, pending, io, history>>

\* The next package of a purge, or of CleanUpDatabase: that one takes packages
\* whose version is not that of the map, and skips those the map does not know.
CleanPackage(t) ==
    LET package == CurrentPackage(t)
        state == thread[t]
    IN  /\ state.pc = "packages"
        /\ state.packages # {}
        /\ \/ /\ \/ state.job = "purge"
                 \/ /\ state.job = "maintenance"
                    /\ version_map[package.name] # None
                    /\ version_map[package.name] # package.version
              /\ Set(t, [state EXCEPT !.pc = "activities", !.package = package,
                                      !.activities = ActivitiesOf(package.id)])
           \/ /\ state.job = "maintenance"
              /\ version_map[package.name] \in {None, package.version}
              /\ Set(t, DropPackage(t))
        /\ UNCHANGED <<database, disk, mapVars, external, launch, pending, io, history>>

SelectRawTraces(t) ==
    /\ thread[t].pc = "activities"
    /\ thread[t].activities # {}
    /\ Set(t, [thread[t] EXCEPT !.pc = "raw_traces", !.rows = RawTracesOf(Current(t))])
    /\ UNCHANGED <<database, disk, mapVars, external, launch, pending, io, history>>

RemoveRawTrace(t) ==
    /\ thread[t].pc = "raw_traces"
    /\ thread[t].rows # {}
    /\ files' = files \ {CurrentRow(t).file_path}
    /\ Set(t, [thread[t] EXCEPT !.pc = "raw_removed"])
    /\ UNCHANGED <<database, compiled, mapVars, external, launch, pending, io, history>>

DeleteRawTrace(t) ==
    /\ thread[t].pc = "raw_removed"
    /\ raw_traces' = Delete(raw_traces, CurrentRow(t).id)
    /\ Set(t, [thread[t] EXCEPT !.pc = "raw_traces", !.rows = @ \ {CurrentRow(t)}])
    /\ UNCHANGED <<packages, activities, app_launch_histories, prefetch_files, foreign_keys,
                   disk, mapVars, external, launch, pending, io, history>>

SelectPrefetchFile(t) ==
    /\ thread[t].pc = "raw_traces"
    /\ thread[t].rows = {}
    /\ \E found \in LimitOne(PrefetchFilesOf(Current(t))) :
          Set(t, IF found = {} THEN DropActivity(t, "activities")
                 ELSE [thread[t] EXCEPT !.pc = "prefetch_file", !.rows = found])
    /\ UNCHANGED <<database, disk, mapVars, external, launch, pending, io, history>>

RemovePrefetchFile(t) ==
    /\ thread[t].pc = "prefetch_file"
    /\ compiled' = {f \in compiled : f.component # CurrentRow(t).file_path}
    /\ Set(t, [thread[t] EXCEPT !.pc = "prefetch_removed"])
    /\ UNCHANGED <<database, files, mapVars, external, launch, pending, io, history>>

DeletePrefetchFile(t) ==
    /\ thread[t].pc = "prefetch_removed"
    /\ prefetch_files' = Delete(prefetch_files, CurrentRow(t).id)
    /\ Set(t, DropActivity(t, "activities"))
    /\ UNCHANGED <<packages, activities, app_launch_histories, raw_traces, foreign_keys,
                   disk, mapVars, external, launch, pending, io, history>>

\* A package is done: a purge keeps its row, CleanUpDatabase deletes it.
FinishPackage(t) ==
    /\ thread[t].pc = "activities"
    /\ thread[t].activities = {}
    /\ \/ /\ thread[t].job = "purge"
          /\ UNCHANGED <<database, forgotten>>
       \/ /\ thread[t].job = "maintenance"
          /\ DeletePackage(thread[t].package.id)
          /\ forgotten' =
                forgotten \union {h.launch : h \in CascadedHistories(thread[t].package.id)}
    /\ Set(t, DropPackage(t))
    /\ UNCHANGED <<disk, mapVars, external, launch, pending, io, events, interrupted>>

CleanUp(t) ==
    \/ CleanPackage(t) \/ SelectRawTraces(t) \/ RemoveRawTrace(t) \/ DeleteRawTrace(t)
    \/ SelectPrefetchFile(t) \/ RemovePrefetchFile(t) \/ DeletePrefetchFile(t)
    \/ FinishPackage(t)

-----------------------------------------------------------------------------
(* Maintenance: StartMaintenance and CleanUpDatabase, on the worker thread *)

StartMaintenance ==
    /\ thread["worker"].pc = "idle"
    /\ Set("worker", [Idle EXCEPT !.job = "maintenance", !.pc = "update"])
    /\ UNCHANGED <<database, disk, mapVars, external, launch, pending, io, history>>

\* Without a map UpdateAll reads the size of an empty optional: it may go on, or crash
\* as it does without a package manager (CrashWithoutMap).
UpdateAll(map) ==
    /\ thread["worker"].pc = "update"
    /\ package_manager
    /\ version_map' = map
    /\ Set("worker", [thread["worker"] EXCEPT !.pc = "select"])
    /\ UNCHANGED <<database, disk, package_manager, external, launch, pending, io, history>>

UpdateAllSucceeds == UpdateAll(installed)
UpdateAllFails == UpdateAll(version_map)

\* Mutant: without the PRAGMA, SQLite ignores the REFERENCES clauses.
SelectPackagesOnly ==
    /\ thread["worker"].pc = "select"
    /\ version_map # None \/ packages = {}
    /\ Set("worker", [thread["worker"] EXCEPT !.pc = "packages", !.packages = packages])
    /\ UNCHANGED <<database, disk, mapVars, external, launch, pending, io, history>>

\* CleanUpDatabase selects all packages and turns the foreign keys on.
SelectPackages ==
    /\ thread["worker"].pc = "select"
    /\ version_map # None \/ packages = {}
    /\ foreign_keys' = TRUE
    /\ Set("worker", [thread["worker"] EXCEPT !.pc = "packages", !.packages = packages])
    /\ UNCHANGED <<tables, disk, mapVars, external, launch, pending, io, history>>

\* When a list of packages is done, the maintenance compiles; the others end.
FinishPackages(t) ==
    /\ thread[t].pc = "packages"
    /\ thread[t].packages = {}
    /\ Set(t, IF thread[t].job = "maintenance"
              THEN [Idle EXCEPT !.job = "compile", !.pc = "packages", !.packages = packages]
              ELSE Idle)
    /\ UNCHANGED <<database, disk, mapVars, external, launch, pending, io, history>>

-----------------------------------------------------------------------------
(* Compilation: CompilePackage and CompileActivity, with the forked compiler *)

\* CompileSingleAppOnDevice, for the shell.
Compile(p) ==
    /\ Event
    /\ thread["binder"].pc = "idle"
    /\ Set("binder", [Idle EXCEPT !.job = "compile", !.pc = "packages",
                                  !.packages = PackagesNamed(p)])
    /\ UNCHANGED <<database, disk, mapVars, external, launch, pending, io, ghosts>>

\* CompilePackage looks the package up again, and its activities.
CompilePackage(t) ==
    LET found == PackagesNamedVersion(CurrentPackage(t).name, CurrentPackage(t).version)
    IN  /\ thread[t].job = "compile"
        /\ thread[t].pc = "packages"
        /\ thread[t].packages # {}
        /\ \/ /\ found = {}
              /\ Set(t, DropPackage(t))
           \/ \E package \in found :
                 Set(t, [thread[t] EXCEPT !.pc = "compile", !.package = package,
                                          !.activities = ActivitiesOf(package.id)])
        /\ UNCHANGED <<database, disk, mapVars, external, launch, pending, io, history>>

FileOf(vcn) == {f \in compiled : f.component = vcn}

\* A compiled trace that has its file and its row is kept.
CheckCompiled(t) ==
    /\ thread[t].pc = "compile"
    /\ thread[t].activities # {}
    /\ Set(t, IF FileOf(Current(t)) # {} /\ PrefetchFilesOf(Current(t)) # {}
              THEN DropActivity(t, "compile")
              ELSE [thread[t] EXCEPT !.pc = "traces"])
    /\ UNCHANGED <<database, disk, mapVars, external, launch, pending, io, history>>

\* GetPerfettoTraceInfo: the first raw trace of every history that has one.
Inputs(activity_id) ==
    {h \in HistoriesForCompile(activity_id) : \E t \in raw_traces : t.history_id = h.id}

\* The activity, its histories and their traces are read together: what is read
\* only decides whether there is enough to compile.
SelectTraces(t) ==
    /\ thread[t].pc = "traces"
    /\ \E found \in LimitOne(ActivityNamed(CurrentActivity(t).name, thread[t].package.id)) :
          Set(t, IF \E row \in found : Cardinality(Inputs(row.id)) >= MinTraces
                 THEN [thread[t] EXCEPT !.pc = "forked", !.rows = found]
                 ELSE DropActivity(t, "compile"))
    /\ UNCHANGED <<database, disk, mapVars, external, launch, pending, io, history>>

\* The compiler opens its output (O_CREAT | O_TRUNC), ...
OpenOutput(t) ==
    LET writers == UNION {f.writers : f \in FileOf(Current(t))}
        file == [component |-> Current(t), writers |-> writers \union {t}, whole |-> FALSE]
    IN  /\ thread[t].pc = "forked"
        /\ compiled' = (compiled \ FileOf(Current(t))) \union {file}
        /\ Set(t, [thread[t] EXCEPT !.pc = "writing"])
        /\ UNCHANGED <<database, files, mapVars, external, launch, pending, io, history>>

\* ... and closes it, unless the file was removed in between.
Close(t, whole) ==
    compiled' = {IF t \in f.writers THEN [f EXCEPT !.writers = @ \ {t}, !.whole = whole] ELSE f :
                    f \in compiled}

CompilerSucceeds(t) ==
    /\ thread[t].pc = "writing"
    /\ Close(t, TRUE)
    /\ Set(t, [thread[t] EXCEPT !.pc = "insert"])
    /\ UNCHANGED <<database, files, mapVars, external, launch, pending, io, history>>

\* Mutant: a compiler that was killed counts as one that succeeded.
CompilerFailsUnnoticed(t) ==
    /\ thread[t].pc \in {"forked", "writing"}
    /\ Close(t, FALSE)
    /\ Set(t, [thread[t] EXCEPT !.pc = "insert"])
    /\ UNCHANGED <<database, files, mapVars, external, launch, pending, io, history>>

\* It fails, or the watchdog kills it, before or while it writes.
CompilerFails(t) ==
    /\ thread[t].pc \in {"forked", "writing"}
    /\ Close(t, FALSE)
    /\ Set(t, DropActivity(t, "compile"))
    /\ UNCHANGED <<database, files, mapVars, external, launch, pending, io, history>>

InsertPrefetchFile(t) ==
    /\ thread[t].pc = "insert"
    /\ \E row \in thread[t].rows :
       \/ /\ Accepts(activities, row.id)
          /\ prefetch_files' = prefetch_files \union {NewPrefetchFile(row.id, Current(t))}
       \/ /\ ~Accepts(activities, row.id)
          /\ UNCHANGED prefetch_files
    /\ Set(t, DropActivity(t, "compile"))
    /\ UNCHANGED <<packages, activities, app_launch_histories, raw_traces, foreign_keys,
                   disk, mapVars, external, launch, pending, io, history>>

FinishCompilePackage(t) ==
    /\ thread[t].pc = "compile"
    /\ thread[t].activities = {}
    /\ Set(t, DropPackage(t))
    /\ UNCHANGED <<database, disk, mapVars, external, launch, pending, io, history>>

CompileStep(t) ==
    \/ CompilePackage(t) \/ CheckCompiled(t) \/ SelectTraces(t) \/ OpenOutput(t)
    \/ CompilerSucceeds(t) \/ CompilerFails(t) \/ InsertPrefetchFile(t)
    \/ FinishCompilePackage(t)

-----------------------------------------------------------------------------
(* The daemon dies and is started again *)

\* The package (name and version) a thread works on.
InHand(t) ==
    IF thread[t].package = None THEN {}
    ELSE {[package |-> thread[t].package.name, version |-> thread[t].package.version]}

\* Rows whose file is removed while they are about to be.
Going ==
    (UNION {{CurrentRow(t)} :
                t \in {u \in Threads : thread[u].pc \in {"raw_removed", "prefetch_removed"}}})
    \union (IF io.pc = "removed" THEN {First(io.rows)} ELSE {})

\* The threads and the compilers they forked are gone; rows and files are not.
Die ==
    /\ foreign_keys' = FALSE
    /\ changes' = <<>>
    /\ \E m \in CreatedMaps : package_manager' = m[1] /\ version_map' = m[2]
    /\ launch' = NoLaunch
    /\ pending' = {}
    /\ io' = IoIdle
    /\ thread' = [t \in Threads |-> Idle]
    /\ interrupted' = interrupted \union {row.file_path : row \in Going}
    /\ UNCHANGED <<installed, forgotten, overlapped>>

\* A file that was open when its compiler died stays as it was then.
Abandoned(outputs) ==
    {[f EXCEPT !.writers = {}, !.whole = @ /\ f.writers = {}] : f \in outputs}

Reopen ==
    /\ compiled' = Abandoned(compiled)
    /\ UNCHANGED <<tables, files>>

Crash ==
    /\ Event
    /\ Die
    /\ Reopen

\* UpdateAll and Find go through pointers that Create left null or empty.
CrashWithoutMap ==
    /\ \/ thread["worker"].pc = "update" /\ (~package_manager \/ version_map = None)
       \/ thread["worker"].pc = "select" /\ version_map = None /\ packages # {}
    /\ Die
    /\ Reopen
    /\ UNCHANGED events

\* The files that CleanUpFilesForDb removes.
RowFiles == {t.file_path : t \in raw_traces}
RowCompiled == {f.file_path : f \in prefetch_files}

\* The daemon is updated and its schema version is another one: CleanUpFilesForDb,
\* then the tables are dropped and created.  Nothing else runs yet.
Upgrade ==
    /\ Event
    /\ Die
    /\ packages' = {} /\ activities' = {} /\ app_launch_histories' = {}
    /\ raw_traces' = {} /\ prefetch_files' = {}
    /\ files' = files \ RowFiles
    /\ compiled' = Abandoned({f \in compiled : f.component \notin RowCompiled})

-----------------------------------------------------------------------------
LaunchStep ==
    \/ \E p \in Packages, a \in Activities, traced \in BOOLEAN : StartLaunch(p, a, traced)
    \/ LookUpVersion \/ SelectOrInsertPackage \/ SelectOrInsertActivity \/ InsertHistory

IoStep ==
    \/ \E t \in pending : WriteTrace(t)
    \/ InsertRawTrace \/ SelectOlder \/ RemoveOlder \/ DeleteOlder

Request == \E p \in Packages : Purge(p) \/ Compile(p)

Maintenance ==
    StartMaintenance \/ UpdateAllSucceeds \/ UpdateAllFails \/ SelectPackages

Work(t) == CleanUp(t) \/ CompileStep(t) \/ FinishPackages(t)

\* A step of one of the two threads, and whether they work on one package now.
Watched(Step) ==
    /\ Step
    /\ overlapped' = overlapped \union (InHand("worker") \intersect InHand("binder"))'

ThreadStep ==
    \/ Watched(Request)
    \/ Watched(OnPackageChanged)
    \/ Watched(Maintenance)
    \/ \E t \in Threads : Watched(Work(t))

Next ==
    \/ LaunchStep
    \/ IoStep
    \/ ThreadStep
    \/ \E p \in Packages, v \in Versions \union {None} : ChangePackage(p, v)
    \/ Crash \/ CrashWithoutMap \/ Upgrade

Spec == Init /\ [][Next]_vars

\* The job scheduler starts the maintenance again and again, the worker thread runs,
\* and the package manager is not down whenever it is asked.
Fairness ==
    /\ WF_vars(Watched(Maintenance \/ Work("worker")))
    /\ SF_vars(Watched(UpdateAllSucceeds))
    /\ SF_vars(CrashWithoutMap /\ version_map' # None)

FairSpec == Spec /\ Fairness

-----------------------------------------------------------------------------
(* Properties *)

\* Rows, files and threads are of their types, ids are primary keys, and a thread
\* holds a package, activities and rows exactly while it is at a step that uses them.
TypeOK ==
    /\ packages \subseteq [id : Nat \ {0}, name : Packages, version : Int]
    /\ activities \subseteq [id : Nat \ {0}, name : Activities, package_id : Nat \ {0}]
    /\ app_launch_histories \subseteq
          [id : Nat \ {0}, activity_id : Nat \ {0}, traced : BOOLEAN, launch : 0 .. MaxEvents]
    /\ raw_traces \subseteq [id : Nat \ {0}, history_id : Nat \ {0}, file_path : RawFiles]
    /\ prefetch_files \subseteq [id : Nat \ {0}, activity_id : Nat \ {0}, file_path : Components]
    /\ \A table \in {packages, activities, app_launch_histories, raw_traces, prefetch_files} :
          Cardinality(Ids(table)) = Cardinality(table)
    /\ foreign_keys \in BOOLEAN
    /\ files \subseteq RawFiles
    /\ compiled \subseteq [component : Components, writers : SUBSET Threads, whole : BOOLEAN]
    /\ installed \in [Packages -> Versions \union {None}]
    /\ package_manager \in BOOLEAN
    /\ version_map # None => version_map \in [Packages -> Versions \union {None, Unversioned}]
    /\ io.rows # {} <=> io.pc \in {"pruning", "removed"}
    /\ \A t \in Threads :
          /\ thread[t].job \in {"none", "purge", "maintenance", "compile"}
          /\ thread[t].package = None <=> thread[t].pc \in {"idle", "update", "select", "packages"}
          /\ thread[t].pc \in {"raw_removed", "prefetch_file", "prefetch_removed",
                               "forked", "writing", "insert"} => thread[t].rows # {}
    /\ events \in 0 .. MaxEvents

(* The invariant behind Integrity.  While foreign keys are not enforced, no row is   *)
(* deleted under an id that somebody holds for a row to come, because the clean-up  *)
(* that deletes packages turns them on first; afterwards SQLite refuses such rows.  *)

\* Records keep their fields.
HasFields(record, fields) == record = [f \in fields |-> record[f]]

LaunchFields == {"pc", "number", "package", "activity", "trace", "id"}
IoFields == {"pc", "trace", "rows"}
ThreadFields == {"job", "pc", "packages", "package", "activities", "rows"}

Shape ==
    /\ foreign_keys \in BOOLEAN
    /\ HasFields(launch, LaunchFields)
    /\ HasFields(io, IoFields)
    /\ thread = [t \in Threads |-> thread[t]]
    /\ \A t \in Threads : HasFields(thread[t], ThreadFields)

HeldByLaunch ==
    /\ launch.pc = "package" => launch.id \in Ids(packages)
    /\ launch.pc = "activity" => launch.id \in Ids(activities)

HeldByTraces ==
    /\ \A t \in pending : t.history_id \in Ids(app_launch_histories)
    /\ io.pc = "written" => io.trace.history_id \in Ids(app_launch_histories)

HeldByCompilers ==
    \A t \in Threads : thread[t].pc \in {"forked", "writing", "insert"} =>
       \A row \in thread[t].rows : row.id \in Ids(activities)

CleanUpCascades ==
    \A t \in Threads :
       thread[t].job = "maintenance" /\ thread[t].pc \notin {"update", "select"} => foreign_keys

\* Every held id names a row until foreign keys are enforced, and every parent is there.
IInv ==
    /\ Shape
    /\ Integrity
    /\ ~foreign_keys => HeldByLaunch /\ HeldByTraces /\ HeldByCompilers
    /\ CleanUpCascades

Overlapped(vcn) == [package |-> vcn.package, version |-> vcn.version] \in overlapped

\* A raw trace in the database can be compiled: its file is on disk, whoever removes
\* old traces meanwhile, unless the daemon died between a file and its row.
RawTraceHasFile ==
    \A t \in raw_traces :
       t.file_path \in files \/ t \in Going \/ t.file_path \in interrupted

\* A raw trace names the history row of the launch it was recorded in.  Ids come back:
\* when a clean-up deleted that row while the trace waited, its id can be that of a
\* later launch by the time the trace is inserted, but never that of an earlier one.
RawTraceOfItsLaunch ==
    \A t \in raw_traces, h \in app_launch_histories :
       t.history_id = h.id =>
          /\ h.launch >= t.file_path.launch
          /\ t.file_path.launch \notin forgotten => h.launch = t.file_path.launch

\* GetCompiledTrace only ever gives a launch a whole file compiled for its component:
\* the row is inserted after the compiler succeeded and goes with the file.  Two
\* threads on one version of a package (overlapped), or a crash (interrupted), can
\* break it: this is about all other components.
CompiledTraceIsWhole ==
    \A f \in prefetch_files, file \in compiled :
       /\ f.file_path = file.component
       /\ ~Overlapped(file.component) /\ file.component \notin interrupted
       => /\ file.whole /\ file.writers = {}
          /\ f \in PrefetchFilesOf(file.component)

HasRow(p, v) == \E row \in packages : row.name = p /\ row.version = ToInt(v)

\* "has an different version with the latest one": rows of a version that is not the
\* installed one are removed by a maintenance.
UpdatedRemoved ==
    \A p \in Packages, v \in Versions :
       HasRow(p, v) /\ installed[p] \notin {None, v} ~>
          ~HasRow(p, v) \/ installed[p] \in {None, v}

\* "The package will be removed from db during maintenance": so are the rows of a
\* package that was uninstalled.
UninstalledRemoved ==
    \A p \in Packages, v \in Versions :
       HasRow(p, v) /\ installed[p] = None ~> ~HasRow(p, v) \/ installed[p] # None
=============================================================================
