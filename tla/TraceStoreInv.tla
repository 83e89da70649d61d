---------------------------- MODULE TraceStoreInv ----------------------------
(***************************************************************************)
(* The inductive invariants behind what TraceStore promises: the types     *)
(* (Typed), whose a raw trace is (Recorded) and what a compiled trace is   *)
(* (Compiled).  Each builds on the ones before it.                         *)
(***************************************************************************)
EXTENDS TraceStore

PackageRows == [id : Nat \ {0}, name : Packages, version : Int]
ActivityRows == [id : Nat \ {0}, name : Activities, package_id : Nat \ {0}]
HistoryRows ==
    [id : Nat \ {0}, activity_id : Nat \ {0}, traced : BOOLEAN, launch : 0 .. MaxEvents]
RawRows == [id : Nat \ {0}, history_id : Nat \ {0}, file_path : RawFiles]
PrefetchRows == [id : Nat \ {0}, activity_id : Nat \ {0}, file_path : Components]
Traces == [component : Components, launch : 0 .. MaxEvents, history_id : Nat \ {0}]

Outputs == [component : Components, writers : SUBSET Threads, whole : BOOLEAN]

MaybeVersion == Versions \union {None}

\* The id is a primary key.
Keyed(table) ==
    /\ IsFiniteSet(Ids(table))
    /\ \A r, s \in table : r.id = s.id => r = s

TypedTables ==
    /\ packages \subseteq PackageRows /\ Keyed(packages)
    /\ activities \subseteq ActivityRows /\ Keyed(activities)
    /\ app_launch_histories \subseteq HistoryRows /\ Keyed(app_launch_histories)
    /\ raw_traces \subseteq RawRows /\ Keyed(raw_traces)
    /\ prefetch_files \subseteq PrefetchRows /\ Keyed(prefetch_files)
    /\ foreign_keys \in BOOLEAN

TypedWorld ==
    /\ files \subseteq RawFiles
    /\ compiled \subseteq Outputs
    /\ installed \in [Packages -> MaybeVersion]
    /\ changes \in Seq([package : Packages, version : MaybeVersion])
    /\ package_manager \in BOOLEAN
    /\ version_map = None \/ version_map \in [Packages -> MaybeVersion \union {Unversioned}]
    /\ events \in 0 .. MaxEvents

LaunchStates ==
    [pc : {"started", "version", "package", "activity"}, number : 0 .. MaxEvents,
     package : Packages, activity : Activities, trace : Components \union {None}, id : Int]

TypedLaunch ==
    \/ launch = NoLaunch
    \/ /\ launch \in LaunchStates
       /\ launch.pc \in {"package", "activity"} => launch.id \in Nat \ {0}

IoStates ==
    [pc : {"idle", "written", "inserted", "pruning", "removed"},
     trace : Traces \union {None}, rows : SUBSET RawRows]

TypedIo ==
    /\ pending \subseteq Traces
    /\ io \in IoStates
    /\ io.pc # "idle" => io.trace \in Traces
    /\ io.rows # {} <=> io.pc \in {"pruning", "removed"}

\* The steps of a clean-up, of a compilation, and those with an activity in hand.
CleaningRaw == {"raw_traces", "raw_removed"}
CleaningPrefetch == {"prefetch_file", "prefetch_removed"}
Compiling == {"forked", "writing", "insert"}
OnActivity == CleaningRaw \union CleaningPrefetch \union Compiling \union {"traces"}
OnPackage == OnActivity \union {"activities", "compile"}

\* The rows a thread may hold at a step.
RowsAt(pc) ==
    IF pc \in CleaningRaw THEN RawRows
    ELSE IF pc \in CleaningPrefetch THEN PrefetchRows
    ELSE IF pc \in Compiling THEN ActivityRows ELSE {}

ThreadStates ==
    [job : {"none", "purge", "maintenance", "compile"},
     pc : OnPackage \union {"idle", "update", "select", "packages"},
     packages : SUBSET PackageRows, package : PackageRows \union {None},
     activities : SUBSET ActivityRows,
     rows : SUBSET (RawRows \union PrefetchRows \union ActivityRows)]

TypedThread(state) ==
    /\ state \in ThreadStates
    /\ state.rows \subseteq RowsAt(state.pc)
    /\ state.pc \in OnPackage => state.package \in PackageRows
    /\ state.pc \notin OnPackage => state.package = None
    /\ state.pc \in OnActivity => state.activities # {}
    /\ state.pc \in {"raw_removed"} \union CleaningPrefetch \union Compiling => state.rows # {}

TypedThreads ==
    /\ thread = [t \in Threads |-> thread[t]]
    /\ \A t \in Threads : TypedThread(thread[t])

Typed == TypedTables /\ TypedWorld /\ TypedLaunch /\ TypedIo /\ TypedThreads

-----------------------------------------------------------------------------
(* A launch has a number of its own.  Its trace is in one place: with the launch,   *)
(* on its way to the io thread, written, or in one row that threads may hold too.   *)

\* Rows of raw_traces that the io thread or another took from a SELECT.
Taken ==
    io.rows \union UNION {thread[t].rows : t \in {u \in Threads : thread[u].pc \in CleaningRaw}}

\* No row is about this launch.
Unrecorded(number) ==
    /\ number < events
    /\ \A r \in raw_traces \union Taken : r.file_path.launch # number

OneRow ==
    /\ \A r \in raw_traces \union Taken : r.file_path.launch < events
    /\ \A r \in raw_traces, s \in raw_traces \union Taken :
          r.file_path.launch = s.file_path.launch => r = s

OnePlace ==
    /\ launch.pc # "none" =>
          /\ Unrecorded(launch.number)
          /\ \A p \in pending : p.launch # launch.number
          /\ io.pc = "written" => io.trace.launch # launch.number
    /\ \A p \in pending :
          /\ Unrecorded(p.launch)
          /\ io.pc = "written" => io.trace.launch # p.launch
    /\ \A p, q \in pending : p.launch = q.launch => p = q
    /\ io.pc = "written" =>
          /\ Unrecorded(io.trace.launch)
          /\ [component |-> io.trace.component, launch |-> io.trace.launch] \in files

\* Rows of raw_traces whose file was just removed.
GoingRaw ==
    (UNION {{CurrentRow(t)} : t \in {u \in Threads : thread[u].pc = "raw_removed"}})
    \union (IF io.pc = "removed" THEN {First(io.rows)} ELSE {})

HasFile ==
    \A t \in raw_traces :
       t.file_path \in files \/ t \in GoingRaw \/ t.file_path \in interrupted

\* The row of a launch, unless it was deleted; the id may since name a later launch.
RowOf(history_id, number) ==
    /\ \/ number \in forgotten
       \/ \E h \in app_launch_histories : h.id = history_id /\ h.launch = number
    /\ \A h \in app_launch_histories : h.id = history_id => h.launch >= number

OfItsLaunch ==
    /\ \A p \in pending : RowOf(p.history_id, p.launch)
    /\ io.pc = "written" => RowOf(io.trace.history_id, io.trace.launch)
    /\ \A t \in raw_traces : RowOf(t.history_id, t.file_path.launch)

\* The launch that is going on is the latest one.
Latest ==
    launch.pc # "none" =>
       /\ \A p \in pending : p.launch < launch.number
       /\ io.pc = "written" => io.trace.launch < launch.number
       /\ \A t \in raw_traces : t.file_path.launch < launch.number

Recorded == OneRow /\ OnePlace /\ HasFile /\ OfItsLaunch /\ Latest

-----------------------------------------------------------------------------
(* Only the maintenance deletes packages, so what the worker took from the table is *)
(* still there; what the binder thread took is too, or both took it at once.        *)

\* A component that two threads worked on at once, or that a crash left behind.
Clean(vcn) == ~Overlapped(vcn) /\ vcn \notin interrupted

\* The row of an activity is one of the component.
Joined(activity_id, vcn) == activity_id \in Ids(RowsOf(vcn))

\* The steps that compile, and those of them that have found no compiled trace.
OnCompilation == Compiling \union {"compile", "traces"}
Uncompiled == Compiling \union {"traces"}

PackagesInHand ==
    /\ InHand("worker") \intersect InHand("binder") \subseteq overlapped
    /\ thread["binder"].job # "maintenance"
    /\ thread["worker"].packages \subseteq packages
    /\ thread["worker"].job = "maintenance" /\ thread["worker"].package # None =>
          /\ thread["worker"].package = CurrentPackage("worker")
          /\ thread["worker"].packages # {}
    /\ \A t \in Threads : thread[t].pc \in OnCompilation =>
          thread[t].job = "compile" /\ (thread[t].package \in packages \/ InHand(t) \subseteq overlapped)

\* The rows of prefetch_files are joined with their component, one for each.
RowsJoined ==
    /\ \A f \in prefetch_files : ~Overlapped(f.file_path) => Joined(f.activity_id, f.file_path)
    /\ \A f, g \in prefetch_files :
          f.file_path = g.file_path /\ Clean(f.file_path) => f = g
    /\ \A t \in Threads : thread[t].pc \in Compiling =>
          \A row \in thread[t].rows : Overlapped(Current(t)) \/ Joined(row.id, Current(t))
    /\ \A t \in Threads : thread[t].pc \in CleaningPrefetch =>
          \A g \in thread[t].rows :
             /\ Overlapped(g.file_path) \/ g.file_path = Current(t)
             /\ \A f \in prefetch_files :
                   f.file_path = g.file_path /\ Clean(f.file_path) => f = g

\* A row has its file, or a thread is about to delete it; a component that is being
\* compiled has no row.
RowsHaveFiles ==
    /\ \A f \in prefetch_files : Clean(f.file_path) =>
          \/ FileOf(f.file_path) # {}
          \/ \E t \in Threads : thread[t].pc = "prefetch_removed" /\ f = CurrentRow(t)
    /\ \A t \in Threads : thread[t].pc \in Uncompiled /\ Clean(Current(t)) =>
          \A f \in prefetch_files : f.file_path # Current(t)
    /\ \A t \in Threads : thread[t].pc \in {"writing", "insert"} /\ Clean(Current(t)) =>
          FileOf(Current(t)) # {}

\* Only the thread that compiles a component writes its file, until it is whole.
FilesWhole ==
    /\ \A file \in compiled : \A t \in file.writers :
          thread[t].pc = "writing" /\ Current(t) = file.component
    /\ \A t \in Threads : thread[t].pc \in {"writing", "insert"} /\ Clean(Current(t)) =>
          \A file \in FileOf(Current(t)) :
             /\ thread[t].pc = "writing" => t \in file.writers
             /\ thread[t].pc = "insert" => file.whole /\ file.writers = {}
    /\ \A f \in prefetch_files, file \in compiled :
          f.file_path = file.component /\ Clean(file.component) =>
             file.whole /\ file.writers = {}

Compiled == PackagesInHand /\ RowsJoined /\ RowsHaveFiles /\ FilesWhole

\* What launches, the io thread, maintenance and requests leave to one another at each
\* step: the rows that the ids in their hands name (IInv), and whose the traces and
\* the compiled files are.
StoreInv == IInv /\ Typed /\ Recorded /\ Compiled
=============================================================================
