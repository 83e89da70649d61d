--------------------------- MODULE TraceStoreProofs ---------------------------
(***************************************************************************)
(* What the trace store keeps, for any packages, activities and versions,  *)
(* any width of an int and any number of events, in four inductive         *)
(* invariants: every row has its parent (IInv), everything is of its type  *)
(* (Typed), a raw trace is in one place (Recorded), and a compiled trace   *)
(* with a row is whole (Compiled, which rests on the first two).           *)
(***************************************************************************)
EXTENDS TraceStoreInv, FiniteSetTheorems, WellFoundedInduction, TLAPS

\* What a thread may become without breaking the invariant.
Harmless(state) ==
    /\ HasFields(state, ThreadFields)
    /\ state.pc \in {"forked", "writing", "insert"} =>
          foreign_keys \/ \A row \in state.rows : row.id \in Ids(activities)
    /\ state.job = "maintenance" /\ state.pc \notin {"update", "select"} => foreign_keys

-----------------------------------------------------------------------------
(* A step of a thread that leaves the tables above raw_traces and prefetch_files *)

LEMMA ThreadMoves ==
    ASSUME IInv, Integrity', NEW t \in Threads, NEW state, Set(t, state), Harmless(state),
           UNCHANGED <<packages, activities, app_launch_histories, foreign_keys,
                       launch, pending, io>>
    PROVE  IInv'
<1>1. thread' = [u \in Threads |-> IF u = t THEN state ELSE thread[u]]
  BY DEF Set, IInv, Shape
<1>2. \A u \in Threads : thread'[u] = IF u = t THEN state ELSE thread[u]
  BY <1>1
<1>4. Shape'
  BY <1>1, <1>2 DEF IInv, Shape, Harmless
<1>5. ~foreign_keys' => HeldByLaunch' /\ HeldByTraces'
  BY DEF IInv, HeldByLaunch, HeldByTraces, Ids
<1>6. ~foreign_keys' => HeldByCompilers'
  BY <1>2 DEF IInv, HeldByCompilers, Harmless, Ids
<1>7. CleanUpCascades'
  BY <1>2 DEF IInv, CleanUpCascades, Harmless
<1> QED BY <1>4, <1>5, <1>6, <1>7 DEF IInv

\* The same when the tables do not change at all.
LEMMA ThreadLooks ==
    ASSUME IInv, NEW t \in Threads, NEW state, Set(t, state), Harmless(state),
           UNCHANGED <<database, launch, pending, io>>
    PROVE  IInv'
<1>1. Integrity'
  BY DEF IInv, Integrity, database, tables, Ids
<1> QED BY <1>1, ThreadMoves DEF database, tables

\* What a thread is, it may be.
LEMMA ThreadWas ==
    ASSUME IInv, NEW t \in Threads
    PROVE  Harmless(thread[t])
BY DEF IInv, Shape, HeldByCompilers, CleanUpCascades, Harmless

LEMMA Dropped ==
    ASSUME IInv, NEW t \in Threads, thread[t].pc \notin {"update", "select"},
           NEW pc, pc \notin {"forked", "writing", "insert"}
    PROVE  Harmless(DropPackage(t)) /\ Harmless(DropActivity(t, pc))
<1>1. Harmless(thread[t])
  BY ThreadWas
<1>2. Harmless(DropPackage(t))
  BY <1>1 DEF Harmless, HasFields, ThreadFields, DropPackage
<1>3. Harmless(DropActivity(t, pc))
  BY <1>1 DEF Harmless, HasFields, ThreadFields, DropActivity
<1> QED BY <1>2, <1>3

-----------------------------------------------------------------------------
(* Clean-up *)

LEMMA CleanUpKeeps ==
    ASSUME IInv, NEW t \in Threads, CleanUp(t)
    PROVE  IInv'
<1>1. Harmless(thread[t])
  BY ThreadWas
<1> USE DEF HasFields, ThreadFields
<1>2. CASE CleanPackage(t)
  <2> DEFINE taken == [thread[t] EXCEPT !.pc = "activities", !.package = CurrentPackage(t),
                                        !.activities = ActivitiesOf(CurrentPackage(t).id)]
  <2>1. Harmless(taken)
    BY <1>1, <1>2 DEF CleanPackage, Harmless
  <2>2. Harmless(DropPackage(t))
    BY <1>2, Dropped DEF CleanPackage
  <2>3. Set(t, taken) \/ Set(t, DropPackage(t))
    BY <1>2 DEF CleanPackage
  <2> HIDE DEF taken
  <2> QED BY <1>2, <2>1, <2>2, <2>3, ThreadLooks DEF CleanPackage
<1>3. CASE SelectRawTraces(t)
  <2> DEFINE listed == [thread[t] EXCEPT !.pc = "raw_traces", !.rows = RawTracesOf(Current(t))]
  <2>1. Harmless(listed)
    BY <1>1, <1>3 DEF SelectRawTraces, Harmless
  <2>2. Set(t, listed)
    BY <1>3 DEF SelectRawTraces
  <2> HIDE DEF listed
  <2> QED BY <1>3, <2>1, <2>2, ThreadLooks DEF SelectRawTraces
<1>4. CASE RemoveRawTrace(t)
  <2> DEFINE removed == [thread[t] EXCEPT !.pc = "raw_removed"]
  <2>1. Harmless(removed)
    BY <1>1, <1>4 DEF RemoveRawTrace, Harmless
  <2>2. Set(t, removed)
    BY <1>4 DEF RemoveRawTrace
  <2> HIDE DEF removed
  <2> QED BY <1>4, <2>1, <2>2, ThreadLooks DEF RemoveRawTrace
<1>5. CASE DeleteRawTrace(t)
  <2> DEFINE rest == [thread[t] EXCEPT !.pc = "raw_traces", !.rows = @ \ {CurrentRow(t)}]
  <2>1. Harmless(rest)
    BY <1>1, <1>5 DEF DeleteRawTrace, Harmless
  <2>2. Set(t, rest)
    BY <1>5 DEF DeleteRawTrace
  <2>3. Integrity'
    BY <1>5 DEF DeleteRawTrace, Delete, IInv, Integrity, Ids
  <2> HIDE DEF rest
  <2> QED BY <1>5, <2>1, <2>2, <2>3, ThreadMoves DEF DeleteRawTrace
<1>6. CASE SelectPrefetchFile(t)
  <2>1. PICK found : Set(t, IF found = {} THEN DropActivity(t, "activities")
                            ELSE [thread[t] EXCEPT !.pc = "prefetch_file", !.rows = found])
    BY <1>6 DEF SelectPrefetchFile
  <2>2. Harmless(DropActivity(t, "activities"))
    BY <1>6, Dropped DEF SelectPrefetchFile
  <2> DEFINE chosen == [thread[t] EXCEPT !.pc = "prefetch_file", !.rows = found]
  <2>3. Harmless(chosen)
    BY <1>1, <1>6 DEF SelectPrefetchFile, Harmless
  <2>4. Set(t, DropActivity(t, "activities")) \/ Set(t, chosen)
    BY <2>1
  <2> HIDE DEF chosen
  <2> QED BY <1>6, <2>2, <2>3, <2>4, ThreadLooks DEF SelectPrefetchFile
<1>7. CASE RemovePrefetchFile(t)
  <2> DEFINE removed == [thread[t] EXCEPT !.pc = "prefetch_removed"]
  <2>1. Harmless(removed)
    BY <1>1, <1>7 DEF RemovePrefetchFile, Harmless
  <2>2. Set(t, removed)
    BY <1>7 DEF RemovePrefetchFile
  <2> HIDE DEF removed
  <2> QED BY <1>7, <2>1, <2>2, ThreadLooks DEF RemovePrefetchFile
<1>8. CASE DeletePrefetchFile(t)
  <2>1. Set(t, DropActivity(t, "activities")) /\ Harmless(DropActivity(t, "activities"))
    BY <1>8, Dropped DEF DeletePrefetchFile
  <2>2. Integrity'
    BY <1>8 DEF DeletePrefetchFile, Delete, IInv, Integrity, Ids
  <2> QED BY <1>8, <2>1, <2>2, ThreadMoves DEF DeletePrefetchFile
<1>9. CASE FinishPackage(t)
  <2>1. Set(t, DropPackage(t)) /\ Harmless(DropPackage(t))
    BY <1>9, Dropped DEF FinishPackage
  <2>2. CASE thread[t].job = "purge"
    BY <1>9, <2>1, <2>2, ThreadLooks DEF FinishPackage
  <2>3. CASE thread[t].job = "maintenance"
    <3>1. foreign_keys /\ foreign_keys'
      BY <1>9, <2>3 DEF FinishPackage, DeletePackage, IInv, CleanUpCascades
    <3>2. DeletePackage(thread[t].package.id)
      BY <1>9, <2>3 DEF FinishPackage
    <3>3. Integrity'
      BY <3>1, <3>2 DEF DeletePackage, Delete, CascadedActivities, CascadedHistories,
                        ActivitiesOf, IInv, Integrity, Ids
    <3>4. Shape' /\ CleanUpCascades'
      <4>1. thread' = [u \in Threads |-> IF u = t THEN DropPackage(t) ELSE thread[u]]
        BY <2>1 DEF Set, IInv, Shape
      <4>2. \A u \in Threads : HasFields(thread'[u], ThreadFields)
        BY <2>1, <4>1, ThreadWas DEF Harmless
      <4> QED BY <1>9, <3>1, <4>1, <4>2
              DEF FinishPackage, DeletePackage, IInv, Shape, CleanUpCascades
    <3> QED BY <3>1, <3>3, <3>4 DEF IInv
  <2> QED BY <1>9, <2>2, <2>3 DEF FinishPackage
<1> QED BY <1>2, <1>3, <1>4, <1>5, <1>6, <1>7, <1>8, <1>9 DEF CleanUp

-----------------------------------------------------------------------------
(* Maintenance and requests *)

\* Turning foreign keys on promises more from then on and asks for less.
LEMMA SelectPackagesKeeps ==
    ASSUME IInv, SelectPackages
    PROVE  IInv'
<1> USE DEF HasFields, ThreadFields
<1> DEFINE state == [thread["worker"] EXCEPT !.pc = "packages", !.packages = packages]
<1>1. /\ thread["worker"].pc = "select"
      /\ foreign_keys' = TRUE
      /\ Set("worker", state)
      /\ UNCHANGED <<tables, launch, io>>
  BY DEF SelectPackages
<1>2. "worker" \in Threads
  BY DEF Threads
<1>3. HasFields(state, ThreadFields)
  BY <1>2, ThreadWas DEF Harmless
<1> HIDE DEF state
<1>4. thread' = [u \in Threads |-> IF u = "worker" THEN state ELSE thread[u]]
  BY <1>1 DEF Set, IInv, Shape
<1>5. Shape'
  BY <1>1, <1>3, <1>4 DEF IInv, Shape
<1>6. Integrity'
  BY <1>1 DEF IInv, Integrity, tables, Ids
<1> QED BY <1>1, <1>5, <1>6 DEF IInv, CleanUpCascades

LEMMA MaintenanceKeeps ==
    ASSUME IInv, Maintenance
    PROVE  IInv'
<1> USE DEF HasFields, ThreadFields
<1>1. "worker" \in Threads /\ Harmless(thread["worker"])
  BY ThreadWas DEF Threads
<1>2. CASE StartMaintenance
  <2> DEFINE started == [Idle EXCEPT !.job = "maintenance", !.pc = "update"]
  <2>1. Harmless(started)
    BY DEF Harmless, Idle
  <2>2. Set("worker", started)
    BY <1>2 DEF StartMaintenance
  <2> HIDE DEF started
  <2> QED BY <1>1, <1>2, <2>1, <2>2, ThreadLooks DEF StartMaintenance
<1>3. CASE UpdateAllSucceeds \/ UpdateAllFails
  <2> DEFINE updated == [thread["worker"] EXCEPT !.pc = "select"]
  <2>1. Harmless(updated)
    BY <1>1 DEF Harmless
  <2>2. Set("worker", updated) /\ UNCHANGED <<database, launch, pending, io>>
    BY <1>3 DEF UpdateAllSucceeds, UpdateAllFails, UpdateAll
  <2> HIDE DEF updated
  <2> QED BY <1>1, <2>1, <2>2, ThreadLooks
<1> QED BY <1>2, <1>3, SelectPackagesKeeps DEF Maintenance

\* A thread that takes up rows for a purge or a compilation.
LEMMA Begun ==
    ASSUME NEW job, job # "maintenance", NEW rows
    PROVE  Harmless([Idle EXCEPT !.job = job, !.pc = "packages", !.packages = rows])
BY DEF Harmless, HasFields, ThreadFields, Idle

LEMMA RequestKeeps ==
    ASSUME IInv, Request
    PROVE  IInv'
<1>1. PICK p \in Packages : Purge(p) \/ Compile(p)
  BY DEF Request
<1>2. PICK job, rows :
         /\ job # "maintenance"
         /\ Set("binder", [Idle EXCEPT !.job = job, !.pc = "packages", !.packages = rows])
  <2>1. CASE Purge(p)
    <3> WITNESS "purge", PackagesNamed(p)
    <3> QED BY <2>1 DEF Purge
  <2>2. CASE Compile(p)
    <3> WITNESS "compile", PackagesNamed(p)
    <3> QED BY <2>2 DEF Compile
  <2> QED BY <1>1, <2>1, <2>2
<1> DEFINE begun == [Idle EXCEPT !.job = job, !.pc = "packages", !.packages = rows]
<1>3. Harmless(begun) /\ Set("binder", begun)
  BY <1>2, Begun
<1>4. UNCHANGED <<database, launch, pending, io>> /\ "binder" \in Threads
  BY <1>1 DEF Purge, Compile, Threads
<1> HIDE DEF begun
<1> QED BY <1>3, <1>4, ThreadLooks

LEMMA OnPackageChangedKeeps ==
    ASSUME IInv, OnPackageChanged
    PROVE  IInv'
<1>1. UNCHANGED <<database, launch, pending, io>> /\ "binder" \in Threads
  BY DEF OnPackageChanged, Threads
<1>2. CASE UNCHANGED thread
  BY <1>1, <1>2, ThreadWas DEF IInv, Shape, Integrity, HeldByLaunch, HeldByTraces,
     HeldByCompilers, CleanUpCascades, database, tables, Ids
<1>3. CASE \E found : Set("binder", [Idle EXCEPT !.job = "purge", !.pc = "packages",
                                                 !.packages = found])
  <2>1. PICK found : Set("binder", [Idle EXCEPT !.job = "purge", !.pc = "packages",
                                                !.packages = found])
    BY <1>3
  <2> DEFINE begun == [Idle EXCEPT !.job = "purge", !.pc = "packages", !.packages = found]
  <2>2. Harmless(begun) /\ Set("binder", begun)
    BY <2>1, Begun
  <2> HIDE DEF begun
  <2> QED BY <1>1, <2>2, ThreadLooks
<1> QED BY <1>2, <1>3 DEF OnPackageChanged

LEMMA FinishPackagesKeeps ==
    ASSUME IInv, NEW t \in Threads, FinishPackages(t)
    PROVE  IInv'
<1>1. Harmless(Idle)
  BY DEF Harmless, HasFields, ThreadFields, Idle
<1> DEFINE compiling == [Idle EXCEPT !.job = "compile", !.pc = "packages", !.packages = packages]
<1>2. Harmless(compiling)
  BY Begun
<1>3. Set(t, Idle) \/ Set(t, compiling)
  BY DEF FinishPackages
<1> HIDE DEF compiling
<1> QED BY <1>1, <1>2, <1>3, ThreadLooks DEF FinishPackages

-----------------------------------------------------------------------------
(* Compilation *)

LEMMA CompileStepKeeps ==
    ASSUME IInv, NEW t \in Threads, CompileStep(t)
    PROVE  IInv'
<1> USE DEF HasFields, ThreadFields
<1>1. Harmless(thread[t])
  BY ThreadWas
<1>2. CASE CompilePackage(t)
  <2>1. CASE Set(t, DropPackage(t))
    BY <1>2, <2>1, Dropped, ThreadLooks DEF CompilePackage
  <2>2. CASE ~Set(t, DropPackage(t))
    <3>1. PICK package :
            Set(t, [thread[t] EXCEPT !.pc = "compile", !.package = package,
                                     !.activities = ActivitiesOf(package.id)])
      BY <1>2, <2>2 DEF CompilePackage
    <3> DEFINE entered == [thread[t] EXCEPT !.pc = "compile", !.package = package,
                                            !.activities = ActivitiesOf(package.id)]
    <3>2. Harmless(entered) /\ Set(t, entered)
      BY <1>1, <1>2, <3>1 DEF CompilePackage, Harmless
    <3> HIDE DEF entered
    <3> QED BY <1>2, <3>2, ThreadLooks DEF CompilePackage
  <2> QED BY <2>1, <2>2
<1>3. CASE CheckCompiled(t)
  <2> DEFINE missing == [thread[t] EXCEPT !.pc = "traces"]
  <2>1. Harmless(missing)
    BY <1>1, <1>3 DEF CheckCompiled, Harmless
  <2>2. Harmless(DropActivity(t, "compile"))
    BY <1>3, Dropped DEF CheckCompiled
  <2>3. Set(t, missing) \/ Set(t, DropActivity(t, "compile"))
    BY <1>3 DEF CheckCompiled
  <2> HIDE DEF missing
  <2> QED BY <1>3, <2>1, <2>2, <2>3, ThreadLooks DEF CheckCompiled
<1>4. CASE SelectTraces(t)
  <2>1. PICK found \in LimitOne(ActivityNamed(CurrentActivity(t).name, thread[t].package.id)) :
          \/ Set(t, [thread[t] EXCEPT !.pc = "forked", !.rows = found])
          \/ Set(t, DropActivity(t, "compile"))
    BY <1>4 DEF SelectTraces
  <2>2. \A row \in found : row.id \in Ids(activities)
    BY DEF LimitOne, ActivityNamed, ActivitiesOf, Ids
  <2> DEFINE forked == [thread[t] EXCEPT !.pc = "forked", !.rows = found]
  <2>3. Harmless(forked)
    BY <1>1, <1>4, <2>2 DEF SelectTraces, Harmless
  <2>4. Harmless(DropActivity(t, "compile"))
    BY <1>4, Dropped DEF SelectTraces
  <2>5. Set(t, forked) \/ Set(t, DropActivity(t, "compile"))
    BY <2>1
  <2> HIDE DEF forked
  <2> QED BY <1>4, <2>3, <2>4, <2>5, ThreadLooks DEF SelectTraces
<1>5. CASE OpenOutput(t)
  <2> DEFINE writing == [thread[t] EXCEPT !.pc = "writing"]
  <2>1. Harmless(writing) /\ Set(t, writing)
    BY <1>1, <1>5 DEF OpenOutput, Harmless
  <2> HIDE DEF writing
  <2> QED BY <1>5, <2>1, ThreadLooks DEF OpenOutput
<1>6. CASE CompilerSucceeds(t)
  <2> DEFINE compiled_ == [thread[t] EXCEPT !.pc = "insert"]
  <2>1. Harmless(compiled_) /\ Set(t, compiled_)
    BY <1>1, <1>6 DEF CompilerSucceeds, Harmless
  <2> HIDE DEF compiled_
  <2> QED BY <1>6, <2>1, ThreadLooks DEF CompilerSucceeds
<1>7. CASE CompilerFails(t)
  BY <1>7, Dropped, ThreadLooks DEF CompilerFails
<1>8. CASE InsertPrefetchFile(t)
  <2>1. PICK row \in thread[t].rows :
          \/ /\ Accepts(activities, row.id)
             /\ prefetch_files' = prefetch_files \union {NewPrefetchFile(row.id, Current(t))}
          \/ UNCHANGED prefetch_files
    BY <1>8 DEF InsertPrefetchFile
  <2>2. Accepts(activities, row.id) => row.id \in Ids(activities)
    BY <1>1, <1>8 DEF InsertPrefetchFile, Harmless, Accepts
  <2>3. NewPrefetchFile(row.id, Current(t)).activity_id = row.id
    BY DEF NewPrefetchFile
  <2>4. Integrity'
    BY <1>8, <2>1, <2>2, <2>3 DEF InsertPrefetchFile, IInv, Integrity, Ids
  <2>5. Harmless(DropActivity(t, "compile"))
    BY <1>8, Dropped DEF InsertPrefetchFile
  <2> QED BY <1>8, <2>4, <2>5, ThreadMoves DEF InsertPrefetchFile
<1>9. CASE FinishCompilePackage(t)
  BY <1>9, Dropped, ThreadLooks DEF FinishCompilePackage
<1> QED BY <1>2, <1>3, <1>4, <1>5, <1>6, <1>7, <1>8, <1>9 DEF CompileStep

-----------------------------------------------------------------------------
(* Launches *)

\* Nothing of the invariant is about what else a launch or a restart changes.
LEMMA NothingHeldChanges ==
    ASSUME IInv, UNCHANGED <<database, launch, pending, io, thread>>
    PROVE  IInv'
BY DEF IInv, Shape, Integrity, HeldByLaunch, HeldByTraces, HeldByCompilers,
       CleanUpCascades, HasFields, database, tables, Ids

\* The launch moves on or ends; tables may have grown.
LEMMA LaunchMoves ==
    ASSUME IInv, Integrity', HasFields(launch', LaunchFields),
           packages \subseteq packages', activities \subseteq activities',
           UNCHANGED <<app_launch_histories, foreign_keys, pending, io, thread>>,
           ~foreign_keys => HeldByLaunch'
    PROVE  IInv'
<1>1. Shape' /\ CleanUpCascades'
  BY DEF IInv, Shape, CleanUpCascades, HasFields
<1>2. ~foreign_keys => HeldByTraces' /\ HeldByCompilers'
  BY DEF IInv, HeldByTraces, HeldByCompilers, Ids
<1> QED BY <1>1, <1>2 DEF IInv

LEMMA LaunchStepKeeps ==
    ASSUME IInv, LaunchStep
    PROVE  IInv'
<1> USE DEF HasFields, LaunchFields
<1>0. HasFields(launch, LaunchFields) /\ HasFields(NoLaunch, LaunchFields)
  BY DEF IInv, Shape, NoLaunch
<1>1. CASE \E p \in Packages, a \in Activities, traced \in BOOLEAN : StartLaunch(p, a, traced)
  <2>1. UNCHANGED <<database, pending, io, thread>>
    BY <1>1 DEF StartLaunch
  <2>2. HasFields(launch', LaunchFields) /\ launch'.pc = "started"
    BY <1>1 DEF StartLaunch
  <2>3. Integrity'
    BY <2>1 DEF IInv, Integrity, database, tables, Ids
  <2> QED BY <2>1, <2>2, <2>3, LaunchMoves DEF database, tables, HeldByLaunch
<1>2. CASE LookUpVersion
  <2>1. UNCHANGED <<database, pending, io, thread>>
    BY <1>2 DEF LookUpVersion
  <2>2. HasFields(launch', LaunchFields) /\ launch'.pc \in {"none", "version"}
    BY <1>0, <1>2 DEF LookUpVersion, NoLaunch
  <2>3. Integrity'
    BY <2>1 DEF IInv, Integrity, database, tables, Ids
  <2> QED BY <2>1, <2>2, <2>3, LaunchMoves DEF database, tables, HeldByLaunch
<1>3. CASE SelectOrInsertPackage
  <2> DEFINE new == NewPackage(launch.package, launch.id)
  <2>1. UNCHANGED <<activities, app_launch_histories, raw_traces, prefetch_files,
                    foreign_keys, pending, io, thread>>
    BY <1>3 DEF SelectOrInsertPackage
  <2>2. CASE \E row \in PackagesNamedVersion(launch.package, launch.id) :
                launch' = [launch EXCEPT !.pc = "package", !.id = row.id] /\ UNCHANGED packages
    <3>1. PICK row \in packages :
            launch' = [launch EXCEPT !.pc = "package", !.id = row.id] /\ UNCHANGED packages
      BY <2>2 DEF PackagesNamedVersion, PackagesNamed
    <3>2. HasFields(launch', LaunchFields) /\ HeldByLaunch'
      BY <1>0, <3>1 DEF HeldByLaunch, Ids
    <3>3. Integrity'
      BY <2>1, <3>1 DEF IInv, Integrity, Ids
    <3> QED BY <2>1, <3>1, <3>2, <3>3, LaunchMoves
  <2>3. CASE launch' = [launch EXCEPT !.pc = "package", !.id = new.id]
             /\ packages' = packages \union {new}
    <3> HIDE DEF new
    <3>1. HasFields(launch', LaunchFields) /\ HeldByLaunch'
      BY <1>0, <2>3 DEF HeldByLaunch, Ids
    <3>2. Integrity'
      BY <2>1, <2>3 DEF IInv, Integrity, Ids
    <3> QED BY <2>1, <2>3, <3>1, <3>2, LaunchMoves
  <2> QED BY <1>3, <2>2, <2>3 DEF SelectOrInsertPackage
<1>4. CASE SelectOrInsertActivity
  <2> DEFINE new == NewActivity(launch.activity, launch.id)
  <2>1. launch.pc = "package" /\
        UNCHANGED <<packages, app_launch_histories, raw_traces, prefetch_files,
                    foreign_keys, pending, io, thread>>
    BY <1>4 DEF SelectOrInsertActivity
  <2>2. CASE \E row \in ActivityNamed(launch.activity, launch.id) :
                launch' = [launch EXCEPT !.pc = "activity", !.id = row.id] /\ UNCHANGED activities
    <3>1. PICK row \in activities :
            launch' = [launch EXCEPT !.pc = "activity", !.id = row.id] /\ UNCHANGED activities
      BY <2>2 DEF ActivityNamed, ActivitiesOf
    <3>2. HasFields(launch', LaunchFields) /\ HeldByLaunch'
      BY <1>0, <3>1 DEF HeldByLaunch, Ids
    <3>3. Integrity'
      BY <2>1, <3>1 DEF IInv, Integrity, Ids
    <3> QED BY <2>1, <3>1, <3>2, <3>3, LaunchMoves
  <2>3. CASE /\ Accepts(packages, launch.id)
             /\ launch' = [launch EXCEPT !.pc = "activity", !.id = new.id]
             /\ activities' = activities \union {new}
    <3>1. new.package_id \in Ids(packages)
      BY <2>1, <2>3 DEF Accepts, IInv, Shape, HeldByLaunch, NewActivity
    <3> HIDE DEF new
    <3>2. HasFields(launch', LaunchFields) /\ HeldByLaunch'
      BY <1>0, <2>3 DEF HeldByLaunch, Ids
    <3>3. Integrity'
      BY <2>1, <2>3, <3>1 DEF IInv, Integrity, Ids
    <3> QED BY <2>1, <2>3, <3>2, <3>3, LaunchMoves
  <2>4. CASE launch' = NoLaunch /\ UNCHANGED activities
    <3>1. HasFields(launch', LaunchFields) /\ HeldByLaunch'
      BY <1>0, <2>4 DEF HeldByLaunch, NoLaunch
    <3>2. Integrity'
      BY <2>1, <2>4 DEF IInv, Integrity, Ids
    <3> QED BY <2>1, <2>4, <3>1, <3>2, LaunchMoves
  <2> QED BY <1>4, <2>2, <2>3, <2>4 DEF SelectOrInsertActivity
<1>5. CASE InsertHistory
  <2> DEFINE new == NewHistory(launch.id, launch.trace # None, launch.number)
  <2>1. /\ launch.pc = "activity"
        /\ launch' = NoLaunch
        /\ UNCHANGED <<packages, activities, raw_traces, prefetch_files, foreign_keys, io, thread>>
    BY <1>5 DEF InsertHistory
  <2>2. HasFields(launch', LaunchFields) /\ HeldByLaunch'
    BY <1>0, <2>1 DEF HeldByLaunch, NoLaunch
  <2>3. CASE UNCHANGED <<app_launch_histories, pending>>
    <3>1. Integrity'
      BY <2>1, <2>3 DEF IInv, Integrity, Ids
    <3> QED BY <2>1, <2>2, <2>3, <3>1, LaunchMoves
  <2>4. CASE /\ Accepts(activities, launch.id)
             /\ app_launch_histories' = app_launch_histories \union {new}
             /\ pending' = IF launch.trace = None THEN pending
                           ELSE pending \union {[component |-> launch.trace,
                                                 launch |-> launch.number,
                                                 history_id |-> new.id]}
    <3>1. new.activity_id \in Ids(activities)
      BY <2>1, <2>4 DEF Accepts, IInv, Shape, HeldByLaunch, NewHistory
    <3> HIDE DEF new
    <3>2. Integrity'
      BY <2>1, <2>4, <3>1 DEF IInv, Integrity, Ids
    <3>3. Shape' /\ CleanUpCascades'
      BY <2>1, <2>2 DEF IInv, Shape, CleanUpCascades
    <3>4. ~foreign_keys => HeldByTraces' /\ HeldByCompilers'
      BY <2>1, <2>4 DEF IInv, HeldByTraces, HeldByCompilers, Ids
    <3> QED BY <2>1, <2>2, <3>2, <3>3, <3>4 DEF IInv
  <2> QED BY <1>5, <2>3, <2>4 DEF InsertHistory
<1> QED BY <1>1, <1>2, <1>3, <1>4, <1>5 DEF LaunchStep

-----------------------------------------------------------------------------
(* Traces *)

\* The io thread moves on; only raw_traces may change.
LEMMA IoMoves ==
    ASSUME IInv, Integrity', HasFields(io', IoFields), pending' \subseteq pending,
           io'.pc = "written" =>
              foreign_keys \/ io'.trace.history_id \in Ids(app_launch_histories),
           UNCHANGED <<packages, activities, app_launch_histories, foreign_keys, launch, thread>>
    PROVE  IInv'
<1>1. Shape' /\ CleanUpCascades'
  BY DEF IInv, Shape, CleanUpCascades, HasFields
<1>2. ~foreign_keys => HeldByLaunch' /\ HeldByTraces' /\ HeldByCompilers'
  BY DEF IInv, Shape, HeldByLaunch, HeldByTraces, HeldByCompilers, Ids
<1> QED BY <1>1, <1>2 DEF IInv

LEMMA IoStepKeeps ==
    ASSUME IInv, IoStep
    PROVE  IInv'
<1> USE DEF HasFields, IoFields
<1>0. HasFields(io, IoFields) /\ HasFields(IoIdle, IoFields) /\ IoIdle.pc = "idle"
  BY DEF IInv, Shape, IoIdle
<1>1. CASE \E t \in pending : WriteTrace(t)
  <2>1. PICK t \in pending : WriteTrace(t)
    BY <1>1
  <2>2. CASE UNCHANGED io
    BY <1>0, <2>1, <2>2, IoMoves DEF WriteTrace, IInv, Integrity, database, tables, Ids
  <2>3. CASE io' = [io EXCEPT !.pc = "written", !.trace = t]
    <3>1. HasFields(io', IoFields) /\ io'.trace = t
      BY <1>0, <2>3
    <3>2. foreign_keys \/ t.history_id \in Ids(app_launch_histories)
      BY DEF IInv, Shape, HeldByTraces
    <3>3. UNCHANGED <<database, launch, thread>> /\ pending' \subseteq pending
      BY <2>1 DEF WriteTrace
    <3>4. Integrity'
      BY <3>3 DEF IInv, Integrity, database, tables, Ids
    <3> QED BY <3>1, <3>2, <3>3, <3>4, IoMoves DEF database, tables
  <2> QED BY <2>1, <2>2, <2>3 DEF WriteTrace
<1>2. CASE InsertRawTrace
  <2> DEFINE file == [component |-> io.trace.component, launch |-> io.trace.launch]
             new == NewRawTrace(io.trace.history_id, file)
  <2>1. /\ io.pc = "written"
        /\ UNCHANGED <<packages, activities, app_launch_histories, prefetch_files,
                       foreign_keys, launch, pending, thread>>
    BY <1>2 DEF InsertRawTrace
  <2>2. CASE /\ Accepts(app_launch_histories, io.trace.history_id)
             /\ raw_traces' = raw_traces \union {new}
             /\ io' = [io EXCEPT !.pc = "inserted"]
    <3>1. new.history_id \in Ids(app_launch_histories)
      BY <2>1, <2>2 DEF Accepts, IInv, Shape, HeldByTraces, NewRawTrace
    <3> HIDE DEF new
    <3>2. Integrity'
      BY <2>1, <2>2, <3>1 DEF IInv, Integrity, Ids
    <3>3. HasFields(io', IoFields) /\ io'.pc = "inserted"
      BY <1>0, <2>2
    <3> QED BY <2>1, <3>2, <3>3, IoMoves
  <2>3. CASE io' = IoIdle /\ UNCHANGED raw_traces
    <3>1. Integrity'
      BY <2>1, <2>3 DEF IInv, Integrity, Ids
    <3> QED BY <1>0, <2>1, <2>3, <3>1, IoMoves
  <2> QED BY <1>2, <2>2, <2>3 DEF InsertRawTrace
<1>3. CASE SelectOlder \/ RemoveOlder
  <2>1. UNCHANGED <<database, launch, pending, thread>>
    BY <1>3 DEF SelectOlder, RemoveOlder
  <2>2. HasFields(io', IoFields) /\ io'.pc # "written"
    BY <1>0, <1>3 DEF SelectOlder, RemoveOlder, IoAfter
  <2>3. Integrity'
    BY <2>1 DEF IInv, Integrity, database, tables, Ids
  <2> QED BY <2>1, <2>2, <2>3, IoMoves DEF database, tables
<1>4. CASE DeleteOlder
  <2>1. HasFields(io', IoFields) /\ io'.pc # "written"
    BY <1>0, <1>4 DEF DeleteOlder, IoAfter
  <2>2. Integrity'
    BY <1>4 DEF DeleteOlder, Delete, IInv, Integrity, Ids
  <2> QED BY <1>4, <2>1, <2>2, IoMoves DEF DeleteOlder
<1> QED BY <1>1, <1>2, <1>3, <1>4 DEF IoStep

-----------------------------------------------------------------------------
(* Restarts *)

\* Whoever held an id is gone.
LEMMA DieKeeps ==
    ASSUME Die, Integrity'
    PROVE  IInv'
<1> USE DEF HasFields, LaunchFields, IoFields, ThreadFields
<1>1. /\ foreign_keys' = FALSE
      /\ launch' = NoLaunch
      /\ pending' = {}
      /\ io' = IoIdle
      /\ thread' = [t \in Threads |-> Idle]
  BY DEF Die
<1>2. Shape'
  BY <1>1 DEF Shape, NoLaunch, IoIdle, Idle
<1>3. HeldByLaunch' /\ HeldByTraces' /\ HeldByCompilers' /\ CleanUpCascades'
  BY <1>1 DEF HeldByLaunch, HeldByTraces, HeldByCompilers, CleanUpCascades,
              NoLaunch, IoIdle, Idle
<1> QED BY <1>2, <1>3 DEF IInv

LEMMA RestartKeeps ==
    ASSUME IInv, Crash \/ CrashWithoutMap \/ Upgrade
    PROVE  IInv'
<1>1. CASE Crash \/ CrashWithoutMap
  <2>1. Die /\ UNCHANGED tables
    BY <1>1 DEF Crash, CrashWithoutMap, Reopen
  <2>2. Integrity'
    BY <2>1 DEF IInv, Integrity, tables, Ids
  <2> QED BY <2>1, <2>2, DieKeeps
<1>2. CASE Upgrade
  <2>1. Integrity'
    BY <1>2 DEF Upgrade, Integrity
  <2> QED BY <1>2, <2>1, DieKeeps DEF Upgrade
<1> QED BY <1>1, <1>2

-----------------------------------------------------------------------------
LEMMA InitIInv == Init => IInv
<1> SUFFICES ASSUME Init PROVE IInv
  OBVIOUS
<1> USE DEF HasFields, LaunchFields, IoFields, ThreadFields
<1>1. /\ EmptyDatabase
      /\ launch = NoLaunch /\ pending = {} /\ io = IoIdle
      /\ thread = [t \in Threads |-> Idle]
  BY DEF Init
<1>2. Shape
  BY <1>1 DEF EmptyDatabase, Shape, NoLaunch, IoIdle, Idle
<1>3. Integrity
  BY <1>1 DEF EmptyDatabase, Integrity
<1>4. HeldByLaunch /\ HeldByTraces /\ HeldByCompilers /\ CleanUpCascades
  BY <1>1 DEF HeldByLaunch, HeldByTraces, HeldByCompilers, CleanUpCascades,
              NoLaunch, IoIdle, Idle
<1> QED BY <1>2, <1>3, <1>4 DEF IInv

LEMMA NextIInv == IInv /\ [Next]_vars => IInv'
<1> SUFFICES ASSUME IInv, [Next]_vars PROVE IInv'
  OBVIOUS
<1>1. CASE LaunchStep
  BY <1>1, LaunchStepKeeps
<1>2. CASE IoStep
  BY <1>2, IoStepKeeps
<1>3. CASE ThreadStep
  <2>1. CASE Request \/ OnPackageChanged \/ Maintenance
    BY <2>1, RequestKeeps, OnPackageChangedKeeps, MaintenanceKeeps
  <2>2. CASE \E t \in Threads : Work(t)
    BY <2>2, CleanUpKeeps, CompileStepKeeps, FinishPackagesKeeps DEF Work
  <2> QED BY <1>3, <2>1, <2>2 DEF ThreadStep, Watched
<1>4. CASE \E p \in Packages, v \in Versions \union {None} : ChangePackage(p, v)
  BY <1>4, NothingHeldChanges DEF ChangePackage
<1>5. CASE Crash \/ CrashWithoutMap \/ Upgrade
  BY <1>5, RestartKeeps
<1>6. CASE UNCHANGED vars
  BY <1>6, NothingHeldChanges DEF vars
<1> QED BY <1>1, <1>2, <1>3, <1>4, <1>5, <1>6 DEF Next

\* Every id that is held names a row until SQLite enforces the REFERENCES clauses
\* (DbQueryBuilder, CleanUpDatabase), whatever the launches, the clean-ups, the
\* compilations and the restarts do at once.
THEOREM Invariant == Spec => []IInv
<1> QED BY InitIInv, NextIInv, PTL DEF Spec

\* No row of the database ever misses its parent.
THEOREM ReferentialIntegrity == Spec => []Integrity
<1>1. IInv => Integrity
  BY DEF IInv
<1> QED BY <1>1, Invariant, PTL

-----------------------------------------------------------------------------
(* Least and greatest ids.  A set of natural numbers has a least element, so a      *)
(* finite one has an upper bound (take the smallest that had none) and a greatest   *)
(* element (the least upper bound).                                                 *)

LEMMA LeastNumber ==
    ASSUME NEW T \in SUBSET Nat, T # {}
    PROVE  \E x \in T : \A y \in T : x <= y
<1> DEFINE R == OpToRel(<, Nat)
<1>1. \E x \in T : \A y \in T : <<y, x>> \notin R
  BY WFMin, NatLessThanWellFounded
<1>2. \A x, y \in T : y < x => <<y, x>> \in R
  BY DEF OpToRel
<1>3. \E x \in T : \A y \in T : ~(y < x)
  BY <1>1, <1>2, Zenon
<1> QED BY ONLY <1>3, T \in SUBSET Nat

LEMMA FiniteIsBounded ==
    ASSUME NEW T \in SUBSET Nat, IsFiniteSet(T)
    PROVE  \E n \in Nat : \A x \in T : x <= n
<1> DEFINE Bounded(S) == \E n \in Nat : \A x \in S : x <= n
           sizes == {n \in Nat : \E S \in SUBSET Nat :
                        IsFiniteSet(S) /\ Cardinality(S) = n /\ ~Bounded(S)}
<1>1. SUFFICES sizes = {}
  <2>1. Cardinality(T) \in Nat
    BY FS_CardinalityType
  <2> QED BY <1>1, <2>1
<1>2. SUFFICES ASSUME sizes # {} PROVE FALSE
  OBVIOUS
<1>3. PICK n \in sizes : \A k \in sizes : n <= k
  BY <1>2, LeastNumber
<1>4. PICK S \in SUBSET Nat : IsFiniteSet(S) /\ Cardinality(S) = n /\ ~Bounded(S)
  OBVIOUS
<1>5. PICK x \in S : TRUE
  BY <1>4
<1>6. IsFiniteSet(S \ {x}) /\ Cardinality(S \ {x}) = n - 1
  BY <1>4, FS_RemoveElement
<1>7. n - 1 \in Nat
  BY <1>6, FS_CardinalityType
<1>8. Bounded(S \ {x})
  BY <1>3, <1>6, <1>7
<1>9. PICK m \in Nat : \A y \in S \ {x} : y <= m
  BY <1>8
<1>10. \A y \in S : y <= m + x
  BY <1>9
<1> QED BY <1>4, <1>10

LEMMA GreatestNumber ==
    ASSUME NEW T \in SUBSET Nat, T # {}, IsFiniteSet(T)
    PROVE  Max(T) \in T /\ \A x \in T : x <= Max(T)
<1> DEFINE bounds == {m \in Nat : \A x \in T : x <= m}
<1>1. bounds # {}
  BY FiniteIsBounded
<1>2. PICK m \in bounds : \A k \in bounds : m <= k
  BY <1>1, LeastNumber
<1>3. m \in T
  <2>1. PICK x \in T : TRUE
    OBVIOUS
  <2>2. CASE m = 0
    <3>1. x = 0
      BY <2>2
    <3> QED BY <2>2, <3>1
  <2>3. CASE m # 0 /\ m \notin T
    <3>1. m - 1 \in bounds
      BY <2>3
    <3> QED BY <1>2, <3>1
  <2> QED BY <2>2, <2>3
<1>4. \A x \in T : m >= x
  OBVIOUS
<1> QED BY <1>3, <1>4 DEF Max

\* The rows of a SELECT have a first one.
LEMMA FirstIsRow ==
    ASSUME NEW rows, rows # {}, \A row \in rows : row.id \in Nat
    PROVE  First(rows) \in rows
<1>1. Ids(rows) \in SUBSET Nat /\ Ids(rows) # {}
  BY DEF Ids
<1>2. PICK least \in Ids(rows) : \A id \in Ids(rows) : least <= id
  BY <1>1, LeastNumber
<1>3. \E row \in rows : \A other \in rows : row.id <= other.id
  BY <1>2 DEF Ids
<1> QED BY <1>3 DEF First

\* SQLite gives a new row an id that no row of the table has.
LEMMA NewIdIsNew ==
    ASSUME NEW table, \A row \in table : row.id \in Nat \ {0}, Keyed(table)
    PROVE  NewId(table) \in Nat \ {0} /\ \A row \in table : row.id < NewId(table)
<1> DEFINE known == Ids(table) \union {0}
<1>1. known \in SUBSET Nat /\ known # {}
  BY DEF Ids
<1>2. IsFiniteSet(known)
  BY FS_AddElement DEF Keyed
<1>3. Max(known) \in known /\ \A id \in known : id <= Max(known)
  BY <1>1, <1>2, GreatestNumber
<1>4. \A row \in table : row.id \in known
  BY DEF Ids
<1>5. Max(known) \in Nat
  BY <1>1, <1>3
<1> QED BY <1>1, <1>3, <1>4, <1>5 DEF NewId

LEMMA KeyedShrinks ==
    ASSUME NEW table, Keyed(table), NEW rest, rest \subseteq table
    PROVE  Keyed(rest)
<1>1. Ids(rest) \subseteq Ids(table)
  BY DEF Ids
<1>2. IsFiniteSet(Ids(rest))
  BY <1>1, FS_Subset DEF Keyed
<1> QED BY <1>2 DEF Keyed

LEMMA KeyedGrows ==
    ASSUME NEW table, Keyed(table), \A row \in table : row.id \in Nat \ {0},
           NEW new, new.id = NewId(table)
    PROVE  Keyed(table \union {new})
<1>1. Ids(table \union {new}) = Ids(table) \union {new.id}
  BY DEF Ids
<1>2. IsFiniteSet(Ids(table \union {new}))
  <2>1. IsFiniteSet(Ids(table))
    BY DEF Keyed
  <2> QED BY <1>1, <2>1, FS_AddElement
<1>3. \A row \in table : row.id # new.id
  BY NewIdIsNew
<1> QED BY <1>2, <1>3 DEF Keyed

\* Two ways to say that the ids of a table are keys.
LEMMA KeyedCounts ==
    ASSUME NEW table, Keyed(table)
    PROVE  Cardinality(Ids(table)) = Cardinality(table)
<1> DEFINE key == [row \in table |-> row.id]
<1>1. key \in Injection(table, Ids(table))
  BY DEF Keyed, Ids, Injection, IsInjective
<1>2. key \in Surjection(table, Ids(table))
  BY DEF Ids, Surjection
<1>3. IsFiniteSet(Ids(table))
  BY DEF Keyed
<1> HIDE DEF key
<1> QED BY <1>1, <1>2, <1>3, FS_Injection

LEMMA IntIsInt ==
    ASSUME NEW version \in Int
    PROVE  ToInt(version) \in Int
<1>1. 2^(IntWidth - 1) \in Int /\ 2^IntWidth \in Int /\ 2^IntWidth > 0
  BY StoreAssumption
<1> DEFINE half == 2^(IntWidth - 1)
           width == 2^IntWidth
<1>2. half \in Int /\ width \in Int /\ width > 0
  BY <1>1
<1> HIDE DEF half, width
<1>3. ((version + half) % width) - half \in Int
  BY <1>2
<1> QED BY <1>3 DEF ToInt, half, width

-----------------------------------------------------------------------------
(* Types: what is read *)

LEMMA VersionsTyped ==
    ASSUME TypedWorld, NEW p \in Packages, NEW answer \in GetOrQueryPackageVersion(p)
    PROVE  /\ answer[1] # None => answer[1] \in Int
           /\ answer[2] = None \/ answer[2] \in [Packages -> MaybeVersion \union {Unversioned}]
<1>1. CASE version_map = None
  BY <1>1 DEF GetOrQueryPackageVersion
<1>2. CASE version_map # None
  <2>1. version_map \in [Packages -> MaybeVersion \union {Unversioned}]
    BY <1>2 DEF TypedWorld
  <2>2. Answer(p) \in Versions \union {Unversioned}
    BY DEF TypedWorld, Answer, MaybeVersion
  <2>3. version_map[p] # None => version_map[p] \in Versions \union {Unversioned}
    BY <2>1 DEF MaybeVersion
  <2>4. Versions \union {Unversioned} \subseteq Int
    BY StoreAssumption DEF Unversioned
  <2>5. [version_map EXCEPT ![p] = Answer(p)] \in [Packages -> MaybeVersion \union {Unversioned}]
    BY <2>1, <2>2 DEF MaybeVersion
  <2>6. \/ answer = <<version_map[p], version_map>> /\ version_map[p] # None
        \/ answer = <<Unversioned, version_map>>
        \/ answer = <<Answer(p), [version_map EXCEPT ![p] = Answer(p)]>>
    BY <1>2 DEF GetOrQueryPackageVersion
  <2> QED BY <2>1, <2>2, <2>3, <2>4, <2>5, <2>6
<1> QED BY <1>1, <1>2

LEMMA ComponentTyped ==
    ASSUME NEW p \in Packages, NEW a \in Activities, NEW version \in Int
    PROVE  Component(p, a, version) \in Components
BY IntIsInt DEF Component, Components

\* What a thread finds first in its lists, and the component it works on.
LEMMA InHandTyped ==
    ASSUME NEW t \in Threads, TypedThread(thread[t])
    PROVE  /\ thread[t].packages # {} =>
                 CurrentPackage(t) \in thread[t].packages /\ CurrentPackage(t) \in PackageRows
           /\ thread[t].activities # {} =>
                 CurrentActivity(t) \in thread[t].activities /\ CurrentActivity(t) \in ActivityRows
           /\ thread[t].rows # {} => CurrentRow(t) \in thread[t].rows
           /\ thread[t].pc \in OnActivity => Current(t) \in Components
<1>1. /\ thread[t].packages \subseteq PackageRows
      /\ thread[t].activities \subseteq ActivityRows
      /\ thread[t].rows \subseteq RawRows \union PrefetchRows \union ActivityRows
  BY DEF TypedThread, ThreadStates
<1>2. /\ \A r \in PackageRows : r.id \in Nat
      /\ \A r \in ActivityRows : r.id \in Nat
      /\ \A r \in RawRows : r.id \in Nat
      /\ \A r \in PrefetchRows : r.id \in Nat
  BY DEF PackageRows, ActivityRows, RawRows, PrefetchRows
<1>3. thread[t].packages # {} => CurrentPackage(t) \in thread[t].packages
  BY <1>1, <1>2, FirstIsRow DEF CurrentPackage
<1>4. thread[t].activities # {} => CurrentActivity(t) \in thread[t].activities
  BY <1>1, <1>2, FirstIsRow DEF CurrentActivity
<1>5. thread[t].rows # {} => CurrentRow(t) \in thread[t].rows
  <2>1. \A r \in thread[t].rows : r.id \in Nat
    BY <1>1, <1>2
  <2> QED BY <2>1, FirstIsRow DEF CurrentRow
<1>6. thread[t].pc \in OnActivity => Current(t) \in Components
  <2> HAVE thread[t].pc \in OnActivity
  <2>1. thread[t].package \in PackageRows /\ thread[t].activities # {}
    BY DEF TypedThread, OnPackage
  <2>2. CurrentActivity(t) \in ActivityRows
    BY <1>1, <1>4, <2>1
  <2> QED BY <2>1, <2>2 DEF Current, Components, PackageRows, ActivityRows
<1> QED BY <1>1, <1>3, <1>4, <1>5, <1>6

-----------------------------------------------------------------------------
(* Types: what stays the same *)

LEMMA SameTables ==
    ASSUME TypedTables, UNCHANGED database
    PROVE  TypedTables'
BY DEF TypedTables, Keyed, Ids, database, tables

LEMMA SameWorld ==
    ASSUME TypedWorld, UNCHANGED <<disk, mapVars, external, events>>
    PROVE  TypedWorld'
BY DEF TypedWorld, disk, mapVars, external

LEMMA SameLaunch ==
    ASSUME TypedLaunch, UNCHANGED launch
    PROVE  TypedLaunch'
BY DEF TypedLaunch

LEMMA SameIo ==
    ASSUME TypedIo, UNCHANGED <<pending, io>>
    PROVE  TypedIo'
BY DEF TypedIo

LEMMA SameThreads ==
    ASSUME TypedThreads, UNCHANGED thread
    PROVE  TypedThreads'
BY DEF TypedThreads

LEMMA ThreadSet ==
    ASSUME TypedThreads, NEW t \in Threads, NEW state, Set(t, state)
    PROVE  /\ thread' = [u \in Threads |-> thread'[u]]
           /\ thread'[t] = state
           /\ \A u \in Threads : u # t => thread'[u] = thread[u]
BY DEF TypedThreads, Set

LEMMA ThreadTyped ==
    ASSUME TypedThreads, NEW t \in Threads, NEW state, Set(t, state), TypedThread(state)
    PROVE  TypedThreads'
<1>1. \A u \in Threads : TypedThread(thread'[u])
  BY ThreadSet DEF TypedThreads
<1> QED BY <1>1, ThreadSet DEF TypedThreads

\* A thread moves; the tables and the disk may change.
LEMMA TypedMoves ==
    ASSUME Typed, NEW t \in Threads, NEW state, Set(t, state), TypedThread(state),
           TypedTables', TypedWorld', UNCHANGED <<launch, pending, io>>
    PROVE  Typed'
BY ThreadTyped, SameLaunch, SameIo DEF Typed

\* A thread moves and changes nothing.
LEMMA TypedLooks ==
    ASSUME Typed, NEW t \in Threads, NEW state, Set(t, state), TypedThread(state),
           UNCHANGED <<database, disk, mapVars, external, launch, pending, io, events>>
    PROVE  Typed'
BY TypedMoves, SameTables, SameWorld DEF Typed

LEMMA DroppedTyped ==
    ASSUME NEW t \in Threads, TypedThread(thread[t])
    PROVE  /\ TypedThread(DropPackage(t))
           /\ \A pc \in {"activities", "compile"} :
                 thread[t].pc \in OnPackage => TypedThread(DropActivity(t, pc))
<1>1. thread[t] \in ThreadStates
  BY DEF TypedThread
<1>2. TypedThread(DropPackage(t))
  BY <1>1 DEF DropPackage, TypedThread, ThreadStates, RowsAt, OnPackage, OnActivity,
     CleaningRaw, CleaningPrefetch, Compiling
<1>3. ASSUME NEW pc \in {"activities", "compile"}, thread[t].pc \in OnPackage
      PROVE  TypedThread(DropActivity(t, pc))
  BY <1>1, <1>3 DEF DropActivity, TypedThread, ThreadStates, RowsAt, OnPackage, OnActivity,
     CleaningRaw, CleaningPrefetch, Compiling
<1> QED BY <1>2, <1>3

-----------------------------------------------------------------------------
(* Types: clean-up *)

LEMMA CleanUpTyped ==
    ASSUME Typed, NEW t \in Threads, CleanUp(t)
    PROVE  Typed'
<1> USE DEF RowsAt, OnPackage, OnActivity, CleaningRaw, CleaningPrefetch, Compiling
<1>1. TypedThread(thread[t]) /\ TypedTables /\ TypedWorld
  BY DEF Typed, TypedThreads
<1>2. thread[t] \in ThreadStates
  BY <1>1 DEF TypedThread
<1>3. /\ RawTracesOf(Current(t)) \subseteq RawRows
      /\ PrefetchFilesOf(Current(t)) \subseteq PrefetchRows
      /\ \A p : ActivitiesOf(p) \subseteq ActivityRows
  BY <1>1 DEF TypedTables, RawTracesOf, PrefetchFilesOf, ActivitiesOf
<1>4. CASE CleanPackage(t)
  <2> DEFINE package == CurrentPackage(t)
             taken == [thread[t] EXCEPT !.pc = "activities", !.package = package,
                                        !.activities = ActivitiesOf(package.id)]
  <2>1. package \in PackageRows
    BY <1>1, <1>4, InHandTyped DEF CleanPackage
  <2>2. TypedThread(taken)
    <3> HIDE DEF package
    <3> QED BY <1>1, <1>2, <1>3, <1>4, <2>1 DEF CleanPackage, TypedThread, ThreadStates
  <2>3. TypedThread(DropPackage(t))
    BY <1>1, DroppedTyped
  <2>4. Set(t, taken) \/ Set(t, DropPackage(t))
    BY <1>4 DEF CleanPackage
  <2> HIDE DEF taken
  <2> QED BY <1>4, <2>2, <2>3, <2>4, TypedLooks DEF CleanPackage, history
<1>5. CASE SelectRawTraces(t)
  <2> DEFINE listed == [thread[t] EXCEPT !.pc = "raw_traces", !.rows = RawTracesOf(Current(t))]
  <2>1. TypedThread(listed)
    BY <1>1, <1>2, <1>3, <1>5 DEF SelectRawTraces, TypedThread, ThreadStates
  <2>2. Set(t, listed)
    BY <1>5 DEF SelectRawTraces
  <2> HIDE DEF listed
  <2> QED BY <1>5, <2>1, <2>2, TypedLooks DEF SelectRawTraces, history
<1>6. CASE RemoveRawTrace(t)
  <2> DEFINE removed == [thread[t] EXCEPT !.pc = "raw_removed"]
  <2>1. TypedThread(removed)
    BY <1>1, <1>2, <1>6 DEF RemoveRawTrace, TypedThread, ThreadStates
  <2>2. Set(t, removed)
    BY <1>6 DEF RemoveRawTrace
  <2>3. TypedWorld'
    BY <1>1, <1>6 DEF RemoveRawTrace, TypedWorld, mapVars, external, history
  <2>4. TypedTables'
    BY <1>1, <1>6, SameTables DEF RemoveRawTrace
  <2> HIDE DEF removed
  <2> QED BY <1>6, <2>1, <2>2, <2>3, <2>4, TypedMoves DEF RemoveRawTrace
<1>7. CASE DeleteRawTrace(t)
  <2> DEFINE rest == [thread[t] EXCEPT !.pc = "raw_traces", !.rows = @ \ {CurrentRow(t)}]
  <2>1. TypedThread(rest)
    BY <1>1, <1>2, <1>7 DEF DeleteRawTrace, TypedThread, ThreadStates
  <2>2. Set(t, rest)
    BY <1>7 DEF DeleteRawTrace
  <2>3. raw_traces' \subseteq raw_traces
    BY <1>7 DEF DeleteRawTrace, Delete
  <2>4. Keyed(raw_traces')
    BY <1>1, <2>3, KeyedShrinks DEF TypedTables
  <2>5. TypedTables'
    BY <1>1, <1>7, <2>3, <2>4 DEF DeleteRawTrace, TypedTables, Keyed, Ids
  <2>6. TypedWorld'
    BY <1>1, <1>7, SameWorld DEF DeleteRawTrace, history
  <2> HIDE DEF rest
  <2> QED BY <1>7, <2>1, <2>2, <2>5, <2>6, TypedMoves DEF DeleteRawTrace
<1>8. CASE SelectPrefetchFile(t)
  <2>1. PICK found \in LimitOne(PrefetchFilesOf(Current(t))) :
          Set(t, IF found = {} THEN DropActivity(t, "activities")
                 ELSE [thread[t] EXCEPT !.pc = "prefetch_file", !.rows = found])
    BY <1>8 DEF SelectPrefetchFile
  <2> DEFINE chosen == [thread[t] EXCEPT !.pc = "prefetch_file", !.rows = found]
  <2>2. found \subseteq PrefetchRows
    BY <1>3 DEF LimitOne
  <2>3. found # {} => TypedThread(chosen)
    BY <1>1, <1>2, <1>8, <2>2 DEF SelectPrefetchFile, TypedThread, ThreadStates
  <2>4. TypedThread(DropActivity(t, "activities"))
    BY <1>1, <1>8, DroppedTyped DEF SelectPrefetchFile
  <2>5. \/ Set(t, DropActivity(t, "activities"))
        \/ Set(t, chosen) /\ TypedThread(chosen)
    BY <2>1, <2>3
  <2> HIDE DEF chosen
  <2> QED BY <1>8, <2>4, <2>5, TypedLooks DEF SelectPrefetchFile, history
<1>9. CASE RemovePrefetchFile(t)
  <2> DEFINE removed == [thread[t] EXCEPT !.pc = "prefetch_removed"]
  <2>1. TypedThread(removed)
    BY <1>1, <1>2, <1>9 DEF RemovePrefetchFile, TypedThread, ThreadStates
  <2>2. Set(t, removed)
    BY <1>9 DEF RemovePrefetchFile
  <2>3. compiled' \subseteq compiled
    BY <1>9 DEF RemovePrefetchFile
  <2>4. TypedWorld'
    BY <1>1, <1>9, <2>3 DEF RemovePrefetchFile, TypedWorld, mapVars, external, history
  <2>5. TypedTables'
    BY <1>1, <1>9, SameTables DEF RemovePrefetchFile
  <2> HIDE DEF removed
  <2> QED BY <1>9, <2>1, <2>2, <2>4, <2>5, TypedMoves DEF RemovePrefetchFile
<1>10. CASE DeletePrefetchFile(t)
  <2>1. Set(t, DropActivity(t, "activities")) /\ TypedThread(DropActivity(t, "activities"))
    BY <1>1, <1>10, DroppedTyped DEF DeletePrefetchFile
  <2>2. prefetch_files' \subseteq prefetch_files
    BY <1>10 DEF DeletePrefetchFile, Delete
  <2>3. Keyed(prefetch_files')
    BY <1>1, <2>2, KeyedShrinks DEF TypedTables
  <2>4. TypedTables'
    BY <1>1, <1>10, <2>2, <2>3 DEF DeletePrefetchFile, TypedTables, Keyed, Ids
  <2>5. TypedWorld'
    BY <1>1, <1>10, SameWorld DEF DeletePrefetchFile, history
  <2> QED BY <1>10, <2>1, <2>4, <2>5, TypedMoves DEF DeletePrefetchFile
<1>11. CASE FinishPackage(t)
  <2>1. Set(t, DropPackage(t)) /\ TypedThread(DropPackage(t))
    BY <1>1, <1>11, DroppedTyped DEF FinishPackage
  <2>2. TypedTables'
    <3>1. CASE UNCHANGED database
      BY <1>1, <3>1, SameTables
    <3>2. CASE DeletePackage(thread[t].package.id)
      <4>1. /\ packages' \subseteq packages
            /\ activities' \subseteq activities
            /\ app_launch_histories' \subseteq app_launch_histories
            /\ raw_traces' \subseteq raw_traces
            /\ prefetch_files' \subseteq prefetch_files
            /\ UNCHANGED foreign_keys
        BY <3>2 DEF DeletePackage, Delete
      <4>2. /\ Keyed(packages') /\ Keyed(activities') /\ Keyed(app_launch_histories')
            /\ Keyed(raw_traces') /\ Keyed(prefetch_files')
        BY <1>1, <4>1, KeyedShrinks DEF TypedTables
      <4> QED BY <1>1, <4>1, <4>2 DEF TypedTables, Keyed, Ids
    <3> QED BY <1>11, <3>1, <3>2 DEF FinishPackage
  <2>3. TypedWorld'
    BY <1>1, <1>11, SameWorld DEF FinishPackage
  <2> QED BY <1>11, <2>1, <2>2, <2>3, TypedMoves DEF FinishPackage
<1> QED BY <1>4, <1>5, <1>6, <1>7, <1>8, <1>9, <1>10, <1>11 DEF CleanUp

-----------------------------------------------------------------------------
(* Types: maintenance, requests, package changes *)

\* A thread that takes up packages, or none.
LEMMA BegunTyped ==
    ASSUME NEW job \in {"purge", "compile"}, NEW rows \in SUBSET PackageRows
    PROVE  /\ TypedThread(Idle)
           /\ TypedThread([Idle EXCEPT !.job = job, !.pc = "packages", !.packages = rows])
BY DEF TypedThread, ThreadStates, Idle, RowsAt, OnPackage, OnActivity, CleaningRaw,
       CleaningPrefetch, Compiling

LEMMA MaintenanceTyped ==
    ASSUME Typed, Maintenance
    PROVE  Typed'
<1> USE DEF RowsAt, OnPackage, OnActivity, CleaningRaw, CleaningPrefetch, Compiling
<1>1. "worker" \in Threads /\ TypedThread(thread["worker"]) /\ TypedTables /\ TypedWorld
  BY DEF Typed, TypedThreads, Threads
<1>2. thread["worker"] \in ThreadStates
  BY <1>1 DEF TypedThread
<1>3. CASE StartMaintenance
  <2> DEFINE started == [Idle EXCEPT !.job = "maintenance", !.pc = "update"]
  <2>1. TypedThread(started)
    BY DEF TypedThread, ThreadStates, Idle
  <2>2. Set("worker", started)
    BY <1>3 DEF StartMaintenance
  <2> HIDE DEF started
  <2> QED BY <1>1, <1>3, <2>1, <2>2, TypedLooks DEF StartMaintenance, history
<1>4. CASE UpdateAllSucceeds \/ UpdateAllFails
  <2> DEFINE updated == [thread["worker"] EXCEPT !.pc = "select"]
  <2>1. PICK map : UpdateAll(map) /\ map \in {installed, version_map}
    BY <1>4 DEF UpdateAllSucceeds, UpdateAllFails
  <2>2. TypedThread(updated)
    BY <1>1, <1>2, <2>1 DEF UpdateAll, TypedThread, ThreadStates
  <2>3. Set("worker", updated)
    BY <2>1 DEF UpdateAll
  <2>4. TypedWorld'
    BY <1>1, <2>1 DEF UpdateAll, TypedWorld, disk, external, history, MaybeVersion
  <2>5. TypedTables'
    BY <1>1, <2>1, SameTables DEF UpdateAll
  <2> HIDE DEF updated
  <2> QED BY <1>1, <2>1, <2>2, <2>3, <2>4, <2>5, TypedMoves DEF UpdateAll
<1>5. CASE SelectPackages
  <2> DEFINE listed == [thread["worker"] EXCEPT !.pc = "packages", !.packages = packages]
  <2>1. TypedThread(listed)
    BY <1>1, <1>2, <1>5 DEF SelectPackages, TypedThread, ThreadStates, TypedTables
  <2>2. Set("worker", listed)
    BY <1>5 DEF SelectPackages
  <2>3. TypedTables'
    BY <1>1, <1>5 DEF SelectPackages, TypedTables, Keyed, Ids, tables
  <2>4. TypedWorld'
    BY <1>1, <1>5, SameWorld DEF SelectPackages, history
  <2> HIDE DEF listed
  <2> QED BY <1>1, <1>5, <2>1, <2>2, <2>3, <2>4, TypedMoves DEF SelectPackages
<1> QED BY <1>3, <1>4, <1>5 DEF Maintenance

LEMMA RequestTyped ==
    ASSUME Typed, Request
    PROVE  Typed'
<1>1. "binder" \in Threads /\ TypedTables /\ TypedWorld
  BY DEF Typed, Threads
<1>2. PICK p \in Packages : Purge(p) \/ Compile(p)
  BY DEF Request
<1>3. PackagesNamed(p) \in SUBSET PackageRows
  BY <1>1 DEF TypedTables, PackagesNamed
<1>4. PICK job \in {"purge", "compile"} :
         Set("binder", [Idle EXCEPT !.job = job, !.pc = "packages", !.packages = PackagesNamed(p)])
  BY <1>2 DEF Purge, Compile
<1> DEFINE begun == [Idle EXCEPT !.job = job, !.pc = "packages", !.packages = PackagesNamed(p)]
<1>5. TypedThread(begun) /\ Set("binder", begun)
  BY <1>3, <1>4, BegunTyped
<1>6. TypedTables'
  BY <1>1, <1>2, SameTables DEF Purge, Compile
<1>7. events' \in 0 .. MaxEvents
  BY <1>1, <1>2, StoreAssumption DEF Purge, Compile, Event, TypedWorld
<1>8. TypedWorld'
  BY <1>1, <1>2, <1>7 DEF Purge, Compile, TypedWorld, disk, mapVars, external
<1> HIDE DEF begun
<1> QED BY <1>1, <1>2, <1>5, <1>6, <1>8, TypedMoves DEF Purge, Compile

LEMMA OnPackageChangedTyped ==
    ASSUME Typed, OnPackageChanged
    PROVE  Typed'
<1> DEFINE event == Head(changes)
<1>1. "binder" \in Threads /\ TypedTables /\ TypedWorld /\ TypedLaunch /\ TypedIo /\ TypedThreads
  BY DEF Typed, Threads
<1> DEFINE Events == [package : Packages, version : MaybeVersion]
<1>2. event \in Events /\ Tail(changes) \in Seq(Events)
  <2>1. changes \in Seq(Events) /\ changes # <<>>
    BY <1>1 DEF OnPackageChanged, TypedWorld
  <2> HIDE DEF Events
  <2> QED BY <2>1
<1>3. changes' \in Seq([package : Packages, version : MaybeVersion])
  BY <1>2 DEF OnPackageChanged
<1>4. \/ UNCHANGED version_map
      \/ /\ IsNews(event)
         /\ version_map' = [version_map EXCEPT ![event.package] = event.version]
  BY DEF OnPackageChanged
<1>5. version_map' = None \/ version_map' \in [Packages -> MaybeVersion \union {Unversioned}]
  <2> HIDE DEF event
  <2> QED BY <1>1, <1>2, <1>4 DEF TypedWorld, IsNews
<1>6. TypedWorld'
  BY <1>1, <1>3, <1>5 DEF OnPackageChanged, TypedWorld, disk, history
<1>7. TypedTables' /\ TypedLaunch' /\ TypedIo'
  BY <1>1, SameTables, SameLaunch, SameIo DEF OnPackageChanged
<1>8. CASE UNCHANGED thread
  BY <1>1, <1>6, <1>7, <1>8, SameThreads DEF Typed
<1>9. CASE \E found \in LimitOne(PackagesNamedVersion(event.package, ToInt(event.version))) :
              Set("binder", [Idle EXCEPT !.job = "purge", !.pc = "packages", !.packages = found])
  <2>1. PICK found \in LimitOne(PackagesNamedVersion(event.package, ToInt(event.version))) :
              Set("binder", [Idle EXCEPT !.job = "purge", !.pc = "packages", !.packages = found])
    BY <1>9
  <2>2. found \in SUBSET PackageRows
    BY <1>1 DEF LimitOne, PackagesNamedVersion, PackagesNamed, TypedTables
  <2> DEFINE begun == [Idle EXCEPT !.job = "purge", !.pc = "packages", !.packages = found]
  <2>3. TypedThread(begun) /\ Set("binder", begun)
    BY <2>1, <2>2, BegunTyped
  <2> HIDE DEF begun
  <2> QED BY <1>1, <1>6, <1>7, <2>3, ThreadTyped DEF Typed
<1> QED BY <1>8, <1>9 DEF OnPackageChanged

LEMMA FinishPackagesTyped ==
    ASSUME Typed, NEW t \in Threads, FinishPackages(t)
    PROVE  Typed'
<1> DEFINE compiling == [Idle EXCEPT !.job = "compile", !.pc = "packages", !.packages = packages]
<1>1. TypedThread(Idle) /\ TypedThread(compiling)
  BY BegunTyped DEF Typed, TypedTables
<1>2. Set(t, Idle) \/ Set(t, compiling)
  BY DEF FinishPackages
<1> HIDE DEF compiling
<1> QED BY <1>1, <1>2, TypedLooks DEF FinishPackages, history

-----------------------------------------------------------------------------
(* Types: compilation *)

LEMMA CompileStepTyped ==
    ASSUME Typed, NEW t \in Threads, CompileStep(t)
    PROVE  Typed'
<1> USE DEF RowsAt, OnPackage, OnActivity, CleaningRaw, CleaningPrefetch, Compiling
<1>1. TypedThread(thread[t]) /\ TypedTables /\ TypedWorld
  BY DEF Typed, TypedThreads
<1>2. thread[t] \in ThreadStates
  BY <1>1 DEF TypedThread
<1>3. TypedThread(DropPackage(t)) /\ (thread[t].pc \in OnPackage => TypedThread(DropActivity(t, "compile")))
  BY <1>1, DroppedTyped
<1>4. CASE CompilePackage(t)
  <2>1. CASE Set(t, DropPackage(t))
    BY <1>3, <1>4, <2>1, TypedLooks DEF CompilePackage, history
  <2>2. CASE ~Set(t, DropPackage(t))
    <3>1. PICK package \in PackagesNamedVersion(CurrentPackage(t).name, CurrentPackage(t).version) :
            Set(t, [thread[t] EXCEPT !.pc = "compile", !.package = package,
                                     !.activities = ActivitiesOf(package.id)])
      BY <1>4, <2>2 DEF CompilePackage
    <3>2. package \in PackageRows /\ ActivitiesOf(package.id) \subseteq ActivityRows
      BY <1>1 DEF PackagesNamedVersion, PackagesNamed, ActivitiesOf, TypedTables
    <3> DEFINE entered == [thread[t] EXCEPT !.pc = "compile", !.package = package,
                                            !.activities = ActivitiesOf(package.id)]
    <3>3. TypedThread(entered)
      BY <1>1, <1>2, <1>4, <3>2 DEF CompilePackage, TypedThread, ThreadStates
    <3>4. Set(t, entered)
      BY <3>1
    <3> HIDE DEF entered
    <3> QED BY <1>4, <3>3, <3>4, TypedLooks DEF CompilePackage, history
  <2> QED BY <2>1, <2>2
<1>5. CASE CheckCompiled(t)
  <2> DEFINE missing == [thread[t] EXCEPT !.pc = "traces"]
  <2>1. TypedThread(missing)
    BY <1>1, <1>2, <1>5 DEF CheckCompiled, TypedThread, ThreadStates
  <2>2. TypedThread(DropActivity(t, "compile"))
    BY <1>3, <1>5 DEF CheckCompiled
  <2>3. Set(t, missing) \/ Set(t, DropActivity(t, "compile"))
    BY <1>5 DEF CheckCompiled
  <2> HIDE DEF missing
  <2> QED BY <1>5, <2>1, <2>2, <2>3, TypedLooks DEF CheckCompiled, history
<1>6. CASE SelectTraces(t)
  <2>1. PICK found \in LimitOne(ActivityNamed(CurrentActivity(t).name, thread[t].package.id)) :
          Set(t, IF \E row \in found : Cardinality(Inputs(row.id)) >= MinTraces
                 THEN [thread[t] EXCEPT !.pc = "forked", !.rows = found]
                 ELSE DropActivity(t, "compile"))
    BY <1>6 DEF SelectTraces
  <2>2. found \subseteq ActivityRows
    BY <1>1 DEF LimitOne, ActivityNamed, ActivitiesOf, TypedTables
  <2> DEFINE forked == [thread[t] EXCEPT !.pc = "forked", !.rows = found]
  <2>3. found # {} => TypedThread(forked)
    BY <1>1, <1>2, <1>6, <2>2 DEF SelectTraces, TypedThread, ThreadStates
  <2>4. TypedThread(DropActivity(t, "compile"))
    BY <1>3, <1>6 DEF SelectTraces
  <2>5. \/ Set(t, forked) /\ TypedThread(forked)
        \/ Set(t, DropActivity(t, "compile"))
    BY <2>1, <2>3
  <2> HIDE DEF forked
  <2> QED BY <1>6, <2>4, <2>5, TypedLooks DEF SelectTraces, history
<1>7. CASE OpenOutput(t)
  <2> DEFINE writing == [thread[t] EXCEPT !.pc = "writing"]
  <2>1. TypedThread(writing)
    BY <1>1, <1>2, <1>7 DEF OpenOutput, TypedThread, ThreadStates
  <2>2. Set(t, writing)
    BY <1>7 DEF OpenOutput
  <2>3. PICK writers : /\ writers = UNION {f.writers : f \in FileOf(Current(t))}
                       /\ compiled' = (compiled \ FileOf(Current(t))) \union
                             {[component |-> Current(t), writers |-> writers \union {t},
                               whole |-> FALSE]}
    BY <1>7 DEF OpenOutput
  <2>4. writers \subseteq Threads
    <3>1. \A f \in compiled : f.writers \subseteq Threads
      BY <1>1 DEF TypedWorld, Outputs
    <3> QED BY <2>3, <3>1 DEF FileOf
  <2>5. Current(t) \in Components
    BY <1>1, <1>7, InHandTyped DEF OpenOutput
  <2>6. [component |-> Current(t), writers |-> writers \union {t}, whole |-> FALSE] \in Outputs
    BY <2>4, <2>5 DEF Outputs
  <2>7. TypedWorld'
    BY <1>1, <1>7, <2>3, <2>6 DEF OpenOutput, TypedWorld, mapVars, external, history
  <2>8. TypedTables'
    BY <1>1, <1>7, SameTables DEF OpenOutput
  <2> HIDE DEF writing
  <2> QED BY <1>7, <2>1, <2>2, <2>7, <2>8, TypedMoves DEF OpenOutput
<1>8. CASE CompilerSucceeds(t) \/ CompilerFails(t)
  <2> DEFINE closed == [thread[t] EXCEPT !.pc = "insert"]
  <2>1. CompilerSucceeds(t) => TypedThread(closed) /\ Set(t, closed)
    BY <1>1, <1>2 DEF CompilerSucceeds, TypedThread, ThreadStates
  <2>2. CompilerFails(t) => TypedThread(DropActivity(t, "compile")) /\ Set(t, DropActivity(t, "compile"))
    BY <1>3 DEF CompilerFails
  <2>3. PICK whole \in BOOLEAN : Close(t, whole)
    BY <1>8 DEF CompilerSucceeds, CompilerFails
  <2>4. compiled' \subseteq Outputs
    <3>1. \A f \in Outputs : [f EXCEPT !.writers = @ \ {t}, !.whole = whole] \in Outputs
      BY DEF Outputs
    <3> QED BY <1>1, <2>3, <3>1 DEF Close, TypedWorld
  <2>5. TypedWorld'
    BY <1>1, <1>8, <2>4 DEF CompilerSucceeds, CompilerFails, TypedWorld, mapVars, external, history
  <2>6. TypedTables'
    BY <1>1, <1>8, SameTables DEF CompilerSucceeds, CompilerFails
  <2> HIDE DEF closed
  <2> QED BY <1>8, <2>1, <2>2, <2>5, <2>6, TypedMoves DEF CompilerSucceeds, CompilerFails
<1>9. CASE InsertPrefetchFile(t)
  <2>1. Set(t, DropActivity(t, "compile")) /\ TypedThread(DropActivity(t, "compile"))
    BY <1>3, <1>9 DEF InsertPrefetchFile
  <2>2. PICK row \in thread[t].rows :
          prefetch_files' \in {prefetch_files, prefetch_files \union {NewPrefetchFile(row.id, Current(t))}}
    BY <1>9 DEF InsertPrefetchFile
  <2>3. row \in ActivityRows /\ row.id \in Nat \ {0}
    BY <1>1, <1>9 DEF InsertPrefetchFile, TypedThread, ActivityRows
  <2>4. Current(t) \in Components
    BY <1>1, <1>9, InHandTyped DEF InsertPrefetchFile
  <2>5. \A f \in prefetch_files : f.id \in Nat \ {0}
    BY <1>1 DEF TypedTables, PrefetchRows
  <2>6. NewPrefetchFile(row.id, Current(t)) \in PrefetchRows
    BY <1>1, <2>3, <2>4, <2>5, NewIdIsNew DEF NewPrefetchFile, PrefetchRows, TypedTables
  <2>7. Keyed(prefetch_files')
    <3>1. NewPrefetchFile(row.id, Current(t)).id = NewId(prefetch_files)
      BY DEF NewPrefetchFile
    <3>2. Keyed(prefetch_files \union {NewPrefetchFile(row.id, Current(t))})
      BY <1>1, <2>5, <3>1, KeyedGrows DEF TypedTables
    <3> QED BY <1>1, <2>2, <3>2 DEF TypedTables
  <2>8. TypedTables'
    BY <1>1, <1>9, <2>2, <2>6, <2>7 DEF InsertPrefetchFile, TypedTables, Keyed, Ids
  <2>9. TypedWorld'
    BY <1>1, <1>9, SameWorld DEF InsertPrefetchFile, history
  <2> QED BY <1>9, <2>1, <2>8, <2>9, TypedMoves DEF InsertPrefetchFile
<1>10. CASE FinishCompilePackage(t)
  BY <1>3, <1>10, TypedLooks DEF FinishCompilePackage, history
<1> QED BY <1>4, <1>5, <1>6, <1>7, <1>8, <1>9, <1>10 DEF CompileStep

-----------------------------------------------------------------------------
(* Types: launches and traces *)

LEMMA LaunchAdvances ==
    ASSUME NEW state \in LaunchStates, NEW id \in Int,
           NEW pc \in {"version", "package", "activity"}
    PROVE  /\ [state EXCEPT !.pc = pc, !.id = id] \in LaunchStates
           /\ [state EXCEPT !.pc = pc, !.id = id].id = id
BY DEF LaunchStates

LEMMA LaunchStepTyped ==
    ASSUME Typed, LaunchStep
    PROVE  Typed'
<1>1. TypedTables /\ TypedWorld /\ TypedLaunch /\ TypedIo /\ TypedThreads
  BY DEF Typed
<1>2. /\ launch.pc # "none" => launch \in LaunchStates
      /\ launch.pc \in {"package", "activity"} => launch.id \in Nat \ {0}
  <2>1. NoLaunch.pc = "none"
    BY DEF NoLaunch
  <2> QED BY <1>1, <2>1 DEF TypedLaunch
<1>3. CASE \E p \in Packages, a \in Activities, traced \in BOOLEAN : StartLaunch(p, a, traced)
  <2>1. PICK p \in Packages, a \in Activities, traced \in BOOLEAN : StartLaunch(p, a, traced)
    BY <1>3
  <2>2. PICK answer \in IF traced THEN GetOrQueryPackageVersion(p) ELSE {<<None, version_map>>} :
          /\ launch' = [pc |-> "started", number |-> events, package |-> p, activity |-> a,
                        id |-> 0, trace |-> IF answer[1] = None THEN None
                                            ELSE Component(p, a, answer[1])]
          /\ version_map' = answer[2]
    BY <2>1 DEF StartLaunch
  <2>3. /\ answer[1] # None => answer[1] \in Int
        /\ answer[2] = None \/ answer[2] \in [Packages -> MaybeVersion \union {Unversioned}]
    BY <1>1, VersionsTyped DEF TypedWorld
  <2>4. events \in 0 .. MaxEvents /\ events' \in 0 .. MaxEvents
    BY <1>1, <2>1, StoreAssumption DEF StartLaunch, Event, TypedWorld
  <2>5. (IF answer[1] = None THEN None ELSE Component(p, a, answer[1])) \in Components \union {None}
    BY <2>3, ComponentTyped
  <2>6. launch' \in LaunchStates /\ launch'.pc = "started"
    BY <2>2, <2>4, <2>5 DEF LaunchStates
  <2>7. TypedLaunch'
    BY <2>6 DEF TypedLaunch
  <2>8. TypedWorld'
    BY <1>1, <2>1, <2>2, <2>3, <2>4 DEF StartLaunch, TypedWorld, disk, external
  <2>9. TypedTables' /\ TypedIo' /\ TypedThreads'
    BY <1>1, <2>1, SameTables, SameIo, SameThreads DEF StartLaunch
  <2> QED BY <2>7, <2>8, <2>9 DEF Typed
<1>4. CASE LookUpVersion
  <2>1. PICK answer \in GetOrQueryPackageVersion(launch.package) :
          /\ launch' = IF answer[1] = None THEN NoLaunch
                       ELSE [launch EXCEPT !.pc = "version", !.id = ToInt(answer[1])]
          /\ version_map' = answer[2]
    BY <1>4 DEF LookUpVersion
  <2>2. launch \in LaunchStates /\ launch.package \in Packages
    BY <1>2, <1>4 DEF LookUpVersion, LaunchStates
  <2>3. /\ answer[1] # None => ToInt(answer[1]) \in Int
        /\ answer[2] = None \/ answer[2] \in [Packages -> MaybeVersion \union {Unversioned}]
    BY <1>1, <2>2, VersionsTyped, IntIsInt
  <2>4. TypedLaunch'
    BY <2>1, <2>2, <2>3 DEF TypedLaunch, LaunchStates
  <2>5. TypedWorld'
    BY <1>1, <1>4, <2>1, <2>3 DEF LookUpVersion, TypedWorld, disk, external, history
  <2>6. TypedTables' /\ TypedIo' /\ TypedThreads'
    BY <1>1, <1>4, SameTables, SameIo, SameThreads DEF LookUpVersion
  <2> QED BY <2>4, <2>5, <2>6 DEF Typed
<1>5. CASE SelectOrInsertPackage
  <2> DEFINE new == NewPackage(launch.package, launch.id)
  <2>1. launch \in LaunchStates /\ \A row \in packages : row.id \in Nat \ {0}
    BY <1>1, <1>2, <1>5 DEF SelectOrInsertPackage, TypedTables, PackageRows
  <2>2. new \in PackageRows
    BY <1>1, <2>1, NewIdIsNew DEF NewPackage, PackageRows, LaunchStates, TypedTables
  <2>3. /\ packages' \in {packages, packages \union {new}}
        /\ \E row \in packages \union {new} : launch' = [launch EXCEPT !.pc = "package", !.id = row.id]
    BY <1>5 DEF SelectOrInsertPackage, PackagesNamedVersion, PackagesNamed
  <2>4. Keyed(packages \union {new})
    BY <1>1, <2>1, KeyedGrows DEF NewPackage, TypedTables
  <2>5. new.id \in Nat \ {0}
    BY <2>2 DEF PackageRows
  <2> HIDE DEF new
  <2>6. TypedLaunch'
    <3>1. PICK row \in packages \union {new} : launch' = [launch EXCEPT !.pc = "package", !.id = row.id]
      BY <2>3
    <3>2. row.id \in Nat \ {0}
      BY <2>1, <2>5
    <3>3. /\ [launch EXCEPT !.pc = "package", !.id = row.id] \in LaunchStates
          /\ [launch EXCEPT !.pc = "package", !.id = row.id].id = row.id
      <4>1. launch \in LaunchStates /\ row.id \in Int /\ "package" \in {"version", "package", "activity"}
        BY <2>1, <3>2
      <4> QED BY <4>1, LaunchAdvances, Zenon
    <3> QED BY <3>1, <3>2, <3>3 DEF TypedLaunch
  <2>7. TypedTables'
    BY <1>1, <1>5, <2>2, <2>3, <2>4 DEF SelectOrInsertPackage, TypedTables, Keyed, Ids
  <2>8. TypedWorld' /\ TypedIo' /\ TypedThreads'
    BY <1>1, <1>5, SameWorld, SameIo, SameThreads DEF SelectOrInsertPackage, history
  <2> QED BY <2>6, <2>7, <2>8 DEF Typed
<1>6. CASE SelectOrInsertActivity
  <2> DEFINE new == NewActivity(launch.activity, launch.id)
  <2>1. /\ launch \in LaunchStates /\ launch.id \in Nat \ {0}
        /\ \A row \in activities : row.id \in Nat \ {0}
    BY <1>1, <1>2, <1>6 DEF SelectOrInsertActivity, TypedTables, ActivityRows
  <2>2. new \in ActivityRows
    BY <1>1, <2>1, NewIdIsNew DEF NewActivity, ActivityRows, LaunchStates, TypedTables
  <2>3. /\ activities' \in {activities, activities \union {new}}
        /\ \/ launch' = NoLaunch
           \/ \E row \in activities \union {new} :
                 launch' = [launch EXCEPT !.pc = "activity", !.id = row.id]
    BY <1>6 DEF SelectOrInsertActivity, ActivityNamed, ActivitiesOf
  <2>4. Keyed(activities \union {new})
    BY <1>1, <2>1, KeyedGrows DEF NewActivity, TypedTables
  <2>5. new.id \in Nat \ {0}
    BY <2>2 DEF ActivityRows
  <2> HIDE DEF new
  <2>6. TypedLaunch'
    <3>1. CASE launch' = NoLaunch
      BY <3>1 DEF TypedLaunch
    <3>2. CASE launch' # NoLaunch
      <4>1. PICK row \in activities \union {new} :
               launch' = [launch EXCEPT !.pc = "activity", !.id = row.id]
        BY <2>3, <3>2
      <4>2. row.id \in Nat \ {0}
        BY <2>1, <2>5
      <4>3. /\ [launch EXCEPT !.pc = "activity", !.id = row.id] \in LaunchStates
            /\ [launch EXCEPT !.pc = "activity", !.id = row.id].id = row.id
        <5>1. launch \in LaunchStates /\ row.id \in Int /\ "activity" \in {"version", "package", "activity"}
          BY <2>1, <4>2
        <5> QED BY <5>1, LaunchAdvances, Zenon
      <4> QED BY <4>1, <4>2, <4>3 DEF TypedLaunch
    <3> QED BY <3>1, <3>2
  <2>7. TypedTables'
    BY <1>1, <1>6, <2>2, <2>3, <2>4 DEF SelectOrInsertActivity, TypedTables, Keyed, Ids
  <2>8. TypedWorld' /\ TypedIo' /\ TypedThreads'
    BY <1>1, <1>6, SameWorld, SameIo, SameThreads DEF SelectOrInsertActivity, history
  <2> QED BY <2>6, <2>7, <2>8 DEF Typed
<1>7. CASE InsertHistory
  <2> DEFINE new == NewHistory(launch.id, launch.trace # None, launch.number)
             trace == [component |-> launch.trace, launch |-> launch.number, history_id |-> new.id]
  <2>1. /\ launch \in LaunchStates /\ launch.id \in Nat \ {0}
        /\ \A row \in app_launch_histories : row.id \in Nat \ {0}
    BY <1>1, <1>2, <1>7 DEF InsertHistory, TypedTables, HistoryRows
  <2>2. new \in HistoryRows
    BY <1>1, <2>1, NewIdIsNew DEF NewHistory, HistoryRows, LaunchStates, TypedTables
  <2>3. /\ app_launch_histories' \in {app_launch_histories, app_launch_histories \union {new}}
        /\ pending' = pending \/ (launch.trace # None /\ pending' = pending \union {trace})
        /\ launch' = NoLaunch
    BY <1>7 DEF InsertHistory
  <2>4. Keyed(app_launch_histories \union {new})
    BY <1>1, <2>1, KeyedGrows DEF NewHistory, TypedTables
  <2>5. new.id \in Nat \ {0}
    BY <2>2 DEF HistoryRows
  <2> HIDE DEF new
  <2>6. launch.trace # None => trace \in Traces
    BY <2>1, <2>5 DEF Traces, LaunchStates
  <2> HIDE DEF trace
  <2>7. TypedLaunch'
    BY <2>3 DEF TypedLaunch
  <2>8. TypedTables'
    BY <1>1, <1>7, <2>2, <2>3, <2>4 DEF InsertHistory, TypedTables, Keyed, Ids
  <2>9. TypedIo'
    BY <1>1, <1>7, <2>3, <2>6 DEF InsertHistory, TypedIo
  <2>10. TypedWorld' /\ TypedThreads'
    BY <1>1, <1>7, SameWorld, SameThreads DEF InsertHistory, history
  <2> QED BY <2>7, <2>8, <2>9, <2>10 DEF Typed
<1> QED BY <1>3, <1>4, <1>5, <1>6, <1>7 DEF LaunchStep

LEMMA IoStepTyped ==
    ASSUME Typed, IoStep
    PROVE  Typed'
<1>1. TypedTables /\ TypedWorld /\ TypedLaunch /\ TypedIo /\ TypedThreads
  BY DEF Typed
<1>2. io \in IoStates
  BY <1>1 DEF TypedIo
<1>3. IoIdle \in IoStates /\ IoIdle.pc = "idle" /\ IoIdle.rows = {}
  BY DEF IoIdle, IoStates
<1>4. ASSUME io.pc \in {"pruning", "removed"}
      PROVE  /\ First(io.rows) \in io.rows
             /\ IoAfter(io.rows) \in IoStates
             /\ IoAfter(io.rows).pc # "idle" => IoAfter(io.rows).trace \in Traces
             /\ IoAfter(io.rows).rows # {} <=> IoAfter(io.rows).pc \in {"pruning", "removed"}
  <2>1. io.rows # {} /\ io.rows \subseteq RawRows /\ io.trace \in Traces
    BY <1>1, <1>2, <1>4 DEF TypedIo, IoStates
  <2>2. \A r \in io.rows : r.id \in Nat
    BY <2>1 DEF RawRows
  <2>3. First(io.rows) \in io.rows
    BY <2>1, <2>2, FirstIsRow
  <2> QED BY <1>2, <1>3, <2>1, <2>3 DEF IoAfter, IoStates
<1>5. CASE \E t \in pending : WriteTrace(t)
  <2>1. PICK t \in pending : WriteTrace(t)
    BY <1>5
  <2>2. t \in Traces
    BY <1>1 DEF TypedIo
  <2>3. TypedIo'
    BY <1>1, <1>2, <2>1, <2>2 DEF WriteTrace, TypedIo, IoStates
  <2>4. [component |-> t.component, launch |-> t.launch] \in RawFiles
    BY <2>2 DEF Traces, RawFiles
  <2>5. TypedWorld'
    BY <1>1, <2>1, <2>4 DEF WriteTrace, TypedWorld, mapVars, external, history
  <2>6. TypedTables' /\ TypedLaunch' /\ TypedThreads'
    BY <1>1, <2>1, SameTables, SameLaunch, SameThreads DEF WriteTrace
  <2> QED BY <2>3, <2>5, <2>6 DEF Typed
<1>6. CASE InsertRawTrace
  <2> DEFINE file == [component |-> io.trace.component, launch |-> io.trace.launch]
             new == NewRawTrace(io.trace.history_id, file)
  <2>1. io.trace \in Traces /\ \A row \in raw_traces : row.id \in Nat \ {0}
    BY <1>1, <1>6 DEF InsertRawTrace, TypedIo, TypedTables, RawRows
  <2>2. file \in RawFiles /\ io.trace.history_id \in Nat \ {0}
    BY <2>1 DEF Traces, RawFiles
  <2>3. new \in RawRows
    BY <1>1, <2>1, <2>2, NewIdIsNew DEF NewRawTrace, RawRows, TypedTables
  <2>4. Keyed(raw_traces \union {new})
    BY <1>1, <2>1, KeyedGrows DEF NewRawTrace, TypedTables
  <2>5. raw_traces' \in {raw_traces, raw_traces \union {new}}
    BY <1>6 DEF InsertRawTrace
  <2> HIDE DEF new
  <2>6. TypedTables'
    BY <1>1, <1>6, <2>3, <2>4, <2>5 DEF InsertRawTrace, TypedTables, Keyed, Ids
  <2>7. TypedIo'
    BY <1>1, <1>2, <1>3, <1>6 DEF InsertRawTrace, TypedIo, IoStates
  <2>8. TypedWorld' /\ TypedLaunch' /\ TypedThreads'
    BY <1>1, <1>6, SameWorld, SameLaunch, SameThreads DEF InsertRawTrace, history
  <2> QED BY <2>6, <2>7, <2>8 DEF Typed
<1>7. CASE SelectOlder
  <2> DEFINE older == Oldest(RawTracesOf(io.trace.component))
  <2>1. older \subseteq RawRows
    BY <1>1 DEF Oldest, RawTracesOf, TypedTables
  <2>2. /\ io.pc = "inserted"
        /\ io' = IF older = {} THEN IoIdle ELSE [io EXCEPT !.pc = "pruning", !.rows = older]
    BY <1>7 DEF SelectOlder
  <2> HIDE DEF older
  <2>3. TypedIo'
    BY <1>1, <1>2, <1>3, <1>7, <2>1, <2>2 DEF SelectOlder, TypedIo, IoStates
  <2>4. TypedTables' /\ TypedWorld' /\ TypedLaunch' /\ TypedThreads'
    BY <1>1, <1>7, SameTables, SameWorld, SameLaunch, SameThreads DEF SelectOlder, history
  <2> QED BY <2>3, <2>4 DEF Typed
<1>8. CASE RemoveOlder
  <2>1. io' \in {[io EXCEPT !.pc = "removed"], IoAfter(io.rows)}
    BY <1>8 DEF RemoveOlder
  <2>2. TypedIo'
    BY <1>1, <1>2, <1>4, <1>8, <2>1 DEF RemoveOlder, TypedIo, IoStates
  <2>3. TypedWorld'
    BY <1>1, <1>8 DEF RemoveOlder, TypedWorld, mapVars, external, history
  <2>4. TypedTables' /\ TypedLaunch' /\ TypedThreads'
    BY <1>1, <1>8, SameTables, SameLaunch, SameThreads DEF RemoveOlder
  <2> QED BY <2>2, <2>3, <2>4 DEF Typed
<1>9. CASE DeleteOlder
  <2>1. io' = IoAfter(io.rows) /\ raw_traces' \subseteq raw_traces
    BY <1>9 DEF DeleteOlder, Delete
  <2>2. TypedIo'
    BY <1>1, <1>4, <1>9, <2>1 DEF DeleteOlder, TypedIo
  <2>3. Keyed(raw_traces')
    BY <1>1, <2>1, KeyedShrinks DEF TypedTables
  <2>4. TypedTables'
    BY <1>1, <1>9, <2>1, <2>3 DEF DeleteOlder, TypedTables, Keyed, Ids
  <2>5. TypedWorld' /\ TypedLaunch' /\ TypedThreads'
    BY <1>1, <1>9, SameWorld, SameLaunch, SameThreads DEF DeleteOlder, history
  <2> QED BY <2>2, <2>4, <2>5 DEF Typed
<1> QED BY <1>5, <1>6, <1>7, <1>8, <1>9 DEF IoStep

-----------------------------------------------------------------------------
(* Types: restarts and changes of packages *)

LEMMA ChangePackageTyped ==
    ASSUME Typed, NEW p \in Packages, NEW v \in Versions \union {None}, ChangePackage(p, v)
    PROVE  Typed'
<1> DEFINE Events == [package : Packages, version : MaybeVersion]
<1>1. TypedTables /\ TypedWorld /\ TypedLaunch /\ TypedIo /\ TypedThreads
  BY DEF Typed
<1>2. changes' \in Seq(Events)
  <2>1. changes \in Seq(Events) /\ [package |-> p, version |-> v] \in Events
    BY <1>1 DEF TypedWorld, MaybeVersion
  <2> HIDE DEF Events
  <2> QED BY <2>1 DEF ChangePackage
<1>3. installed' \in [Packages -> MaybeVersion]
  BY <1>1 DEF ChangePackage, TypedWorld, MaybeVersion
<1>4. events' \in 0 .. MaxEvents
  BY <1>1, StoreAssumption DEF ChangePackage, Event, TypedWorld
<1>5. TypedWorld'
  BY <1>1, <1>2, <1>3, <1>4 DEF ChangePackage, TypedWorld, disk, mapVars
<1>6. TypedTables' /\ TypedLaunch' /\ TypedIo' /\ TypedThreads'
  BY <1>1, SameTables, SameLaunch, SameIo, SameThreads DEF ChangePackage
<1> QED BY <1>5, <1>6 DEF Typed

LEMMA CreatedTyped ==
    ASSUME installed \in [Packages -> MaybeVersion], NEW map \in CreatedMaps
    PROVE  /\ map[1] \in BOOLEAN
           /\ map[2] = None \/ map[2] \in [Packages -> MaybeVersion \union {Unversioned}]
<1>1. map = <<TRUE, installed>> \/ map = <<TRUE, None>> \/ map = <<FALSE, None>>
  BY DEF CreatedMaps
<1>2. CASE map = <<TRUE, installed>>
  BY <1>2
<1>3. CASE map = <<TRUE, None>>
  BY <1>3
<1>4. CASE map = <<FALSE, None>>
  BY <1>4
<1> QED BY <1>1, <1>2, <1>3, <1>4

LEMMA DieTyped ==
    ASSUME Typed, Die, TypedTables', events' \in 0 .. MaxEvents, files' \subseteq files,
           compiled' \subseteq Outputs
    PROVE  Typed'
<1>1. TypedWorld
  BY DEF Typed
<1>2. PICK map \in CreatedMaps : package_manager' = map[1] /\ version_map' = map[2]
  BY DEF Die
<1>3. /\ package_manager' \in BOOLEAN
      /\ version_map' = None \/ version_map' \in [Packages -> MaybeVersion \union {Unversioned}]
  BY <1>1, <1>2, CreatedTyped DEF TypedWorld
<1>4. changes' \in Seq([package : Packages, version : MaybeVersion])
  BY DEF Die
<1>5. TypedWorld'
  BY <1>1, <1>3, <1>4 DEF Die, TypedWorld
<1>6. TypedLaunch' /\ TypedIo'
  BY DEF Die, TypedLaunch, TypedIo, IoIdle, IoStates
<1>7. TypedThread(Idle)
  BY BegunTyped
<1>8. TypedThreads'
  BY <1>7 DEF Die, TypedThreads
<1> QED BY <1>5, <1>6, <1>8 DEF Typed

LEMMA RestartTyped ==
    ASSUME Typed, Crash \/ CrashWithoutMap \/ Upgrade
    PROVE  Typed'
<1>1. TypedTables /\ TypedWorld /\ Die
  BY DEF Typed, Crash, CrashWithoutMap, Upgrade
<1>2. events' \in 0 .. MaxEvents
  BY <1>1, StoreAssumption DEF TypedWorld, Crash, CrashWithoutMap, Upgrade, Event
<1>3. \A outputs : outputs \subseteq compiled =>
         Abandoned(outputs) \subseteq Outputs
  <2>1. \A f \in Outputs : [f EXCEPT !.writers = {}, !.whole = @ /\ f.writers = {}] \in Outputs
    BY DEF Outputs
  <2> QED BY <1>1, <2>1 DEF Abandoned, TypedWorld
<1>4. compiled' \subseteq Outputs
      /\ files' \subseteq files
  BY <1>3 DEF Crash, CrashWithoutMap, Reopen, Upgrade
<1>5. CASE Crash \/ CrashWithoutMap
  <2>1. TypedTables'
    BY <1>1, <1>5 DEF Crash, CrashWithoutMap, Reopen, Die, TypedTables, Keyed, Ids, tables
  <2> QED BY <1>1, <1>2, <1>4, <2>1, DieTyped
<1>6. CASE Upgrade
  <2>1. Keyed({})
    BY FS_EmptySet DEF Keyed, Ids
  <2>2. TypedTables'
    BY <1>1, <1>6, <2>1 DEF Upgrade, Die, TypedTables, Keyed, Ids
  <2> QED BY <1>1, <1>2, <1>4, <2>2, DieTyped
<1> QED BY <1>5, <1>6

-----------------------------------------------------------------------------
LEMMA InitTyped == Init => Typed
<1> SUFFICES ASSUME Init PROVE Typed
  OBVIOUS
<1>1. Keyed({})
  BY FS_EmptySet DEF Keyed, Ids
<1>2. TypedTables
  BY <1>1 DEF Init, EmptyDatabase, TypedTables
<1>3. PICK map \in CreatedMaps : package_manager = map[1] /\ version_map = map[2]
  BY DEF Init
<1>4. installed \in [Packages -> MaybeVersion]
  BY DEF Init, MaybeVersion
<1>5. TypedWorld
  BY <1>3, <1>4, CreatedTyped, StoreAssumption DEF Init, TypedWorld
<1>6. TypedLaunch /\ TypedIo
  BY DEF Init, TypedLaunch, TypedIo, IoIdle, IoStates
<1>7. TypedThreads
  BY BegunTyped DEF Init, TypedThreads
<1> QED BY <1>2, <1>5, <1>6, <1>7 DEF Typed

LEMMA NextTyped == Typed /\ [Next]_vars => Typed'
<1> SUFFICES ASSUME Typed, [Next]_vars PROVE Typed'
  OBVIOUS
<1>1. CASE LaunchStep
  BY <1>1, LaunchStepTyped
<1>2. CASE IoStep
  BY <1>2, IoStepTyped
<1>3. CASE ThreadStep
  <2>1. CASE Request \/ OnPackageChanged \/ Maintenance
    BY <2>1, RequestTyped, OnPackageChangedTyped, MaintenanceTyped
  <2>2. CASE \E t \in Threads : Work(t)
    BY <2>2, CleanUpTyped, CompileStepTyped, FinishPackagesTyped DEF Work
  <2> QED BY <1>3, <2>1, <2>2 DEF ThreadStep, Watched
<1>4. CASE \E p \in Packages, v \in Versions \union {None} : ChangePackage(p, v)
  BY <1>4, ChangePackageTyped
<1>5. CASE Crash \/ CrashWithoutMap \/ Upgrade
  BY <1>5, RestartTyped
<1>6. CASE UNCHANGED vars
  BY <1>6, SameTables, SameWorld, SameLaunch, SameIo, SameThreads DEF Typed, vars, history
<1> QED BY <1>1, <1>2, <1>3, <1>4, <1>5, <1>6 DEF Next

\* Tables, files, the launch, the io thread and the threads are of their types, with the
\* ids of every table keys of it: NewId makes a new one (INTEGER PRIMARY KEY).
THEOREM TypedInvariant == Spec => []Typed
<1> QED BY InitTyped, NextTyped, PTL DEF Spec

LEMMA TypedImpliesTypeOK == Typed => TypeOK
<1> SUFFICES ASSUME Typed PROVE TypeOK
  OBVIOUS
<1>1. TypedTables /\ TypedWorld /\ TypedIo /\ TypedThreads
  BY DEF Typed
<1>2. \A table \in {packages, activities, app_launch_histories, raw_traces, prefetch_files} :
         Cardinality(Ids(table)) = Cardinality(table)
  BY <1>1, KeyedCounts DEF TypedTables
<1>3. ASSUME NEW t \in Threads
      PROVE  /\ thread[t].job \in {"none", "purge", "maintenance", "compile"}
             /\ thread[t].package = None <=> thread[t].pc \in {"idle", "update", "select", "packages"}
             /\ thread[t].pc \in {"raw_removed", "prefetch_file", "prefetch_removed",
                                  "forked", "writing", "insert"} => thread[t].rows # {}
  BY <1>1, StoreAssumption DEF TypedThreads, TypedThread, ThreadStates, PackageRows, OnPackage,
     OnActivity, CleaningRaw, CleaningPrefetch, Compiling
<1>4. io.rows # {} <=> io.pc \in {"pruning", "removed"}
  BY <1>1 DEF TypedIo
<1>5. /\ files \subseteq RawFiles
      /\ compiled \subseteq Outputs
      /\ installed \in [Packages -> MaybeVersion]
      /\ package_manager \in BOOLEAN
      /\ version_map = None \/ version_map \in [Packages -> MaybeVersion \union {Unversioned}]
      /\ events \in 0 .. MaxEvents
  BY <1>1 DEF TypedWorld
<1>6. MaybeVersion \union {Unversioned} = Versions \union {None, Unversioned}
  BY DEF MaybeVersion
<1> QED BY <1>1, <1>2, <1>3, <1>4, <1>5, <1>6 DEF TypedTables, TypeOK, PackageRows, ActivityRows,
        HistoryRows, RawRows, PrefetchRows, MaybeVersion, Outputs

\* A thread holds a package, activities and rows exactly while it is at a step of the
\* clean-up or of the compilation that uses them, and ids are primary keys.
THEOREM TypeCorrect == Spec => []TypeOK
<1> QED BY TypedInvariant, TypedImpliesTypeOK, PTL

-----------------------------------------------------------------------------
(* Whose a raw trace is: steps that move no trace to another place *)

\* Launches have numbers.
LEMMA NumbersTyped ==
    ASSUME Typed
    PROVE  /\ events \in Nat
           /\ launch.pc # "none" => launch.number \in Nat
           /\ \A p \in pending : p.launch \in Nat
           /\ io.pc = "written" => io.trace.launch \in Nat
           /\ \A r \in raw_traces \union Taken : r.file_path.launch \in Nat
<1>1. 0 .. MaxEvents \subseteq Nat
  BY StoreAssumption
<1>2. events \in Nat
  BY <1>1 DEF Typed, TypedWorld
<1>3. launch.pc # "none" => launch.number \in Nat
  BY <1>1 DEF Typed, TypedLaunch, NoLaunch, LaunchStates
<1>4. (\A p \in pending : p.launch \in Nat) /\ (io.pc = "written" => io.trace.launch \in Nat)
  BY <1>1 DEF Typed, TypedIo, Traces
<1>5. raw_traces \subseteq RawRows
  BY DEF Typed, TypedTables
<1>6. Taken \subseteq RawRows
  BY DEF Taken, Typed, TypedIo, IoStates, TypedThreads, TypedThread, RowsAt
<1>7. \A r \in RawRows : r.file_path.launch \in Nat
  BY <1>1 DEF RawRows, RawFiles
<1> QED BY <1>2, <1>3, <1>4, <1>5, <1>6, <1>7

\* History ids are numbers, in the table and where they are held.
LEMMA HistoryIds ==
    ASSUME Typed
    PROVE  /\ \A h \in app_launch_histories : h.id \in Nat /\ h.launch \in Nat
           /\ \A p \in pending : p.history_id \in Nat
           /\ io.pc = "written" => io.trace.history_id \in Nat
           /\ \A t \in raw_traces : t.history_id \in Nat
<1>1. 0 .. MaxEvents \subseteq Nat
  BY StoreAssumption
<1>2. \A h \in app_launch_histories : h.id \in Nat /\ h.launch \in Nat
  BY <1>1 DEF Typed, TypedTables, HistoryRows
<1>3. (\A p \in pending : p.history_id \in Nat) /\ (io.pc = "written" => io.trace.history_id \in Nat)
  BY DEF Typed, TypedIo, Traces
<1>4. \A t \in raw_traces : t.history_id \in Nat
  BY DEF Typed, TypedTables, RawRows
<1> QED BY <1>2, <1>3, <1>4

LEMMA PlacesKept ==
    ASSUME Typed, OneRow, OnePlace, events' \in {events, events + 1},
           launch'.pc # "none" => launch.pc # "none" /\ launch'.number = launch.number,
           pending' \subseteq pending,
           io'.pc = "written" => io.pc = "written" /\ io'.trace = io.trace,
           raw_traces' \subseteq raw_traces, Taken' \subseteq Taken \union raw_traces,
           \A f \in files : f \in files' \/ \E r \in Taken : r.file_path = f
    PROVE  OneRow' /\ OnePlace'
<1>1. raw_traces' \union Taken' \subseteq raw_traces \union Taken
  OBVIOUS
<1>2. \A n \in Nat : n < events => n < events'
  BY NumbersTyped
<1>3. OneRow'
  BY <1>1, <1>2, NumbersTyped DEF OneRow
<1>4. \A n \in Nat : Unrecorded(n) => Unrecorded(n)'
  BY <1>1, <1>2 DEF Unrecorded
<1>5. launch'.pc # "none" =>
         /\ Unrecorded(launch.number)'
         /\ \A p \in pending' : p.launch # launch'.number
         /\ io'.pc = "written" => io'.trace.launch # launch'.number
  BY <1>4, NumbersTyped DEF OnePlace
<1>6. \A p \in pending' :
         /\ Unrecorded(p.launch)'
         /\ io'.pc = "written" => io'.trace.launch # p.launch
  BY <1>4, NumbersTyped DEF OnePlace
<1>7. io'.pc = "written" => Unrecorded(io.trace.launch)'
  BY <1>4, NumbersTyped DEF OnePlace
<1>8. io'.pc = "written" =>
         [component |-> io'.trace.component, launch |-> io'.trace.launch] \in files'
  <2> DEFINE file == [component |-> io.trace.component, launch |-> io.trace.launch]
  <2> SUFFICES ASSUME io'.pc = "written" PROVE file \in files'
    OBVIOUS
  <2>1. file \in files /\ Unrecorded(io.trace.launch)
    BY DEF OnePlace
  <2>2. \A r \in Taken : r.file_path # file
    BY <2>1 DEF Unrecorded
  <2> QED BY <2>1, <2>2
<1> QED BY <1>3, <1>5, <1>6, <1>7, <1>8 DEF OnePlace

\* A row of a launch stays, or the launch is forgotten.
LEMMA RowsKept ==
    ASSUME OfItsLaunch, Latest, forgotten \subseteq forgotten',
           \A h \in app_launch_histories :
              h \in app_launch_histories' \/ h.launch \in forgotten',
           app_launch_histories' \subseteq app_launch_histories,
           pending' \subseteq pending,
           io'.pc = "written" => io.pc = "written" /\ io'.trace = io.trace,
           raw_traces' \subseteq raw_traces,
           launch'.pc # "none" => launch.pc # "none" /\ launch'.number = launch.number
    PROVE  OfItsLaunch' /\ Latest'
<1>1. \A id, n : RowOf(id, n) => RowOf(id, n)'
  BY DEF RowOf
<1>2. OfItsLaunch'
  BY <1>1 DEF OfItsLaunch
<1>3. Latest'
  BY DEF Latest
<1> QED BY <1>2, <1>3

LEMMA FilesKept ==
    ASSUME HasFile, raw_traces' \subseteq raw_traces, files \subseteq files',
           interrupted \subseteq interrupted',
           \A r \in raw_traces' : r \in GoingRaw => r \in GoingRaw'
    PROVE  HasFile'
BY DEF HasFile

\* What a step of one thread does to the rows that are held.
LEMMA TakenSet ==
    ASSUME TypedThreads, NEW t \in Threads, NEW state, Set(t, state), UNCHANGED io
    PROVE  /\ \A r \in Taken' : r \in Taken \/ (state.pc \in CleaningRaw /\ r \in state.rows)
           /\ \A r \in GoingRaw :
                 r \in GoingRaw' \/ (thread[t].pc = "raw_removed" /\ r = CurrentRow(t))
           /\ state.pc = "raw_removed" => First(state.rows) \in GoingRaw'
<1>1. /\ thread'[t] = state
      /\ \A u \in Threads : u # t => thread'[u] = thread[u]
  BY ThreadSet
<1>2. \A r \in Taken' : r \in Taken \/ (state.pc \in CleaningRaw /\ r \in state.rows)
  BY <1>1 DEF Taken
<1>3. ASSUME NEW r \in GoingRaw
      PROVE  r \in GoingRaw' \/ (thread[t].pc = "raw_removed" /\ r = CurrentRow(t))
  BY <1>1 DEF GoingRaw, CurrentRow
<1>4. state.pc = "raw_removed" => First(state.rows) \in GoingRaw'
  BY <1>1 DEF GoingRaw, CurrentRow
<1> QED BY <1>2, <1>3, <1>4

\* A step of a thread that only looks.
LEMMA RecordedLooks ==
    ASSUME Typed, Recorded, NEW t \in Threads, NEW state, Set(t, state),
           thread[t].pc # "raw_removed",
           state.pc \in CleaningRaw => state.rows \subseteq raw_traces \union Taken,
           events' \in {events, events + 1},
           UNCHANGED <<app_launch_histories, raw_traces, files, launch, pending, io, ghosts>>
    PROVE  Recorded'
<1>1. /\ \A r \in Taken' : r \in Taken \/ (state.pc \in CleaningRaw /\ r \in state.rows)
      /\ \A r \in GoingRaw : r \in GoingRaw'
  BY TakenSet DEF Typed
<1>2. OneRow' /\ OnePlace'
  BY <1>1, PlacesKept DEF Recorded
<1>3. OfItsLaunch' /\ Latest'
  BY RowsKept DEF Recorded, ghosts
<1>4. HasFile'
  BY <1>1, FilesKept DEF Recorded, ghosts
<1> QED BY <1>2, <1>3, <1>4 DEF Recorded

\* A step that moves no thread.
LEMMA RecordedRests ==
    ASSUME Typed, Recorded, events' \in {events, events + 1},
           launch'.pc # "none" => launch.pc # "none" /\ launch'.number = launch.number,
           UNCHANGED <<app_launch_histories, raw_traces, files, pending, io, thread, ghosts>>
    PROVE  Recorded'
<1>1. Taken' = Taken /\ GoingRaw' = GoingRaw
  BY DEF Taken, GoingRaw, CurrentRow
<1>2. OneRow' /\ OnePlace'
  BY <1>1, PlacesKept DEF Recorded
<1>3. OfItsLaunch' /\ Latest'
  BY RowsKept DEF Recorded, ghosts
<1>4. HasFile'
  BY <1>1, FilesKept DEF Recorded, ghosts
<1> QED BY <1>2, <1>3, <1>4 DEF Recorded

-----------------------------------------------------------------------------
(* Whose a raw trace is: clean-up *)

LEMMA CleanUpRecorded ==
    ASSUME Typed, Recorded, NEW t \in Threads, CleanUp(t)
    PROVE  Recorded'
<1> USE DEF CleaningRaw
<1>0. TypedThreads /\ TypedThread(thread[t]) /\ thread[t] \in ThreadStates
  BY DEF Typed, TypedThreads, TypedThread
<1>1. /\ DropPackage(t).pc = "packages"
      /\ DropActivity(t, "activities").pc = "activities"
      /\ \A pc \in {"activities", "raw_removed", "prefetch_file", "prefetch_removed"} :
            [thread[t] EXCEPT !.pc = pc].pc = pc
      /\ \A pc \in {"raw_removed", "prefetch_removed"} :
            [thread[t] EXCEPT !.pc = pc].rows = thread[t].rows
  BY <1>0 DEF ThreadStates, DropPackage, DropActivity
<1>2. CASE CleanPackage(t)
  <2> DEFINE taken == [thread[t] EXCEPT !.pc = "activities", !.package = CurrentPackage(t),
                                        !.activities = ActivitiesOf(CurrentPackage(t).id)]
  <2>1. taken.pc = "activities"
    BY <1>0 DEF ThreadStates
  <2>2. Set(t, taken) \/ Set(t, DropPackage(t))
    BY <1>2 DEF CleanPackage
  <2> HIDE DEF taken
  <2> QED BY <1>1, <1>2, <2>1, <2>2, RecordedLooks DEF CleanPackage, database, tables, disk, history
<1>3. CASE SelectRawTraces(t)
  <2> DEFINE listed == [thread[t] EXCEPT !.pc = "raw_traces", !.rows = RawTracesOf(Current(t))]
  <2>1. listed.pc = "raw_traces" /\ listed.rows \subseteq raw_traces
    BY <1>0 DEF ThreadStates, RawTracesOf
  <2>2. Set(t, listed)
    BY <1>3 DEF SelectRawTraces
  <2> HIDE DEF listed
  <2> QED BY <1>3, <2>1, <2>2, RecordedLooks DEF SelectRawTraces, database, tables, disk, history
<1>4. CASE SelectPrefetchFile(t)
  <2>1. PICK state : Set(t, state) /\ state.pc \in {"activities", "prefetch_file"}
    <3>1. PICK found : Set(t, IF found = {} THEN DropActivity(t, "activities")
                              ELSE [thread[t] EXCEPT !.pc = "prefetch_file", !.rows = found])
      BY <1>4 DEF SelectPrefetchFile
    <3>2. [thread[t] EXCEPT !.pc = "prefetch_file", !.rows = found].pc = "prefetch_file"
      BY <1>0 DEF ThreadStates
    <3> QED BY <1>1, <3>1, <3>2
  <2> QED BY <1>4, <2>1, RecordedLooks DEF SelectPrefetchFile, database, tables, disk, history
<1>5. CASE RemovePrefetchFile(t)
  <2>1. PICK state : Set(t, state) /\ state.pc = "prefetch_removed"
    BY <1>1, <1>5 DEF RemovePrefetchFile
  <2> QED BY <1>5, <2>1, RecordedLooks DEF RemovePrefetchFile, database, tables, history
<1>6. CASE DeletePrefetchFile(t)
  BY <1>1, <1>6, RecordedLooks DEF DeletePrefetchFile, disk, history
<1>7. CASE RemoveRawTrace(t)
  <2> DEFINE removed == [thread[t] EXCEPT !.pc = "raw_removed"]
             row == CurrentRow(t)
  <2>1. Set(t, removed) /\ removed.pc = "raw_removed" /\ removed.rows = thread[t].rows
    BY <1>1, <1>7 DEF RemoveRawTrace
  <2>2. row \in thread[t].rows /\ row = First(removed.rows) /\ row \in Taken
    BY <1>0, <1>7, <2>1, InHandTyped DEF RemoveRawTrace, CurrentRow, Taken
  <2>3. thread[t].rows \subseteq Taken
    BY <1>7 DEF RemoveRawTrace, Taken
  <2>4. /\ files' = files \ {row.file_path}
        /\ UNCHANGED <<app_launch_histories, raw_traces, launch, pending, io, events, ghosts>>
    BY <1>7 DEF RemoveRawTrace, database, tables, history
  <2> HIDE DEF removed
  <2>5. /\ \A r \in Taken' : r \in Taken
        /\ \A r \in GoingRaw : r \in GoingRaw'
        /\ row \in GoingRaw'
    BY <1>0, <1>7, <2>1, <2>2, <2>3, <2>4, TakenSet DEF RemoveRawTrace
  <2> HIDE DEF row
  <2>6. OneRow' /\ OnePlace'
    BY <2>2, <2>4, <2>5, PlacesKept DEF Recorded
  <2>7. OfItsLaunch' /\ Latest'
    BY <2>4, RowsKept DEF Recorded, ghosts
  <2>8. \A r \in raw_traces : r.file_path = row.file_path => r = row
    BY <2>2 DEF Recorded, OneRow
  <2>9. HasFile'
    BY <2>4, <2>5, <2>8 DEF Recorded, HasFile, ghosts
  <2> QED BY <2>6, <2>7, <2>9 DEF Recorded
<1>8. CASE DeleteRawTrace(t)
  <2> DEFINE rest == [thread[t] EXCEPT !.pc = "raw_traces", !.rows = @ \ {CurrentRow(t)}]
             row == CurrentRow(t)
  <2>1. Set(t, rest) /\ rest.pc = "raw_traces" /\ rest.rows \subseteq thread[t].rows
    BY <1>0, <1>8 DEF DeleteRawTrace, ThreadStates
  <2>2. /\ raw_traces' = {r \in raw_traces : r.id # row.id}
        /\ UNCHANGED <<app_launch_histories, files, launch, pending, io, events, ghosts>>
    BY <1>8 DEF DeleteRawTrace, Delete, disk, history
  <2>3. thread[t].rows \subseteq Taken
    BY <1>8 DEF DeleteRawTrace, Taken
  <2> HIDE DEF rest
  <2>4. /\ \A r \in Taken' : r \in Taken
        /\ \A r \in GoingRaw : r \in GoingRaw' \/ r = row
    BY <1>0, <2>1, <2>2, <2>3, TakenSet
  <2> HIDE DEF row
  <2>5. OneRow' /\ OnePlace'
    BY <2>2, <2>4, PlacesKept DEF Recorded
  <2>6. OfItsLaunch' /\ Latest'
    BY <2>2, RowsKept DEF Recorded, ghosts
  <2>7. HasFile'
    BY <2>2, <2>4, FilesKept DEF Recorded, ghosts
  <2> QED BY <2>5, <2>6, <2>7 DEF Recorded
<1>9. CASE FinishPackage(t)
  <2>1. CASE UNCHANGED <<database, forgotten>>
    BY <1>1, <1>9, <2>1, RecordedLooks DEF FinishPackage, database, tables, disk, ghosts
  <2>2. CASE /\ DeletePackage(thread[t].package.id)
             /\ forgotten' = forgotten \union {h.launch : h \in CascadedHistories(thread[t].package.id)}
    <3> DEFINE gone == CascadedHistories(thread[t].package.id)
    <3>1. /\ app_launch_histories' = app_launch_histories \ gone
          /\ raw_traces' \subseteq raw_traces
          /\ forgotten' = forgotten \union {h.launch : h \in gone}
          /\ UNCHANGED <<files, launch, pending, io, events, interrupted>>
      BY <1>9, <2>2 DEF DeletePackage, FinishPackage, disk
    <3> HIDE DEF gone
    <3>2. /\ \A r \in Taken' : r \in Taken
          /\ \A r \in GoingRaw : r \in GoingRaw'
      BY <1>0, <1>1, <1>9, <3>1, TakenSet DEF FinishPackage
    <3>3. OneRow' /\ OnePlace'
      BY <3>1, <3>2, PlacesKept DEF Recorded
    <3>4. OfItsLaunch' /\ Latest'
      BY <3>1, RowsKept DEF Recorded
    <3>5. HasFile'
      BY <3>1, <3>2, FilesKept DEF Recorded
    <3> QED BY <3>3, <3>4, <3>5 DEF Recorded
  <2> QED BY <1>9, <2>1, <2>2 DEF FinishPackage
<1> QED BY <1>2, <1>3, <1>4, <1>5, <1>6, <1>7, <1>8, <1>9 DEF CleanUp

-----------------------------------------------------------------------------
(* Whose a raw trace is: the other steps of threads *)

LEMMA ThreadStepRecorded ==
    ASSUME Typed, Recorded, ThreadStep
    PROVE  Recorded'
<1> USE DEF CleaningRaw
<1>0. /\ TypedThreads /\ "worker" \in Threads /\ "binder" \in Threads
      /\ \A t \in Threads : thread[t] \in ThreadStates
  BY DEF Typed, TypedThreads, TypedThread, Threads
<1>1. /\ Idle.pc = "idle"
      /\ \A job, rows : [Idle EXCEPT !.job = job, !.pc = "packages", !.packages = rows].pc = "packages"
  BY DEF Idle
<1>2. CASE Request
  <2>1. PICK p \in Packages : Purge(p) \/ Compile(p)
    BY <1>2 DEF Request
  <2>2. PICK state : Set("binder", state) /\ state.pc = "packages"
    BY <1>1, <2>1 DEF Purge, Compile
  <2> QED BY <1>0, <2>1, <2>2, RecordedLooks DEF Purge, Compile, Event, database, tables, disk
<1>3. CASE OnPackageChanged
  <2>1. UNCHANGED <<database, disk, launch, pending, io, events, ghosts>>
    BY <1>3 DEF OnPackageChanged, history
  <2>2. CASE UNCHANGED thread
    BY <2>1, <2>2, RecordedRests DEF database, tables, disk, Recorded, OnePlace
  <2>3. CASE thread' # thread
    <3>1. PICK found : Set("binder", [Idle EXCEPT !.job = "purge", !.pc = "packages",
                                                  !.packages = found])
      BY <1>3, <2>3 DEF OnPackageChanged
    <3>2. thread["binder"].pc = "idle"
      BY <1>3 DEF OnPackageChanged
    <3> QED BY <1>0, <1>1, <2>1, <3>1, <3>2, RecordedLooks DEF database, tables, disk
  <2> QED BY <2>2, <2>3
<1>4. CASE Maintenance
  <2>1. UNCHANGED <<tables, disk, launch, pending, io, events, ghosts>>
    BY <1>4 DEF Maintenance, StartMaintenance, UpdateAllSucceeds, UpdateAllFails, UpdateAll,
       SelectPackages, database, history
  <2>2. thread["worker"].pc \in {"idle", "update", "select"}
    BY <1>4 DEF Maintenance, StartMaintenance, UpdateAllSucceeds, UpdateAllFails, UpdateAll,
       SelectPackages
  <2>3. /\ [Idle EXCEPT !.job = "maintenance", !.pc = "update"].pc = "update"
        /\ [thread["worker"] EXCEPT !.pc = "select"].pc = "select"
        /\ [thread["worker"] EXCEPT !.pc = "packages", !.packages = packages].pc = "packages"
    BY <1>0 DEF Idle, ThreadStates
  <2>4. PICK state : Set("worker", state) /\ state.pc \in {"update", "select", "packages"}
    BY <1>4, <2>3 DEF Maintenance, StartMaintenance, UpdateAllSucceeds, UpdateAllFails, UpdateAll,
       SelectPackages
  <2> QED BY <1>0, <2>1, <2>2, <2>4, RecordedLooks DEF tables, disk
<1>5. CASE \E t \in Threads : CleanUp(t)
  BY <1>5, CleanUpRecorded
<1>6. CASE \E t \in Threads : CompileStep(t)
  <2>1. PICK t \in Threads : CompileStep(t)
    BY <1>6
  <2>2. /\ UNCHANGED <<app_launch_histories, raw_traces, files, launch, pending, io, events, ghosts>>
        /\ thread[t].pc # "raw_removed"
    BY <2>1 DEF CompileStep, CompilePackage, CheckCompiled, SelectTraces, OpenOutput,
       CompilerSucceeds, CompilerFails, InsertPrefetchFile, FinishCompilePackage, database,
       tables, disk, history
  <2>3. /\ DropPackage(t).pc = "packages"
        /\ DropActivity(t, "compile").pc = "compile"
        /\ \A pc \in {"traces", "writing", "insert"} : [thread[t] EXCEPT !.pc = pc].pc = pc
        /\ \A package, rows : [thread[t] EXCEPT !.pc = "compile", !.package = package,
                                                !.activities = rows].pc = "compile"
        /\ \A rows : [thread[t] EXCEPT !.pc = "forked", !.rows = rows].pc = "forked"
    BY <1>0 DEF ThreadStates, DropPackage, DropActivity
  <2>4. PICK state : Set(t, state) /\ state.pc \notin CleaningRaw
    <3>1. CASE CompilePackage(t) \/ CheckCompiled(t)
      BY <2>3, <3>1 DEF CompilePackage, CheckCompiled
    <3>2. CASE SelectTraces(t)
      BY <2>3, <3>2 DEF SelectTraces
    <3>3. CASE OpenOutput(t) \/ CompilerSucceeds(t) \/ CompilerFails(t)
      BY <2>3, <3>3 DEF OpenOutput, CompilerSucceeds, CompilerFails
    <3>4. CASE InsertPrefetchFile(t) \/ FinishCompilePackage(t)
      BY <2>3, <3>4 DEF InsertPrefetchFile, FinishCompilePackage
    <3> QED BY <2>1, <3>1, <3>2, <3>3, <3>4 DEF CompileStep
  <2> QED BY <2>2, <2>4, RecordedLooks
<1>7. CASE \E t \in Threads : FinishPackages(t)
  <2>1. PICK t \in Threads : FinishPackages(t)
    BY <1>7
  <2> DEFINE next == IF thread[t].job = "maintenance"
                     THEN [Idle EXCEPT !.job = "compile", !.pc = "packages", !.packages = packages]
                     ELSE Idle
  <2>2. Set(t, next) /\ next.pc \in {"idle", "packages"}
    BY <1>1, <2>1 DEF FinishPackages
  <2> HIDE DEF next
  <2> QED BY <2>1, <2>2, RecordedLooks DEF FinishPackages, database, tables, disk, history
<1> QED BY <1>2, <1>3, <1>4, <1>5, <1>6, <1>7 DEF ThreadStep, Watched, Work

-----------------------------------------------------------------------------
(* Whose a raw trace is: launches, where a number is taken and goes to a trace *)

LEMMA LaunchStepRecorded ==
    ASSUME Typed, Recorded, LaunchStep
    PROVE  Recorded'
<1>0. NoLaunch.pc = "none" /\ (launch.pc # "none" => launch \in LaunchStates)
  BY DEF Typed, TypedLaunch, NoLaunch
<1>1. CASE \E p \in Packages, a \in Activities, traced \in BOOLEAN : StartLaunch(p, a, traced)
  <2>1. /\ launch'.pc = "started" /\ launch'.number = events /\ events' = events + 1
        /\ UNCHANGED <<database, pending, io, thread, ghosts>>
        /\ UNCHANGED files
    BY <1>1 DEF StartLaunch, Event, disk
  <2>2. Taken' = Taken /\ GoingRaw' = GoingRaw
    BY <2>1 DEF Taken, GoingRaw, CurrentRow
  <2>3. \A n \in Nat : n < events => n < events'
    BY <2>1, NumbersTyped
  <2>4. \A n \in Nat : Unrecorded(n) => Unrecorded(n)'
    BY <2>1, <2>2, <2>3 DEF Unrecorded, database, tables
  <2>5. OneRow'
    BY <2>1, <2>2, <2>3, NumbersTyped DEF Recorded, OneRow, database, tables
  <2>6. events < events' /\ \A n \in Nat : n < events => n # events
    BY <2>1, NumbersTyped
  <2>7. Unrecorded(launch.number)'
    BY <2>1, <2>2, <2>6, NumbersTyped DEF Recorded, OneRow, Unrecorded, database, tables
  <2>8. /\ \A p \in pending : p.launch # events
        /\ io.pc = "written" => io.trace.launch # events
    BY <2>6, NumbersTyped DEF Recorded, OnePlace, Unrecorded
  <2>9. /\ \A p \in pending' : Unrecorded(p.launch)'
        /\ io'.pc = "written" => Unrecorded(io.trace.launch)'
    BY <2>1, <2>4, NumbersTyped DEF Recorded, OnePlace
  <2>10. OnePlace'
    BY <2>1, <2>7, <2>8, <2>9 DEF Recorded, OnePlace
  <2>11. OfItsLaunch'
    BY <2>1 DEF Recorded, OfItsLaunch, RowOf, database, tables, ghosts
  <2>12. HasFile'
    BY <2>1, <2>2, FilesKept DEF Recorded, database, tables, ghosts
  <2>13. /\ \A p \in pending : p.launch < events
         /\ io.pc = "written" => io.trace.launch < events
         /\ \A r \in raw_traces : r.file_path.launch < events
    BY DEF Recorded, OneRow, OnePlace, Unrecorded
  <2>14. Latest'
    BY <2>1, <2>13 DEF Latest, database, tables
  <2> QED BY <2>5, <2>10, <2>11, <2>12, <2>14 DEF Recorded
<1>2. CASE LookUpVersion \/ SelectOrInsertPackage \/ SelectOrInsertActivity
  <2>1. /\ launch.pc # "none"
        /\ UNCHANGED <<app_launch_histories, raw_traces, files, pending, io, thread, history>>
    BY <1>2 DEF LookUpVersion, SelectOrInsertPackage, SelectOrInsertActivity, database, tables, disk
  <2>2. /\ [launch EXCEPT !.pc = "version", !.id = 0].number = launch.number
        /\ \A pc, id : [launch EXCEPT !.pc = pc, !.id = id].number = launch.number
    BY <1>0, <2>1 DEF LaunchStates
  <2>3. launch'.pc # "none" => launch'.number = launch.number
    <3>1. CASE LookUpVersion
      <4>1. PICK id : launch' = NoLaunch \/ launch' = [launch EXCEPT !.pc = "version", !.id = id]
        BY <3>1 DEF LookUpVersion
      <4>2. launch' = NoLaunch => launch'.pc = "none"
        BY DEF NoLaunch
      <4>3. launch' = [launch EXCEPT !.pc = "version", !.id = id] => launch'.number = launch.number
        BY <2>1, <2>2
      <4> QED BY <4>1, <4>2, <4>3
    <3>2. CASE SelectOrInsertPackage
      <4>1. PICK id : launch' = [launch EXCEPT !.pc = "package", !.id = id]
        BY <3>2 DEF SelectOrInsertPackage
      <4> QED BY <2>1, <2>2, <4>1
    <3>3. CASE SelectOrInsertActivity
      <4>1. PICK id : launch' = NoLaunch \/ launch' = [launch EXCEPT !.pc = "activity", !.id = id]
        BY <3>3 DEF SelectOrInsertActivity
      <4>2. launch' = NoLaunch => launch'.pc = "none"
        BY DEF NoLaunch
      <4>3. launch' = [launch EXCEPT !.pc = "activity", !.id = id] => launch'.number = launch.number
        BY <2>1, <2>2
      <4> QED BY <4>1, <4>2, <4>3
    <3> QED BY <1>2, <3>1, <3>2, <3>3
  <2> QED BY <2>1, <2>3, RecordedRests DEF history
<1>3. CASE InsertHistory
  <2> DEFINE new == NewHistory(launch.id, launch.trace # None, launch.number)
             trace == [component |-> launch.trace, launch |-> launch.number, history_id |-> new.id]
  <2>1. /\ launch.pc = "activity" /\ launch'.pc = "none"
        /\ UNCHANGED <<raw_traces, files, io, thread, events, ghosts>>
    BY <1>0, <1>3 DEF InsertHistory, disk, history
  <2>2. \/ UNCHANGED <<app_launch_histories, pending>>
        \/ /\ app_launch_histories' = app_launch_histories \union {new}
           /\ pending' \in {pending, pending \union {trace}}
    BY <1>3 DEF InsertHistory
  <2>3. /\ new.launch = launch.number /\ new.id = NewId(app_launch_histories)
        /\ trace.launch = new.launch /\ trace.history_id = new.id
    BY DEF NewHistory
  <2> HIDE DEF new, trace
  <2>4. Taken' = Taken /\ GoingRaw' = GoingRaw
    BY <2>1 DEF Taken, GoingRaw, CurrentRow
  <2>5. \A n : Unrecorded(n) => Unrecorded(n)'
    BY <2>1, <2>4 DEF Unrecorded
  <2>6. OneRow'
    BY <2>1, <2>4 DEF Recorded, OneRow
  <2>7. Unrecorded(launch.number)
    BY <2>1 DEF Recorded, OnePlace
  <2>8. \A p \in pending' : p \in pending \/ p = trace
    BY <2>2
  <2>9. OnePlace'
    <3>1. \A p \in pending' : Unrecorded(p.launch)'
      BY <2>3, <2>5, <2>7, <2>8 DEF Recorded, OnePlace
    <3>2. \A p \in pending' : io'.pc = "written" => io'.trace.launch # p.launch
      BY <2>1, <2>3, <2>8 DEF Recorded, OnePlace
    <3>3. \A p, q \in pending' : p.launch = q.launch => p = q
      BY <2>1, <2>3, <2>8 DEF Recorded, OnePlace
    <3>4. io'.pc = "written" => Unrecorded(io.trace.launch)'
      BY <2>1, <2>5 DEF Recorded, OnePlace
    <3> QED BY <2>1, <3>1, <3>2, <3>3, <3>4 DEF Recorded, OnePlace
  <2>10. OfItsLaunch'
    <3>1. launch.number \in Nat /\ \A r \in app_launch_histories : r.id < new.id
      BY <2>1, <2>3, NumbersTyped, NewIdIsNew DEF Typed, TypedTables, HistoryRows
    <3>2. \A id, n \in Nat : n < launch.number /\ RowOf(id, n) => RowOf(id, n)'
      BY <2>1, <2>2, <2>3, <3>1 DEF RowOf, ghosts
    <3>3. \A id, n : id = new.id /\ n = new.launch /\ pending' # pending => RowOf(id, n)'
      <4>1. \A r \in app_launch_histories : r.id # new.id
        BY <3>1, HistoryIds
      <4>2. new.launch >= new.launch
        BY <2>3, <3>1
      <4> QED BY <2>2, <4>1, <4>2 DEF RowOf
    <3>4. /\ \A p \in pending : p.history_id \in Nat /\ p.launch \in Nat
          /\ io.pc = "written" => io.trace.history_id \in Nat /\ io.trace.launch \in Nat
          /\ \A t \in raw_traces : t.history_id \in Nat /\ t.file_path.launch \in Nat
      BY HistoryIds, NumbersTyped
    <3>5. \A p \in pending' : RowOf(p.history_id, p.launch)'
      <4>1. \A p \in pending : RowOf(p.history_id, p.launch)'
        BY <2>1, <3>2, <3>4 DEF Recorded, OfItsLaunch, Latest
      <4>2. \A p \in pending' : p \notin pending =>
               p.history_id = new.id /\ p.launch = new.launch /\ pending' # pending
        BY <2>3, <2>8
      <4> QED BY <3>3, <4>1, <4>2
    <3>6. io.pc = "written" => RowOf(io.trace.history_id, io.trace.launch)'
      BY <2>1, <3>2, <3>4 DEF Recorded, OfItsLaunch, Latest
    <3>7. \A t \in raw_traces : RowOf(t.history_id, t.file_path.launch)'
      BY <2>1, <3>2, <3>4 DEF Recorded, OfItsLaunch, Latest
    <3> QED BY <2>1, <3>5, <3>6, <3>7 DEF OfItsLaunch
  <2>11. HasFile'
    BY <2>1, <2>4, FilesKept DEF Recorded, ghosts
  <2>12. Latest'
    BY <2>1 DEF Latest
  <2> QED BY <2>6, <2>9, <2>10, <2>11, <2>12 DEF Recorded
<1> QED BY <1>1, <1>2, <1>3 DEF LaunchStep

-----------------------------------------------------------------------------
(* Whose a raw trace is: the io thread, where a trace becomes a file and a row *)

\* The io thread holds fewer rows; the file of the first may go.
LEMMA IoRecorded ==
    ASSUME Typed, Recorded, UNCHANGED <<app_launch_histories, launch, pending, thread, events, ghosts>>,
           io'.pc # "written", io'.rows \subseteq io.rows \union raw_traces,
           raw_traces' \subseteq raw_traces, HasFile',
           \A f \in files : f \in files' \/ \E r \in io.rows : r.file_path = f
    PROVE  Recorded'
<1>1. Taken' \subseteq Taken \union raw_traces /\ io.rows \subseteq Taken
  BY DEF Taken
<1>2. OneRow' /\ OnePlace'
  BY <1>1, PlacesKept DEF Recorded
<1>3. OfItsLaunch' /\ Latest'
  BY RowsKept DEF Recorded, ghosts
<1> QED BY <1>2, <1>3 DEF Recorded

\* The row whose file the io thread removed.
LEMMA IoGoing ==
    ASSUME UNCHANGED thread
    PROVE  /\ \A r \in GoingRaw : r \in GoingRaw' \/ (io.pc = "removed" /\ r = First(io.rows))
           /\ io'.pc = "removed" => First(io'.rows) \in GoingRaw'
<1> DEFINE others == UNION {{CurrentRow(t)} : t \in {u \in Threads : thread[u].pc = "raw_removed"}}
           own == IF io.pc = "removed" THEN {First(io.rows)} ELSE {}
<1>1. GoingRaw = others \union own /\ GoingRaw' = others' \union own'
  BY DEF GoingRaw
<1>2. others' = others
  BY DEF CurrentRow
<1>3. /\ \A r \in own : io.pc = "removed" /\ r = First(io.rows)
      /\ io'.pc = "removed" => First(io'.rows) \in own'
  OBVIOUS
<1> HIDE DEF others, own
<1> QED BY <1>1, <1>2, <1>3

LEMMA IoStepRecorded ==
    ASSUME Typed, Recorded, IoStep
    PROVE  Recorded'
<1>0. /\ io \in IoStates
      /\ IoIdle.pc = "idle" /\ IoIdle.rows = {}
      /\ io.pc \in {"pruning", "removed"} => First(io.rows) \in io.rows
      /\ io.pc \notin {"pruning", "removed"} => io.rows = {}
  <2>1. TypedIo /\ io \in IoStates
    BY DEF Typed, TypedIo
  <2>2. \A r \in io.rows : r.id \in Nat
    BY <2>1 DEF IoStates, RawRows
  <2> QED BY <2>1, <2>2, FirstIsRow DEF TypedIo, IoIdle
<1>1. \A rows : IoAfter(rows).pc # "written" /\ IoAfter(rows).pc # "removed" /\ IoAfter(rows).rows \subseteq rows
  BY <1>0 DEF IoAfter, IoStates
<1>2. CASE \E t \in pending : WriteTrace(t)
  <2>1. PICK t \in pending : WriteTrace(t)
    BY <1>2
  <2> DEFINE file == [component |-> t.component, launch |-> t.launch]
  <2>2. /\ io.pc = "idle" /\ pending' = pending \ {t}
        /\ UNCHANGED <<app_launch_histories, raw_traces, launch, thread, events, ghosts>>
    BY <2>1 DEF WriteTrace, database, tables, history
  <2>3. CASE UNCHANGED <<files, io>>
    <3>1. Taken' = Taken /\ GoingRaw' = GoingRaw
      BY <2>2, <2>3 DEF Taken, GoingRaw, CurrentRow
    <3>2. OneRow' /\ OnePlace'
      BY <2>2, <2>3, <3>1, PlacesKept DEF Recorded
    <3>3. OfItsLaunch' /\ Latest'
      BY <2>2, <2>3, RowsKept DEF Recorded, ghosts
    <3>4. HasFile'
      BY <2>2, <2>3, <3>1, FilesKept DEF Recorded, ghosts
    <3> QED BY <3>2, <3>3, <3>4 DEF Recorded
  <2>4. CASE files' = files \union {file} /\ io' = [io EXCEPT !.pc = "written", !.trace = t]
    <3>1. io'.pc = "written" /\ io'.trace = t /\ io'.rows = io.rows
      BY <1>0, <2>4 DEF IoStates
    <3>2. Taken' = Taken /\ GoingRaw' = GoingRaw
      BY <2>2, <3>1 DEF Taken, GoingRaw, CurrentRow
    <3>3. OneRow'
      BY <2>2, <3>2 DEF Recorded, OneRow
    <3>4. \A n : Unrecorded(n) => Unrecorded(n)'
      BY <2>2, <3>2 DEF Unrecorded
    <3>5. file \in files'
      BY <2>4
    <3>6. OnePlace'
      BY <2>2, <3>1, <3>4, <3>5 DEF Recorded, OnePlace
    <3>7. \A id, n : RowOf(id, n) => RowOf(id, n)'
      BY <2>2 DEF RowOf, ghosts
    <3>8. OfItsLaunch'
      BY <2>2, <3>1, <3>7 DEF Recorded, OfItsLaunch
    <3>9. HasFile'
      BY <2>2, <2>4, <3>2, FilesKept DEF Recorded, ghosts
    <3>10. Latest'
      BY <2>2, <3>1 DEF Recorded, Latest
    <3> QED BY <3>3, <3>6, <3>8, <3>9, <3>10 DEF Recorded
  <2> QED BY <2>1, <2>3, <2>4 DEF WriteTrace
<1>3. CASE InsertRawTrace
  <2> DEFINE file == [component |-> io.trace.component, launch |-> io.trace.launch]
             new == NewRawTrace(io.trace.history_id, file)
  <2>1. /\ io.pc = "written"
        /\ UNCHANGED <<app_launch_histories, files, launch, pending, thread, events, ghosts>>
    BY <1>3 DEF InsertRawTrace, disk, history
  <2>2. CASE io' = IoIdle /\ UNCHANGED raw_traces
    <3>1. GoingRaw' = GoingRaw
      BY <1>0, <2>1, <2>2 DEF GoingRaw, CurrentRow
    <3>2. HasFile'
      BY <2>1, <2>2, <3>1, FilesKept DEF Recorded, ghosts
    <3> QED BY <1>0, <2>1, <2>2, <3>2, IoRecorded
  <2>3. CASE raw_traces' = raw_traces \union {new} /\ io' = [io EXCEPT !.pc = "inserted"]
    <3>1. io'.pc = "inserted" /\ io'.rows = io.rows
      BY <1>0, <2>3 DEF IoStates
    <3>2. /\ new.file_path = file /\ file.launch = io.trace.launch
          /\ new.history_id = io.trace.history_id
      BY DEF NewRawTrace
    <3>3. file \in files /\ Unrecorded(io.trace.launch)
      BY <2>1 DEF Recorded, OnePlace
    <3> HIDE DEF new, file
    <3>4. Taken' = Taken /\ GoingRaw' = GoingRaw
      BY <2>1, <3>1 DEF Taken, GoingRaw, CurrentRow
    <3>5. OneRow'
      BY <2>1, <2>3, <3>2, <3>3, <3>4 DEF Recorded, OneRow, Unrecorded
    <3>6. \A n : Unrecorded(n) /\ n # io.trace.launch => Unrecorded(n)'
      BY <2>1, <2>3, <3>2, <3>4 DEF Unrecorded
    <3>7. OnePlace'
      BY <2>1, <3>1, <3>6 DEF Recorded, OnePlace
    <3>8. \A id, n : RowOf(id, n) => RowOf(id, n)'
      BY <2>1 DEF RowOf, ghosts
    <3>9. OfItsLaunch'
      BY <2>1, <2>3, <3>1, <3>2, <3>8 DEF Recorded, OfItsLaunch
    <3>10. HasFile'
      BY <2>1, <2>3, <3>2, <3>3, <3>4 DEF Recorded, HasFile, ghosts
    <3>11. Latest'
      BY <2>1, <2>3, <3>1, <3>2 DEF Recorded, Latest
    <3> QED BY <3>5, <3>7, <3>9, <3>10, <3>11 DEF Recorded
  <2> QED BY <1>3, <2>2, <2>3 DEF InsertRawTrace
<1>4. CASE SelectOlder
  <2> DEFINE older == Oldest(RawTracesOf(io.trace.component))
  <2>1. older \subseteq raw_traces
    BY DEF Oldest, RawTracesOf
  <2>2. /\ io.pc = "inserted"
        /\ io' = IF older = {} THEN IoIdle ELSE [io EXCEPT !.pc = "pruning", !.rows = older]
        /\ UNCHANGED <<app_launch_histories, raw_traces, files, launch, pending, thread, events, ghosts>>
    BY <1>4 DEF SelectOlder, database, tables, disk, history
  <2> HIDE DEF older
  <2>3. io'.pc \in {"idle", "pruning"} /\ io'.rows \subseteq raw_traces
    BY <1>0, <2>1, <2>2 DEF IoStates
  <2>4. GoingRaw' = GoingRaw
    BY <2>2, <2>3 DEF GoingRaw, CurrentRow
  <2>5. HasFile'
    BY <2>2, <2>4, FilesKept DEF Recorded, ghosts
  <2> QED BY <2>2, <2>3, <2>5, IoRecorded
<1>5. CASE RemoveOlder
  <2> DEFINE row == First(io.rows)
  <2>1. /\ io.pc = "pruning"
        /\ UNCHANGED <<app_launch_histories, raw_traces, launch, pending, thread, events, ghosts>>
    BY <1>5 DEF RemoveOlder, database, tables, history
  <2>2. CASE files' = files \ {row.file_path} /\ io' = [io EXCEPT !.pc = "removed"]
    <3>1. io'.pc = "removed" /\ io'.rows = io.rows
      BY <1>0, <2>2 DEF IoStates
    <3>2. row \in io.rows /\ row \in GoingRaw' /\ row \in Taken
      BY <1>0, <2>1, <3>1, IoGoing DEF Taken
    <3>3. \A r \in GoingRaw : r \in GoingRaw'
      BY <2>1, IoGoing
    <3> HIDE DEF row
    <3>4. \A r \in raw_traces : r.file_path = row.file_path => r = row
      BY <3>2 DEF Recorded, OneRow
    <3>5. HasFile'
      BY <2>1, <2>2, <3>2, <3>3, <3>4 DEF Recorded, HasFile, ghosts
    <3> QED BY <2>1, <2>2, <3>1, <3>2, <3>5, IoRecorded
  <2>3. CASE io' = IoAfter(io.rows) /\ UNCHANGED files
    <3>1. \A r \in GoingRaw : r \in GoingRaw'
      BY <2>1 DEF GoingRaw, CurrentRow
    <3>2. HasFile'
      BY <2>1, <2>3, <3>1, FilesKept DEF Recorded, ghosts
    <3>3. io'.pc # "written" /\ io'.rows \subseteq io.rows \union raw_traces
      BY <1>1, <2>3
    <3> QED BY <2>1, <2>3, <3>2, <3>3, IoRecorded
  <2> QED BY <1>5, <2>2, <2>3 DEF RemoveOlder
<1>6. CASE DeleteOlder
  <2> DEFINE row == First(io.rows)
  <2>1. /\ io.pc = "removed" /\ io' = IoAfter(io.rows)
        /\ raw_traces' = {r \in raw_traces : r.id # row.id}
        /\ UNCHANGED <<app_launch_histories, files, launch, pending, thread, events, ghosts>>
    BY <1>6 DEF DeleteOlder, Delete, disk, history
  <2>2. \A r \in GoingRaw : r \in GoingRaw' \/ r = row
    BY <2>1, IoGoing
  <2> HIDE DEF row
  <2>3. HasFile'
    BY <2>1, <2>2, FilesKept DEF Recorded, ghosts
  <2>4. io'.pc # "written" /\ io'.rows \subseteq io.rows \union raw_traces
    BY <1>1, <2>1
  <2> QED BY <2>1, <2>3, <2>4, IoRecorded
<1> QED BY <1>2, <1>3, <1>4, <1>5, <1>6 DEF IoStep

-----------------------------------------------------------------------------
(* Whose a raw trace is: restarts *)

LEMMA DieRecorded ==
    ASSUME Typed, Recorded, Die, events' \in {events, events + 1},
           \/ UNCHANGED <<app_launch_histories, raw_traces, files>>
           \/ raw_traces' = {}
    PROVE  Recorded'
<1>1. /\ launch'.pc = "none" /\ pending' = {} /\ io'.pc = "idle" /\ io'.rows = {}
      /\ \A t \in Threads : thread'[t].pc = "idle"
      /\ interrupted' = interrupted \union {row.file_path : row \in Going}
      /\ UNCHANGED forgotten
  BY DEF Die, NoLaunch, IoIdle, Idle
<1>2. Taken' = {}
  BY <1>1 DEF Taken, CleaningRaw
<1>3. raw_traces' \subseteq raw_traces /\ \A n \in Nat : n < events => n < events'
  BY NumbersTyped
<1>4. OneRow'
  BY <1>2, <1>3, NumbersTyped DEF Recorded, OneRow
<1>5. OnePlace'
  BY <1>1 DEF OnePlace
<1>6. OfItsLaunch'
  BY <1>1 DEF Recorded, OfItsLaunch, RowOf
<1>7. GoingRaw \subseteq Going
  BY DEF GoingRaw, Going
<1>8. \A r \in GoingRaw : r.file_path \in interrupted'
  BY <1>1, <1>7
<1>9. HasFile'
  BY <1>1, <1>8 DEF Recorded, HasFile
<1>10. Latest'
  BY <1>1 DEF Latest
<1> QED BY <1>4, <1>5, <1>6, <1>9, <1>10 DEF Recorded

LEMMA RestartRecorded ==
    ASSUME Typed, Recorded, Crash \/ CrashWithoutMap \/ Upgrade
    PROVE  Recorded'
BY DieRecorded DEF Crash, CrashWithoutMap, Upgrade, Reopen, Event, tables

-----------------------------------------------------------------------------
LEMMA InitRecorded == Init => Recorded
<1> SUFFICES ASSUME Init PROVE Recorded
  OBVIOUS
<1>1. raw_traces = {} /\ pending = {} /\ launch.pc = "none" /\ io.pc = "idle" /\ io.rows = {}
  BY DEF Init, EmptyDatabase, NoLaunch, IoIdle
<1>2. Taken = {}
  BY <1>1 DEF Init, Taken, CleaningRaw, Idle
<1> QED BY <1>1, <1>2 DEF Recorded, OneRow, OnePlace, HasFile, OfItsLaunch, Latest

LEMMA NextRecorded == Typed /\ Recorded /\ [Next]_vars => Recorded'
<1> SUFFICES ASSUME Typed, Recorded, [Next]_vars PROVE Recorded'
  OBVIOUS
<1>1. CASE LaunchStep
  BY <1>1, LaunchStepRecorded
<1>2. CASE IoStep
  BY <1>2, IoStepRecorded
<1>3. CASE ThreadStep
  BY <1>3, ThreadStepRecorded
<1>4. CASE \E p \in Packages, v \in Versions \union {None} : ChangePackage(p, v)
  BY <1>4, RecordedRests DEF ChangePackage, Event, database, tables, disk
<1>5. CASE Crash \/ CrashWithoutMap \/ Upgrade
  BY <1>5, RestartRecorded
<1>6. CASE UNCHANGED vars
  BY <1>6, RecordedRests DEF vars, database, tables, disk, history
<1> QED BY <1>1, <1>2, <1>3, <1>4, <1>5, <1>6 DEF Next

\* From StartTracing to its deletion a trace is in one place, with the launch, on its way
\* to the io thread, written, or in one row, and its number names no other.
THEOREM RecordedInvariant == Spec => []Recorded
<1> QED BY InitRecorded, NextRecorded, TypedInvariant, PTL DEF Spec

\* A raw trace in the database has its file (DeleteOlderFiles and the clean-up remove it
\* just before the row) unless the daemon died between the two.
THEOREM RawTracesHaveFiles == Spec => []RawTraceHasFile
<1>1. GoingRaw \subseteq Going
  BY DEF GoingRaw, Going
<1>2. Recorded => RawTraceHasFile
  BY <1>1 DEF Recorded, HasFile, RawTraceHasFile
<1> QED BY <1>2, RecordedInvariant, PTL

\* The history id a trace took along names the row of its own launch, or, when a
\* clean-up deleted that row meanwhile, none or that of a later launch, which was given
\* the id again (event_manager.cc:552); an earlier launch never gets the trace.
THEOREM RawTracesAreOfTheirLaunch == Spec => []RawTraceOfItsLaunch
<1>1. Typed /\ Recorded => RawTraceOfItsLaunch
  BY DEF Typed, TypedTables, Keyed, Recorded, OfItsLaunch, RowOf, RawTraceOfItsLaunch
<1> QED BY <1>1, RecordedInvariant, TypedInvariant, PTL

-----------------------------------------------------------------------------
(* Packages in hand *)

\* A step within a package; the list of packages and what is done with them stay.
SameHand(t, state) ==
    /\ state.job = thread[t].job
    /\ state.packages = thread[t].packages
    /\ state.package = thread[t].package

\* The other thread, and what a thread works on.
LEMMA OthersRest ==
    ASSUME TypedThreads, NEW t \in Threads, NEW state, Set(t, state)
    PROVE  /\ thread'[t] = state
           /\ \A u \in Threads : u # t =>
                 /\ thread'[u] = thread[u] /\ InHand(u)' = InHand(u)
                 /\ Current(u)' = Current(u) /\ CurrentRow(u)' = CurrentRow(u)
           /\ state.package = thread[t].package =>
                 /\ InHand(t)' = InHand(t)
                 /\ state.activities = thread[t].activities => Current(t)' = Current(t)
           /\ state.rows = thread[t].rows => CurrentRow(t)' = CurrentRow(t)
<1>1. thread'[t] = state /\ \A u \in Threads : u # t => thread'[u] = thread[u]
  BY ThreadSet
<1> QED BY <1>1 DEF InHand, Current, CurrentActivity, CurrentRow

\* What a step does not assign, it keeps.
LEMMA DropPackageKeeps ==
    ASSUME NEW t \in Threads, thread[t] \in ThreadStates
    PROVE  /\ DropPackage(t).pc = "packages" /\ DropPackage(t).package = None
           /\ DropPackage(t).job = thread[t].job
           /\ DropPackage(t).packages = thread[t].packages \ {CurrentPackage(t)}
BY DEF ThreadStates, DropPackage

LEMMA DropActivityKeeps ==
    ASSUME NEW t \in Threads, thread[t] \in ThreadStates, NEW pc
    PROVE  DropActivity(t, pc).pc = pc /\ SameHand(t, DropActivity(t, pc))
BY DEF ThreadStates, SameHand, DropActivity

LEMMA MovingKeeps ==
    ASSUME NEW t \in Threads, thread[t] \in ThreadStates, NEW pc, NEW state,
           state = [thread[t] EXCEPT !.pc = pc]
    PROVE  /\ state.pc = pc /\ SameHand(t, state)
           /\ state.activities = thread[t].activities /\ state.rows = thread[t].rows
BY DEF ThreadStates, SameHand

LEMMA SelectingKeeps ==
    ASSUME NEW t \in Threads, thread[t] \in ThreadStates, NEW pc, NEW rows, NEW state,
           state = [thread[t] EXCEPT !.pc = pc, !.rows = rows]
    PROVE  /\ state.pc = pc /\ SameHand(t, state)
           /\ state.activities = thread[t].activities /\ state.rows = rows
BY DEF ThreadStates, SameHand

LEMMA HandRests ==
    ASSUME PackagesInHand, packages \subseteq packages', UNCHANGED <<thread, overlapped>>
    PROVE  PackagesInHand'
<1>1. \A t \in Threads : InHand(t)' = InHand(t)
  BY DEF InHand
<1>2. CurrentPackage("worker")' = CurrentPackage("worker")
  BY DEF CurrentPackage
<1> QED BY <1>1, <1>2 DEF PackagesInHand, Threads

LEMMA HandSame ==
    ASSUME Typed, PackagesInHand, NEW t \in Threads, NEW state, Set(t, state), SameHand(t, state),
           state.pc \in OnCompilation => thread[t].pc \in OnCompilation,
           packages \subseteq packages',
           overlapped' = overlapped \union (InHand("worker") \intersect InHand("binder"))'
    PROVE  PackagesInHand'
<1>1. /\ thread'[t] = state
      /\ \A u \in Threads : u # t => thread'[u] = thread[u]
      /\ \A u \in Threads : InHand(u)' = InHand(u)
  BY OthersRest DEF Typed, SameHand
<1>2. \A u \in Threads :
         /\ thread'[u].job = thread[u].job
         /\ thread'[u].packages = thread[u].packages
         /\ thread'[u].package = thread[u].package
         /\ thread'[u].pc \in OnCompilation => thread[u].pc \in OnCompilation
  BY <1>1 DEF SameHand
<1>3. "worker" \in Threads /\ "binder" \in Threads
  BY DEF Threads
<1>4. CurrentPackage("worker")' = CurrentPackage("worker")
  BY <1>2, <1>3 DEF CurrentPackage
<1>5. (InHand("worker") \intersect InHand("binder"))' \subseteq overlapped'
  OBVIOUS
<1>6. \A u \in Threads : thread'[u].pc \in OnCompilation =>
         /\ thread'[u].job = "compile"
         /\ thread'[u].package \in packages' \/ InHand(u)' \subseteq overlapped'
  BY <1>1, <1>2 DEF PackagesInHand
<1> QED BY <1>2, <1>3, <1>4, <1>5, <1>6 DEF PackagesInHand

LEMMA HandMoves ==
    ASSUME Typed, PackagesInHand, NEW t \in Threads, NEW pc,
           Set(t, [thread[t] EXCEPT !.pc = pc]),
           pc \in OnCompilation => thread[t].pc \in OnCompilation,
           UNCHANGED packages,
           overlapped' = overlapped \union (InHand("worker") \intersect InHand("binder"))'
    PROVE  PackagesInHand'
<1> DEFINE state == [thread[t] EXCEPT !.pc = pc]
<1>1. thread[t] \in ThreadStates /\ Set(t, state)
  BY DEF Typed, TypedThreads, TypedThread
<1>2. state.pc = pc /\ SameHand(t, state)
  BY <1>1, MovingKeeps
<1> HIDE DEF state
<1> QED BY <1>1, <1>2, HandSame

LEMMA HandSelects ==
    ASSUME Typed, PackagesInHand, NEW t \in Threads, NEW pc, NEW rows,
           Set(t, [thread[t] EXCEPT !.pc = pc, !.rows = rows]),
           pc \in OnCompilation => thread[t].pc \in OnCompilation,
           UNCHANGED packages,
           overlapped' = overlapped \union (InHand("worker") \intersect InHand("binder"))'
    PROVE  PackagesInHand'
<1> DEFINE state == [thread[t] EXCEPT !.pc = pc, !.rows = rows]
<1>1. thread[t] \in ThreadStates /\ Set(t, state)
  BY DEF Typed, TypedThreads, TypedThread
<1>2. state.pc = pc /\ SameHand(t, state)
  BY <1>1 DEF ThreadStates, SameHand
<1> HIDE DEF state
<1> QED BY <1>1, <1>2, HandSame

LEMMA HandDropsActivity ==
    ASSUME Typed, PackagesInHand, NEW t \in Threads, NEW pc, Set(t, DropActivity(t, pc)),
           pc \in OnCompilation => thread[t].pc \in OnCompilation,
           UNCHANGED packages,
           overlapped' = overlapped \union (InHand("worker") \intersect InHand("binder"))'
    PROVE  PackagesInHand'
<1>1. thread[t] \in ThreadStates
  BY DEF Typed, TypedThreads, TypedThread
<1>2. DropActivity(t, pc).pc = pc /\ SameHand(t, DropActivity(t, pc))
  BY <1>1, DropActivityKeeps
<1> QED BY <1>2, HandSame

\* Nothing is in hand between two packages.
LEMMA HandEmpty ==
    ASSUME Typed, PackagesInHand, NEW t \in Threads, NEW state, Set(t, state),
           state.package = None, state.pc \notin OnCompilation,
           state.job = "maintenance" => t = "worker",
           t = "worker" => state.packages \subseteq packages,
           UNCHANGED packages,
           overlapped' = overlapped \union (InHand("worker") \intersect InHand("binder"))'
    PROVE  PackagesInHand'
<1>1. /\ thread'[t] = state
      /\ \A u \in Threads : u # t => thread'[u] = thread[u] /\ InHand(u)' = InHand(u)
  BY OthersRest DEF Typed
<1>2. "worker" \in Threads /\ "binder" \in Threads
  BY DEF Threads
<1>3. (InHand("worker") \intersect InHand("binder"))' \subseteq overlapped'
  OBVIOUS
<1>4. thread'["binder"].job # "maintenance" /\ thread'["worker"].packages \subseteq packages
  BY <1>1, <1>2 DEF PackagesInHand
<1>5. thread'["worker"].job = "maintenance" /\ thread'["worker"].package # None =>
         /\ thread'["worker"].package = CurrentPackage("worker")'
         /\ thread'["worker"].packages # {}
  <2>1. CASE t = "worker"
    BY <1>1, <2>1
  <2>2. CASE t # "worker"
    <3>1. thread'["worker"] = thread["worker"]
      BY <1>1, <1>2, <2>2
    <3>2. CurrentPackage("worker")' = CurrentPackage("worker")
      BY <3>1 DEF CurrentPackage
    <3> QED BY <3>1, <3>2 DEF PackagesInHand
  <2> QED BY <2>1, <2>2
<1>6. ASSUME NEW u \in Threads, thread'[u].pc \in OnCompilation
      PROVE  /\ thread'[u].job = "compile"
             /\ thread'[u].package \in packages' \/ InHand(u)' \subseteq overlapped'
  BY <1>1, <1>6 DEF PackagesInHand
<1> QED BY <1>3, <1>4, <1>5, <1>6 DEF PackagesInHand

\* A package of the list is taken in hand.
LEMMA HandTakes ==
    ASSUME Typed, PackagesInHand, NEW t \in Threads, NEW state, Set(t, state),
           state.job = thread[t].job, state.packages = thread[t].packages,
           state.job = "maintenance" =>
              state.package = CurrentPackage(t) /\ thread[t].packages # {},
           state.pc \in OnCompilation => state.job = "compile" /\ state.package \in packages,
           UNCHANGED packages,
           overlapped' = overlapped \union (InHand("worker") \intersect InHand("binder"))'
    PROVE  PackagesInHand'
<1>1. /\ thread'[t] = state
      /\ \A u \in Threads : u # t => thread'[u] = thread[u] /\ InHand(u)' = InHand(u)
  BY OthersRest DEF Typed
<1>2. "worker" \in Threads /\ "binder" \in Threads
  BY DEF Threads
<1>3. (InHand("worker") \intersect InHand("binder"))' \subseteq overlapped'
  OBVIOUS
<1>4. thread'["binder"].job # "maintenance" /\ thread'["worker"].packages \subseteq packages
  BY <1>1, <1>2 DEF PackagesInHand
<1>5. CurrentPackage("worker")' = CurrentPackage("worker")
  BY <1>1, <1>2 DEF CurrentPackage
<1>6. thread'["worker"].job = "maintenance" /\ thread'["worker"].package # None =>
         /\ thread'["worker"].package = CurrentPackage("worker")'
         /\ thread'["worker"].packages # {}
  BY <1>1, <1>2, <1>5 DEF PackagesInHand
<1>7. ASSUME NEW u \in Threads, thread'[u].pc \in OnCompilation
      PROVE  /\ thread'[u].job = "compile"
             /\ thread'[u].package \in packages' \/ InHand(u)' \subseteq overlapped'
  BY <1>1, <1>7 DEF PackagesInHand
<1> QED BY <1>3, <1>4, <1>6, <1>7 DEF PackagesInHand

\* The maintenance deletes the package it has in hand.
LEMMA HandDeletes ==
    ASSUME Typed, PackagesInHand, NEW t \in Threads, FinishPackage(t),
           thread[t].job = "maintenance", DeletePackage(thread[t].package.id),
           overlapped' = overlapped \union (InHand("worker") \intersect InHand("binder"))'
    PROVE  PackagesInHand'
<1> DEFINE gone == thread[t].package
<1>1. t = "worker" /\ thread[t].package # None
  <2>1. TypedThread(thread[t]) /\ thread[t].pc = "activities"
    BY DEF Typed, TypedThreads, FinishPackage
  <2>2. thread[t].package \in PackageRows
    BY <2>1 DEF TypedThread, OnPackage
  <2>3. None \notin PackageRows
    BY StoreAssumption DEF PackageRows
  <2> QED BY <2>2, <2>3 DEF PackagesInHand, Threads
<1>2. gone = CurrentPackage("worker") /\ gone \in thread["worker"].packages /\ gone \in packages
  <2>1. gone = CurrentPackage("worker") /\ thread["worker"].packages # {}
    BY <1>1 DEF PackagesInHand
  <2>2. CurrentPackage("worker") \in thread["worker"].packages
    BY <1>1, <2>1, InHandTyped DEF Typed, TypedThreads
  <2> QED BY <2>1, <2>2 DEF PackagesInHand
<1>3. \A r \in packages : r # gone => r \in packages'
  BY <1>2 DEF DeletePackage, Delete, Typed, TypedTables, Keyed
<1>4. /\ thread'["worker"].package = None /\ thread'["worker"].pc = "packages"
      /\ thread'["worker"].packages = thread["worker"].packages \ {gone}
      /\ thread'["binder"] = thread["binder"] /\ InHand("binder")' = InHand("binder")
  <2>1. Set(t, DropPackage(t)) /\ thread[t] \in ThreadStates
    BY DEF FinishPackage, Typed, TypedThreads, TypedThread
  <2>2. /\ DropPackage(t).pc = "packages" /\ DropPackage(t).package = None
        /\ DropPackage(t).packages = thread[t].packages \ {CurrentPackage(t)}
    BY <2>1, DropPackageKeeps
  <2> HIDE DEF gone
  <2>3. /\ thread'["worker"] = DropPackage(t)
        /\ thread'["binder"] = thread["binder"] /\ InHand("binder")' = InHand("binder")
    BY <1>1, <2>1, OthersRest DEF Typed, Threads
  <2> QED BY <1>1, <1>2, <2>2, <2>3
<1>5. thread'["worker"].packages \subseteq packages'
  BY <1>3, <1>4 DEF PackagesInHand
<1>6. ASSUME thread'["binder"].pc \in OnCompilation
      PROVE  /\ thread'["binder"].job = "compile"
             /\ thread'["binder"].package \in packages' \/ InHand("binder")' \subseteq overlapped'
  <2>1. /\ thread["binder"].job = "compile"
        /\ thread["binder"].package \in packages \/ InHand("binder") \subseteq overlapped
    BY <1>4, <1>6 DEF PackagesInHand, Threads
  <2>2. CASE thread["binder"].package = gone
    <3>1. InHand("binder") = InHand("worker")
      BY <1>1, <2>2 DEF InHand
    <3> QED BY <1>4, <2>1, <3>1 DEF PackagesInHand
  <2>3. CASE thread["binder"].package # gone
    BY <1>3, <1>4, <2>1, <2>3
  <2> QED BY <2>2, <2>3
<1>7. (InHand("worker") \intersect InHand("binder"))' \subseteq overlapped'
  OBVIOUS
<1>8. \A u \in Threads : u = "worker" \/ u = "binder"
  BY DEF Threads
<1>9. "packages" \notin OnCompilation
  BY DEF OnCompilation, Compiling
<1>10. \A u \in Threads : thread'[u].pc \in OnCompilation =>
             /\ thread'[u].job = "compile"
             /\ thread'[u].package \in packages' \/ InHand(u)' \subseteq overlapped'
  BY <1>4, <1>6, <1>8, <1>9
<1>11. thread'["binder"].job # "maintenance"
  BY <1>4 DEF PackagesInHand
<1> QED BY <1>4, <1>5, <1>7, <1>10, <1>11 DEF PackagesInHand

LEMMA HandDropped ==
    ASSUME Typed, PackagesInHand, NEW t \in Threads, Set(t, DropPackage(t)), UNCHANGED packages,
           overlapped' = overlapped \union (InHand("worker") \intersect InHand("binder"))'
    PROVE  PackagesInHand'
<1>1. thread[t] \in ThreadStates
  BY DEF Typed, TypedThreads, TypedThread
<1>2. /\ DropPackage(t).pc = "packages" /\ DropPackage(t).package = None
      /\ DropPackage(t).job = thread[t].job
      /\ DropPackage(t).packages \subseteq thread[t].packages
  BY <1>1, DropPackageKeeps
<1>3. "packages" \notin OnCompilation
  BY DEF OnCompilation, Compiling
<1>4. thread[t].job = "maintenance" => t = "worker"
  BY DEF PackagesInHand, Threads
<1>5. t = "worker" => thread[t].packages \subseteq packages
  BY DEF PackagesInHand
<1> QED BY <1>2, <1>3, <1>4, <1>5, HandEmpty

LEMMA CleanUpHand ==
    ASSUME Typed, PackagesInHand, NEW t \in Threads, Watched(CleanUp(t))
    PROVE  PackagesInHand'
<1> USE DEF OnCompilation, Compiling
<1>1. overlapped' = overlapped \union (InHand("worker") \intersect InHand("binder"))'
  BY DEF Watched
<1>2. thread[t] \in ThreadStates
  BY DEF Typed, TypedThreads, TypedThread
<1>3. CASE CleanPackage(t)
  <2> DEFINE taken == [thread[t] EXCEPT !.pc = "activities", !.package = CurrentPackage(t),
                                        !.activities = ActivitiesOf(CurrentPackage(t).id)]
  <2>1. /\ taken.pc = "activities" /\ taken.job = thread[t].job
        /\ taken.packages = thread[t].packages /\ taken.package = CurrentPackage(t)
    BY <1>2 DEF ThreadStates
  <2>2. Set(t, taken) \/ Set(t, DropPackage(t))
    BY <1>3 DEF CleanPackage
  <2>3. thread[t].packages # {} /\ UNCHANGED packages
    BY <1>3 DEF CleanPackage, database, tables
  <2> HIDE DEF taken
  <2> QED BY <1>1, <2>1, <2>2, <2>3, HandTakes, HandDropped
<1>4. CASE FinishPackage(t)
  <2>1. CASE UNCHANGED database
    BY <1>1, <1>4, <2>1, HandDropped DEF FinishPackage, database, tables
  <2>2. CASE thread[t].job = "maintenance" /\ DeletePackage(thread[t].package.id)
    BY <1>1, <1>4, <2>2, HandDeletes
  <2> QED BY <1>4, <2>1, <2>2 DEF FinishPackage
<1>5. CASE \/ SelectRawTraces(t) \/ RemoveRawTrace(t) \/ DeleteRawTrace(t)
           \/ SelectPrefetchFile(t) \/ RemovePrefetchFile(t) \/ DeletePrefetchFile(t)
  <2>1. UNCHANGED packages
    BY <1>5 DEF SelectRawTraces, RemoveRawTrace, DeleteRawTrace, SelectPrefetchFile,
       RemovePrefetchFile, DeletePrefetchFile, database, tables
  <2>2. CASE SelectRawTraces(t)
    BY <1>1, <2>1, <2>2, HandSelects DEF SelectRawTraces
  <2>3. CASE RemoveRawTrace(t) \/ RemovePrefetchFile(t)
    BY <1>1, <2>1, <2>3, HandMoves DEF RemoveRawTrace, RemovePrefetchFile
  <2>4. CASE DeleteRawTrace(t)
    BY <1>1, <2>1, <2>4, HandSelects DEF DeleteRawTrace
  <2>5. CASE SelectPrefetchFile(t)
    <3>1. PICK found : Set(t, IF found = {} THEN DropActivity(t, "activities")
                              ELSE [thread[t] EXCEPT !.pc = "prefetch_file", !.rows = found])
      BY <2>5 DEF SelectPrefetchFile
    <3> QED BY <1>1, <2>1, <3>1, HandSelects, HandDropsActivity
  <2>6. CASE DeletePrefetchFile(t)
    BY <1>1, <2>1, <2>6, HandDropsActivity DEF DeletePrefetchFile
  <2> QED BY <1>5, <2>2, <2>3, <2>4, <2>5, <2>6
<1> QED BY <1>3, <1>4, <1>5 DEF Watched, CleanUp

LEMMA CompileStepHand ==
    ASSUME Typed, PackagesInHand, NEW t \in Threads, Watched(CompileStep(t))
    PROVE  PackagesInHand'
<1>1. overlapped' = overlapped \union (InHand("worker") \intersect InHand("binder"))'
  BY DEF Watched
<1>2. thread[t] \in ThreadStates
  BY DEF Typed, TypedThreads, TypedThread
<1>3. UNCHANGED packages
  BY DEF Watched, CompileStep, CompilePackage, CheckCompiled, SelectTraces, OpenOutput,
     CompilerSucceeds, CompilerFails, InsertPrefetchFile, FinishCompilePackage, database, tables
<1>4. CASE CompilePackage(t)
  <2> DEFINE found == PackagesNamedVersion(CurrentPackage(t).name, CurrentPackage(t).version)
  <2>1. CASE Set(t, DropPackage(t))
    BY <1>1, <1>3, <2>1, HandDropped
  <2>2. ASSUME NEW package \in found,
               Set(t, [thread[t] EXCEPT !.pc = "compile", !.package = package,
                                        !.activities = ActivitiesOf(package.id)])
        PROVE  PackagesInHand'
    <3> DEFINE taken == [thread[t] EXCEPT !.pc = "compile", !.package = package,
                                          !.activities = ActivitiesOf(package.id)]
    <3>1. /\ taken.job = thread[t].job /\ taken.packages = thread[t].packages
          /\ taken.package = package
      BY <1>2 DEF ThreadStates
    <3>2. package \in packages /\ thread[t].job = "compile"
      BY <1>4 DEF PackagesNamedVersion, PackagesNamed, CompilePackage
    <3> HIDE DEF taken, found
    <3>3. Set(t, taken)
      BY <2>2 DEF taken
    <3> QED BY <1>1, <1>3, <3>1, <3>2, <3>3, HandTakes
  <2> QED BY <1>4, <2>1, <2>2 DEF CompilePackage
<1>5. CASE FinishCompilePackage(t)
  BY <1>1, <1>3, <1>5, HandDropped DEF FinishCompilePackage
<1>6. CASE \/ CheckCompiled(t) \/ SelectTraces(t) \/ OpenOutput(t) \/ CompilerSucceeds(t)
           \/ CompilerFails(t) \/ InsertPrefetchFile(t)
  <2>1. thread[t].pc \in OnCompilation
    BY <1>6 DEF CheckCompiled, SelectTraces, OpenOutput, CompilerSucceeds, CompilerFails,
       InsertPrefetchFile, OnCompilation, Compiling
  <2>2. CASE CheckCompiled(t)
    BY <1>1, <1>3, <2>1, <2>2, HandMoves, HandDropsActivity DEF CheckCompiled
  <2>3. CASE SelectTraces(t)
    <3>1. PICK found : \/ Set(t, [thread[t] EXCEPT !.pc = "forked", !.rows = found])
                       \/ Set(t, DropActivity(t, "compile"))
      BY <2>3 DEF SelectTraces
    <3> QED BY <1>1, <1>3, <2>1, <3>1, HandSelects, HandDropsActivity
  <2>4. CASE OpenOutput(t) \/ CompilerSucceeds(t)
    BY <1>1, <1>3, <2>1, <2>4, HandMoves DEF OpenOutput, CompilerSucceeds
  <2>5. CASE CompilerFails(t) \/ InsertPrefetchFile(t)
    BY <1>1, <1>3, <2>1, <2>5, HandDropsActivity DEF CompilerFails, InsertPrefetchFile
  <2> QED BY <1>6, <2>2, <2>3, <2>4, <2>5
<1> QED BY <1>4, <1>5, <1>6 DEF Watched, CompileStep

\* A request takes its packages.
LEMMA HandBegins ==
    ASSUME Typed, PackagesInHand, NEW job \in {"purge", "compile"}, NEW rows,
           Set("binder", [Idle EXCEPT !.job = job, !.pc = "packages", !.packages = rows]),
           UNCHANGED packages,
           overlapped' = overlapped \union (InHand("worker") \intersect InHand("binder"))'
    PROVE  PackagesInHand'
<1> DEFINE begun == [Idle EXCEPT !.job = job, !.pc = "packages", !.packages = rows]
<1>1. begun.pc = "packages" /\ begun.job = job /\ begun.package = None
  BY DEF Idle
<1>2. Set("binder", begun) /\ "binder" \in Threads
  BY DEF Threads
<1>3. "packages" \notin OnCompilation
  BY DEF OnCompilation, Compiling
<1> HIDE DEF begun
<1> QED BY <1>1, <1>2, <1>3, HandEmpty

LEMMA NextHand ==
    ASSUME Typed, PackagesInHand, [Next]_vars
    PROVE  PackagesInHand'
<1>1. "worker" \in Threads /\ "binder" \in Threads
  BY DEF Threads
<1>2. /\ Idle.pc = "idle" /\ Idle.job = "none" /\ Idle.package = None /\ Idle.packages = {}
      /\ \A job, rows : LET begun == [Idle EXCEPT !.job = job, !.pc = "packages", !.packages = rows]
                        IN  /\ begun.job = job /\ begun.pc = "packages" /\ begun.packages = rows
                            /\ begun.package = None
  BY DEF Idle
<1>3. {"idle", "update", "select", "packages"} \intersect OnCompilation = {}
  BY DEF OnCompilation, Compiling
<1>4. CASE LaunchStep
  BY <1>4, HandRests DEF LaunchStep, StartLaunch, LookUpVersion, SelectOrInsertPackage,
     SelectOrInsertActivity, InsertHistory, database, tables
<1>5. CASE IoStep
  BY <1>5, HandRests DEF IoStep, WriteTrace, InsertRawTrace, SelectOlder, RemoveOlder,
     DeleteOlder, database, tables
<1>6. CASE Watched(Request)
  <2>1. PICK p \in Packages : Purge(p) \/ Compile(p)
    BY <1>6 DEF Watched, Request
  <2>2. UNCHANGED packages
    BY <2>1 DEF Purge, Compile, database, tables
  <2> QED BY <1>6, <2>1, <2>2, HandBegins DEF Watched, Purge, Compile
<1>7. CASE Watched(OnPackageChanged)
  <2>1. UNCHANGED packages
    BY <1>7 DEF Watched, OnPackageChanged, database, tables
  <2>2. CASE UNCHANGED thread
    <3>1. InHand("worker")' = InHand("worker") /\ InHand("binder")' = InHand("binder")
      BY <2>2 DEF InHand
    <3>2. overlapped' = overlapped
      BY <1>7, <3>1 DEF Watched, PackagesInHand
    <3> QED BY <2>1, <2>2, <3>2, HandRests
  <2>3. CASE thread' # thread
    <3>1. PICK found : Set("binder", [Idle EXCEPT !.job = "purge", !.pc = "packages",
                                                  !.packages = found])
      BY <1>7, <2>3 DEF Watched, OnPackageChanged
    <3> QED BY <1>7, <2>1, <3>1, HandBegins DEF Watched
  <2> QED BY <2>2, <2>3
<1>8. CASE Watched(Maintenance)
  <2>1. UNCHANGED packages
    BY <1>8 DEF Watched, Maintenance, StartMaintenance, UpdateAllSucceeds, UpdateAllFails,
       UpdateAll, SelectPackages, database, tables
  <2>2. TypedThread(thread["worker"]) /\ thread["worker"] \in ThreadStates
    BY <1>1 DEF Typed, TypedThreads, TypedThread
  <2>3. thread["worker"].pc \in {"update", "select"} => thread["worker"].package = None
    BY <2>2 DEF TypedThread, OnPackage, OnActivity, CleaningRaw, CleaningPrefetch, Compiling
  <2>4. CASE StartMaintenance
    <3> DEFINE begun == [Idle EXCEPT !.job = "maintenance", !.pc = "update"]
    <3>1. begun.pc = "update" /\ begun.package = None /\ begun.packages = {}
      BY DEF Idle
    <3>2. Set("worker", begun)
      BY <2>4 DEF StartMaintenance
    <3> HIDE DEF begun
    <3> QED BY <1>1, <1>3, <1>8, <2>1, <3>1, <3>2, HandEmpty DEF Watched
  <2>5. CASE UpdateAllSucceeds \/ UpdateAllFails
    BY <1>1, <1>3, <1>8, <2>1, <2>5, HandMoves DEF Watched, UpdateAllSucceeds, UpdateAllFails, UpdateAll
  <2>6. CASE SelectPackages
    <3> DEFINE listed == [thread["worker"] EXCEPT !.pc = "packages", !.packages = packages]
    <3>1. Set("worker", listed) /\ thread["worker"].pc = "select"
      BY <2>6 DEF SelectPackages
    <3>2. /\ listed.pc = "packages" /\ listed.package = thread["worker"].package
          /\ listed.packages = packages
      BY <2>2 DEF ThreadStates
    <3> HIDE DEF listed
    <3> QED BY <1>1, <1>3, <1>8, <2>1, <2>3, <3>1, <3>2, HandEmpty DEF Watched
  <2> QED BY <1>8, <2>4, <2>5, <2>6 DEF Watched, Maintenance
<1>9. CASE \E t \in Threads : Watched(Work(t))
  <2>1. PICK t \in Threads : Watched(Work(t))
    BY <1>9
  <2>2. CASE FinishPackages(t)
    <3> DEFINE next == IF thread[t].job = "maintenance"
                       THEN [Idle EXCEPT !.job = "compile", !.pc = "packages", !.packages = packages]
                       ELSE Idle
    <3>1. /\ next.pc \in {"idle", "packages"} /\ next.package = None
          /\ next.job # "maintenance" /\ next.packages \subseteq packages
      BY <1>2
    <3>2. Set(t, next) /\ UNCHANGED packages
      BY <2>2 DEF FinishPackages, database, tables
    <3> HIDE DEF next
    <3> QED BY <1>3, <2>1, <3>1, <3>2, HandEmpty DEF Watched
  <2> QED BY <2>1, <2>2, CleanUpHand, CompileStepHand DEF Watched, Work
<1>10. CASE \E p \in Packages, v \in Versions \union {None} : ChangePackage(p, v)
  BY <1>10, HandRests DEF ChangePackage, database, tables
<1>11. CASE Crash \/ CrashWithoutMap \/ Upgrade
  <2>1. thread' = [t \in Threads |-> Idle] /\ UNCHANGED overlapped
    BY <1>11 DEF Crash, CrashWithoutMap, Upgrade, Die
  <2>2. \A t \in Threads : thread'[t] = Idle /\ InHand(t)' = {}
    BY <1>2, <2>1 DEF InHand
  <2> QED BY <1>1, <1>2, <1>3, <2>2 DEF PackagesInHand
<1>12. CASE UNCHANGED vars
  BY <1>12, HandRests DEF vars, database, tables
<1> QED BY <1>4, <1>5, <1>6, <1>7, <1>8, <1>9, <1>10, <1>11, <1>12 DEF Next, ThreadStep

-----------------------------------------------------------------------------
(* Compiled traces: facts about components *)

\* Two threads do not work on one component without being noticed.
LEMMA Alone ==
    ASSUME Typed, PackagesInHand, NEW t \in Threads, NEW u \in Threads, t # u,
           thread[t].pc \in OnPackage, thread[u].pc \in OnPackage, Current(t) = Current(u)
    PROVE  Overlapped(Current(t))
<1>1. thread[t].package \in PackageRows /\ thread[u].package \in PackageRows
  BY DEF Typed, TypedThreads, TypedThread
<1>2. None \notin PackageRows
  BY StoreAssumption DEF PackageRows
<1> DEFINE hand == [package |-> Current(t).package, version |-> Current(t).version]
<1>3. /\ InHand(t) = {hand}
      /\ hand = [package |-> Current(u).package, version |-> Current(u).version]
  BY <1>1, <1>2 DEF InHand, Current
<1>4. InHand(u) = {hand}
  BY <1>1, <1>2, <1>3 DEF InHand, Current
<1>5. hand \in InHand("worker") /\ hand \in InHand("binder")
  BY <1>3, <1>4 DEF Threads
<1> QED BY <1>5 DEF PackagesInHand, Overlapped

\* What has been broken stays broken.
LEMMA CleanWas ==
    ASSUME overlapped \subseteq overlapped', interrupted \subseteq interrupted', NEW vcn
    PROVE  /\ Overlapped(vcn) => Overlapped(vcn)'
           /\ Clean(vcn)' => Clean(vcn)
BY DEF Clean, Overlapped

\* An activity row is joined with one component.
LEMMA OneComponent ==
    ASSUME TypedTables, NEW id, NEW v \in Components, NEW w \in Components,
           Joined(id, v), Joined(id, w)
    PROVE  v = w
<1>1. PICK a \in activities : /\ a.id = id /\ a.name = v.activity
                              /\ \E p \in packages : p.name = v.package /\ p.version = v.version /\ a.package_id = p.id
  BY DEF Joined, Ids, RowsOf, PackagesNamedVersion, PackagesNamed
<1>2. PICK b \in activities : /\ b.id = id /\ b.name = w.activity
                              /\ \E p \in packages : p.name = w.package /\ p.version = w.version /\ b.package_id = p.id
  BY DEF Joined, Ids, RowsOf, PackagesNamedVersion, PackagesNamed
<1>3. a = b
  BY <1>1, <1>2 DEF TypedTables, Keyed
<1>4. PICK p \in packages : p.name = v.package /\ p.version = v.version /\ a.package_id = p.id
  BY <1>1
<1>5. PICK q \in packages : q.name = w.package /\ q.version = w.version /\ b.package_id = q.id
  BY <1>2
<1>6. p = q
  BY <1>3, <1>4, <1>5 DEF TypedTables, Keyed
<1> QED BY <1>1, <1>2, <1>3, <1>4, <1>5, <1>6 DEF Components

\* Rows that stay are joined as they were.
LEMMA JoinedStays ==
    ASSUME packages \subseteq packages', activities \subseteq activities', NEW id, NEW vcn,
           Joined(id, vcn)
    PROVE  Joined(id, vcn)'
BY DEF Joined, Ids, RowsOf, PackagesNamedVersion, PackagesNamed

\* A thread compiles an activity of the package in its hand.
LEMMA SelectedIsJoined ==
    ASSUME Typed, PackagesInHand, NEW t \in Threads, thread[t].pc = "traces",
           NEW row \in ActivityNamed(CurrentActivity(t).name, thread[t].package.id)
    PROVE  Overlapped(Current(t)) \/ Joined(row.id, Current(t))
<1>1. row \in activities /\ row.name = Current(t).activity /\ row.package_id = thread[t].package.id
  BY DEF ActivityNamed, ActivitiesOf, Current
<1>2. thread[t].package \in packages \/ InHand(t) \subseteq overlapped
  BY DEF PackagesInHand, OnCompilation
<1>3. CASE thread[t].package \in packages
  BY <1>1, <1>3 DEF Joined, Ids, RowsOf, PackagesNamedVersion, PackagesNamed, Current
<1>4. CASE InHand(t) \subseteq overlapped
  <2>1. thread[t].package \in PackageRows
    BY DEF Typed, TypedThreads, TypedThread, OnPackage, OnActivity
  <2>2. None \notin PackageRows
    BY StoreAssumption DEF PackageRows
  <2>3. [package |-> Current(t).package, version |-> Current(t).version] \in InHand(t)
    BY <2>1, <2>2 DEF InHand, Current
  <2> QED BY <1>4, <2>3 DEF Overlapped
<1> QED BY <1>2, <1>3, <1>4

\* Components are what prefetch rows, and threads at an activity, are about.
LEMMA ComponentsTyped ==
    ASSUME Typed
    PROVE  /\ \A f \in prefetch_files : f.file_path \in Components /\ f.id \in Nat \ {0}
           /\ \A t \in Threads : thread[t].pc \in OnActivity => Current(t) \in Components
           /\ \A t \in Threads : thread[t].pc \in CleaningPrefetch =>
                 /\ CurrentRow(t) \in thread[t].rows
                 /\ \A g \in thread[t].rows : g.file_path \in Components
<1>1. \A f \in prefetch_files : f.file_path \in Components /\ f.id \in Nat \ {0}
  BY DEF Typed, TypedTables, PrefetchRows
<1>2. \A t \in Threads : TypedThread(thread[t])
  BY DEF Typed, TypedThreads
<1>3. \A t \in Threads : thread[t].pc \in CleaningPrefetch => thread[t].rows \subseteq PrefetchRows /\ thread[t].rows # {}
  BY <1>2 DEF TypedThread, RowsAt, CleaningRaw, CleaningPrefetch
<1>4. \A t \in Threads : thread[t].pc \in CleaningPrefetch =>
                 /\ CurrentRow(t) \in thread[t].rows
                 /\ \A g \in thread[t].rows : g.file_path \in Components
  BY <1>2, <1>3, InHandTyped DEF PrefetchRows
<1> QED BY <1>1, <1>2, <1>4, InHandTyped

-----------------------------------------------------------------------------
(* Compiled traces: rows are joined *)

\* Rows and threads that stay; a thread may have left its compilation or clean-up.
LEMMA RowsRest ==
    ASSUME RowsJoined, packages \subseteq packages', activities \subseteq activities',
           prefetch_files' \subseteq prefetch_files,
           overlapped \subseteq overlapped', interrupted \subseteq interrupted',
           \A t \in Threads : thread'[t].pc \in Compiling \union CleaningPrefetch =>
              /\ thread[t].pc \in Compiling <=> thread'[t].pc \in Compiling
              /\ thread[t].pc \in CleaningPrefetch <=> thread'[t].pc \in CleaningPrefetch
              /\ thread'[t].rows = thread[t].rows /\ Current(t)' = Current(t)
    PROVE  RowsJoined'
<1>1. \A vcn : (Overlapped(vcn) => Overlapped(vcn)') /\ (Clean(vcn)' => Clean(vcn))
  BY CleanWas
<1>2. \A id, vcn : Joined(id, vcn) => Joined(id, vcn)'
  BY JoinedStays
<1>3. \A f \in prefetch_files' : ~Overlapped(f.file_path)' => Joined(f.activity_id, f.file_path)'
  BY <1>1, <1>2 DEF RowsJoined
<1>4. \A f, g \in prefetch_files' : f.file_path = g.file_path /\ Clean(f.file_path)' => f = g
  BY <1>1 DEF RowsJoined
<1>5. ASSUME NEW t \in Threads, thread'[t].pc \in Compiling, NEW row \in thread'[t].rows
      PROVE  Overlapped(Current(t))' \/ Joined(row.id, Current(t))'
  <2> DEFINE vcn == Current(t)
  <2>1. thread[t].pc \in Compiling /\ row \in thread[t].rows /\ vcn' = vcn
    BY <1>5
  <2>2. Overlapped(vcn) \/ Joined(row.id, vcn)
    BY <2>1 DEF RowsJoined
  <2>3. Overlapped(Current(t))' <=> [package |-> vcn'.package, version |-> vcn'.version] \in overlapped'
    BY DEF Overlapped
  <2> QED BY <1>1, <1>2, <2>1, <2>2 DEF Overlapped, Joined, Ids, RowsOf, PackagesNamedVersion, PackagesNamed
<1>6. ASSUME NEW t \in Threads, thread'[t].pc \in CleaningPrefetch, NEW g \in thread'[t].rows
      PROVE  /\ Overlapped(g.file_path)' \/ g.file_path = Current(t)'
             /\ \A f \in prefetch_files' :
                   f.file_path = g.file_path /\ Clean(f.file_path)' => f = g
  <2>1. thread[t].pc \in CleaningPrefetch /\ g \in thread[t].rows /\ Current(t)' = Current(t)
    BY <1>6
  <2> QED BY <1>1, <2>1 DEF RowsJoined
<1> QED BY <1>3, <1>4, <1>5, <1>6 DEF RowsJoined

LEMMA FilesRest ==
    ASSUME Typed, RowsHaveFiles, prefetch_files' \subseteq prefetch_files,
           overlapped \subseteq overlapped', interrupted \subseteq interrupted',
           \A vcn : FileOf(vcn) # {} => FileOf(vcn)' # {},
           \A t \in Threads : thread'[t].pc \in Uncompiled =>
              thread[t].pc \in Uncompiled /\ Current(t)' = Current(t),
           \A t \in Threads :
              thread'[t].pc \in {"writing", "insert"} => thread[t].pc \in {"writing", "insert"},
           \A t \in Threads : thread[t].pc = "prefetch_removed" =>
              \/ thread'[t].pc = "prefetch_removed" /\ CurrentRow(t)' = CurrentRow(t)
              \/ CurrentRow(t) \notin prefetch_files'
              \/ CurrentRow(t).file_path \in interrupted'
    PROVE  RowsHaveFiles'
<1>1. \A vcn : Clean(vcn)' => Clean(vcn)
  BY CleanWas
<1>2. \A vcn : Clean(vcn)' => vcn \notin interrupted'
  BY DEF Clean
<1>3. ASSUME NEW f \in prefetch_files', Clean(f.file_path)'
      PROVE  \/ FileOf(f.file_path)' # {}
             \/ \E t \in Threads : thread'[t].pc = "prefetch_removed" /\ f = CurrentRow(t)'
  <2>1. \/ FileOf(f.file_path) # {}
        \/ \E t \in Threads : thread[t].pc = "prefetch_removed" /\ f = CurrentRow(t)
    BY <1>1, <1>3 DEF RowsHaveFiles
  <2>2. CASE FileOf(f.file_path) # {}
    BY <2>2
  <2>3. ASSUME NEW t \in Threads, thread[t].pc = "prefetch_removed", f = CurrentRow(t)
        PROVE  thread'[t].pc = "prefetch_removed" /\ f = CurrentRow(t)'
    BY <1>2, <1>3, <2>3
  <2> QED BY <2>1, <2>2, <2>3
<1>4. ASSUME NEW t \in Threads, thread'[t].pc \in Uncompiled, Clean(Current(t))'
      PROVE  \A f \in prefetch_files' : f.file_path # Current(t)'
  <2>1. thread[t].pc \in Uncompiled /\ Current(t)' = Current(t)
    BY <1>4
  <2>2. Clean(Current(t))
    BY <1>1, <1>4, <2>1 DEF Clean, Overlapped
  <2> QED BY <2>1, <2>2 DEF RowsHaveFiles
<1>5. ASSUME NEW t \in Threads, thread'[t].pc \in {"writing", "insert"}, Clean(Current(t))'
      PROVE  FileOf(Current(t))' # {}
  <2>1. thread[t].pc \in {"writing", "insert"} /\ Current(t)' = Current(t)
    BY <1>5 DEF Uncompiled, Compiling
  <2>2. Clean(Current(t))
    BY <1>1, <1>5, <2>1 DEF Clean, Overlapped
  <2>3. FileOf(Current(t)) # {}
    BY <2>1, <2>2 DEF RowsHaveFiles
  <2> DEFINE vcn == Current(t)
  <2>4. {f \in compiled' : f.component = vcn} # {}
    BY <2>3 DEF FileOf
  <2> QED BY <2>1, <2>4 DEF FileOf
<1> QED BY <1>3, <1>4, <1>5 DEF RowsHaveFiles

LEMMA WholeRests ==
    ASSUME Typed, FilesWhole, prefetch_files' \subseteq prefetch_files, compiled' \subseteq compiled,
           overlapped \subseteq overlapped', interrupted \subseteq interrupted',
           \A t \in Threads :
              thread[t].pc = "writing" => thread'[t].pc = "writing" /\ Current(t)' = Current(t),
           \A t \in Threads : thread'[t].pc \in {"writing", "insert"} =>
              thread'[t].pc = thread[t].pc /\ Current(t)' = Current(t)
    PROVE  FilesWhole'
<1>1. \A vcn : Clean(vcn)' => Clean(vcn)
  BY CleanWas
<1>2. \A file \in compiled : file.writers \subseteq Threads
  BY DEF Typed, TypedWorld, Outputs
<1>3. \A file \in compiled' : \A t \in file.writers :
         thread'[t].pc = "writing" /\ Current(t)' = file.component
  BY <1>2 DEF FilesWhole
<1>4. ASSUME NEW t \in Threads, thread'[t].pc \in {"writing", "insert"}, Clean(Current(t))',
             NEW file \in FileOf(Current(t))'
      PROVE  /\ thread'[t].pc = "writing" => t \in file.writers
             /\ thread'[t].pc = "insert" => file.whole /\ file.writers = {}
  <2>1. thread[t].pc = thread'[t].pc /\ Current(t)' = Current(t)
    BY <1>4
  <2>2. Clean(Current(t))
    BY <1>1, <1>4, <2>1 DEF Clean, Overlapped
  <2>3. file \in FileOf(Current(t))
    BY <2>1 DEF FileOf
  <2> QED BY <1>4, <2>1, <2>2, <2>3 DEF FilesWhole
<1>5. \A f \in prefetch_files', file \in compiled' :
         f.file_path = file.component /\ Clean(file.component)' => file.whole /\ file.writers = {}
  BY <1>1 DEF FilesWhole
<1> QED BY <1>3, <1>4, <1>5 DEF FilesWhole

\* What a launch relies on when it asks for a compiled trace.
Compilations == RowsJoined /\ RowsHaveFiles /\ FilesWhole

\* A step of a thread that is not at a compiled trace.
LEMMA CompiledLooks ==
    ASSUME Typed, Compilations, NEW t \in Threads, NEW state, Set(t, state),
           thread[t].pc \notin {"writing", "prefetch_removed"},
           state.pc \notin Uncompiled \union CleaningPrefetch,
           UNCHANGED <<packages, activities, prefetch_files, compiled, interrupted>>,
           overlapped \subseteq overlapped'
    PROVE  Compilations'
<1> USE DEF Uncompiled, Compiling, CleaningPrefetch
<1>1. /\ thread'[t] = state
      /\ \A u \in Threads : u # t =>
            thread'[u] = thread[u] /\ Current(u)' = Current(u) /\ CurrentRow(u)' = CurrentRow(u)
  BY OthersRest DEF Typed
<1>2. RowsJoined'
  BY <1>1, RowsRest DEF Compilations
<1>3. \A vcn : FileOf(vcn)' = FileOf(vcn)
  BY DEF FileOf
<1>4. RowsHaveFiles'
  BY <1>1, <1>3, FilesRest DEF Compilations
<1>5. FilesWhole'
  BY <1>1, WholeRests DEF Compilations
<1> QED BY <1>2, <1>4, <1>5 DEF Compilations

LEMMA CompiledMoves ==
    ASSUME Typed, Compilations, NEW t \in Threads, NEW pc, Set(t, [thread[t] EXCEPT !.pc = pc]),
           thread[t].pc \notin {"writing", "prefetch_removed"},
           pc \notin Uncompiled \union CleaningPrefetch,
           UNCHANGED <<packages, activities, prefetch_files, compiled, interrupted>>,
           overlapped \subseteq overlapped'
    PROVE  Compilations'
<1> DEFINE state == [thread[t] EXCEPT !.pc = pc]
<1>1. thread[t] \in ThreadStates /\ Set(t, state)
  BY DEF Typed, TypedThreads, TypedThread
<1>2. state.pc = pc
  BY <1>1 DEF ThreadStates
<1> HIDE DEF state
<1> QED BY <1>1, <1>2, CompiledLooks

LEMMA CompiledSelects ==
    ASSUME Typed, Compilations, NEW t \in Threads, NEW pc, NEW rows,
           Set(t, [thread[t] EXCEPT !.pc = pc, !.rows = rows]),
           thread[t].pc \notin {"writing", "prefetch_removed"},
           pc \notin Uncompiled \union CleaningPrefetch,
           UNCHANGED <<packages, activities, prefetch_files, compiled, interrupted>>,
           overlapped \subseteq overlapped'
    PROVE  Compilations'
<1> DEFINE state == [thread[t] EXCEPT !.pc = pc, !.rows = rows]
<1>1. thread[t] \in ThreadStates /\ Set(t, state)
  BY DEF Typed, TypedThreads, TypedThread
<1>2. state.pc = pc
  BY <1>1 DEF ThreadStates
<1> HIDE DEF state
<1> QED BY <1>1, <1>2, CompiledLooks

LEMMA CompiledTakes ==
    ASSUME Typed, Compilations, NEW t \in Threads, NEW pc, NEW package, NEW rows,
           Set(t, [thread[t] EXCEPT !.pc = pc, !.package = package, !.activities = rows]),
           thread[t].pc \notin {"writing", "prefetch_removed"},
           pc \notin Uncompiled \union CleaningPrefetch,
           UNCHANGED <<packages, activities, prefetch_files, compiled, interrupted>>,
           overlapped \subseteq overlapped'
    PROVE  Compilations'
<1> DEFINE state == [thread[t] EXCEPT !.pc = pc, !.package = package, !.activities = rows]
<1>1. thread[t] \in ThreadStates /\ Set(t, state)
  BY DEF Typed, TypedThreads, TypedThread
<1>2. state.pc = pc
  BY <1>1 DEF ThreadStates
<1> HIDE DEF state
<1> QED BY <1>1, <1>2, CompiledLooks

LEMMA CompiledDrops ==
    ASSUME Typed, Compilations, NEW t \in Threads,
           Set(t, DropPackage(t)) \/ \E pc \in {"activities", "compile"} : Set(t, DropActivity(t, pc)),
           thread[t].pc \notin {"writing", "prefetch_removed"},
           UNCHANGED <<packages, activities, prefetch_files, compiled, interrupted>>,
           overlapped \subseteq overlapped'
    PROVE  Compilations'
<1>1. thread[t] \in ThreadStates
  BY DEF Typed, TypedThreads, TypedThread
<1>2. /\ DropPackage(t).pc = "packages"
      /\ \A pc \in {"activities", "compile"} : DropActivity(t, pc).pc = pc
  BY <1>1, DropPackageKeeps, DropActivityKeeps
<1>3. {"packages", "activities", "compile"} \intersect (Uncompiled \union CleaningPrefetch) = {}
  BY DEF Uncompiled, Compiling, CleaningPrefetch
<1> QED BY <1>2, <1>3, CompiledLooks

-----------------------------------------------------------------------------
(* Compiled traces: clean-up *)

\* The foreign keys take the rows of a package that is deleted with it.
LEMMA FinishPackageCompiled ==
    ASSUME Typed, PackagesInHand, Compilations, CleanUpCascades, NEW t \in Threads,
           FinishPackage(t), overlapped \subseteq overlapped'
    PROVE  Compilations'
<1>1. thread[t].pc = "activities" /\ Set(t, DropPackage(t)) /\ UNCHANGED <<compiled, interrupted>>
  BY DEF FinishPackage, disk
<1>2. CASE UNCHANGED database
  BY <1>1, <1>2, CompiledDrops DEF database, tables
<1>3. CASE thread[t].job = "maintenance" /\ DeletePackage(thread[t].package.id)
  <2> DEFINE gone == thread[t].package
  <2>1. foreign_keys
    BY <1>1, <1>3 DEF CleanUpCascades
  <2>2. /\ packages' = {p \in packages : p.id # gone.id}
        /\ activities' = {a \in activities : a.package_id # gone.id}
        /\ prefetch_files' = {f \in prefetch_files :
              \A a \in activities : a.id = f.activity_id => a.package_id # gone.id}
    BY <1>3, <2>1 DEF DeletePackage, Delete, CascadedActivities, ActivitiesOf, Ids
  <2>3. DropPackage(t).pc = "packages"
    BY DropPackageKeeps DEF Typed, TypedThreads, TypedThread
  <2>4. /\ thread'[t].pc = "packages"
        /\ \A u \in Threads : u # t =>
              thread'[u] = thread[u] /\ Current(u)' = Current(u) /\ CurrentRow(u)' = CurrentRow(u)
    BY <1>1, <2>3, OthersRest DEF Typed
  <2>5. \A vcn : (Overlapped(vcn) => Overlapped(vcn)') /\ (Clean(vcn)' => Clean(vcn))
    BY <1>1, CleanWas
  <2>6. \A f \in prefetch_files' : ~Overlapped(f.file_path)' => Joined(f.activity_id, f.file_path)'
    <3> SUFFICES ASSUME NEW f \in prefetch_files', ~Overlapped(f.file_path)'
                 PROVE  Joined(f.activity_id, f.file_path)'
      OBVIOUS
    <3>1. Joined(f.activity_id, f.file_path) /\ f \in prefetch_files
      BY <2>2, <2>5 DEF Compilations, RowsJoined
    <3>2. PICK a \in activities, p \in packages :
             /\ a.id = f.activity_id /\ a.name = f.file_path.activity /\ a.package_id = p.id
             /\ p.name = f.file_path.package /\ p.version = f.file_path.version
      BY <3>1 DEF Joined, Ids, RowsOf, PackagesNamedVersion, PackagesNamed
    <3>3. a \in activities' /\ p \in packages'
      BY <2>2, <3>2
    <3> QED BY <3>2, <3>3 DEF Joined, Ids, RowsOf, PackagesNamedVersion, PackagesNamed
  <2>7. ASSUME NEW u \in Threads, thread'[u].pc \in Compiling, NEW row \in thread'[u].rows
        PROVE  Overlapped(Current(u))' \/ Joined(row.id, Current(u))'
    <3>1. u # t /\ thread'[u] = thread[u] /\ Current(u)' = Current(u)
      BY <2>4, <2>7 DEF Compiling
    <3> DEFINE vcn == Current(u)
    <3>2. Overlapped(vcn) \/ Joined(row.id, vcn)
      BY <2>7, <3>1 DEF Compilations, RowsJoined
    <3>3. CASE Overlapped(vcn)
      BY <2>5, <3>1, <3>3 DEF Overlapped
    <3>4. CASE Joined(row.id, vcn) /\ ~Overlapped(vcn)
      <4>1. PICK a \in activities, p \in packages :
               /\ a.id = row.id /\ a.name = vcn.activity /\ a.package_id = p.id
               /\ p.name = vcn.package /\ p.version = vcn.version
        BY <3>4 DEF Joined, Ids, RowsOf, PackagesNamedVersion, PackagesNamed
      <4>2. p.id # gone.id
        <5> SUFFICES ASSUME p.id = gone.id PROVE FALSE
          OBVIOUS
        <5>1. t = "worker" /\ gone \in PackageRows /\ None \notin PackageRows
          BY <1>1, <1>3, StoreAssumption DEF PackagesInHand, Threads, Typed, TypedThreads,
             TypedThread, OnPackage, PackageRows
        <5>2. gone = CurrentPackage("worker") /\ thread["worker"].packages # {}
          BY <1>3, <5>1 DEF PackagesInHand
        <5>3. gone \in packages
          BY <5>1, <5>2, InHandTyped DEF PackagesInHand, Typed, TypedThreads
        <5>4. gone = p
          BY <4>1, <5>3 DEF Typed, TypedTables, Keyed
        <5>5. thread[u].package \in PackageRows
          BY <2>7, <3>1 DEF Typed, TypedThreads, TypedThread, OnPackage, OnActivity
        <5> DEFINE hand == [package |-> vcn.package, version |-> vcn.version]
        <5>6. InHand(u) = {hand}
          BY <5>1, <5>5 DEF InHand, Current
        <5>7. InHand(t) = {hand}
          BY <4>1, <5>1, <5>4 DEF InHand
        <5>8. hand \in InHand("worker") /\ hand \in InHand("binder")
          BY <3>1, <5>6, <5>7 DEF Threads
        <5> QED BY <3>4, <5>8 DEF PackagesInHand, Overlapped
      <4>3. a \in activities' /\ p \in packages'
        BY <2>2, <4>1, <4>2
      <4>4. vcn' = vcn
        BY <3>1
      <4> HIDE DEF vcn
      <4>5. \E b \in activities' : /\ b.id = row.id /\ b.name = vcn'.activity
               /\ \E q \in packages' : b.package_id = q.id /\ q.name = vcn'.package /\ q.version = vcn'.version
        BY <4>1, <4>3, <4>4
      <4> QED BY <4>5 DEF vcn, Joined, Ids, RowsOf, PackagesNamedVersion, PackagesNamed
    <3> QED BY <3>2, <3>3, <3>4
  <2>8. ASSUME NEW u \in Threads, thread'[u].pc \in CleaningPrefetch, NEW g \in thread'[u].rows
        PROVE  /\ Overlapped(g.file_path)' \/ g.file_path = Current(u)'
               /\ \A f \in prefetch_files' :
                     f.file_path = g.file_path /\ Clean(f.file_path)' => f = g
    <3>1. u # t /\ thread'[u] = thread[u] /\ Current(u)' = Current(u)
      BY <2>4, <2>8 DEF CleaningPrefetch
    <3> QED BY <2>2, <2>5, <2>8, <3>1 DEF Compilations, RowsJoined
  <2>9. \A f, g \in prefetch_files' : f.file_path = g.file_path /\ Clean(f.file_path)' => f = g
    BY <2>2, <2>5 DEF Compilations, RowsJoined
  <2>10. RowsJoined'
    BY <2>6, <2>7, <2>8, <2>9 DEF RowsJoined
  <2>11. \A vcn : FileOf(vcn)' = FileOf(vcn)
    BY <1>1 DEF FileOf
  <2>12. prefetch_files' \subseteq prefetch_files
    BY <2>2
  <2>13. RowsHaveFiles'
    BY <1>1, <2>4, <2>11, <2>12, FilesRest DEF Compilations, Uncompiled, Compiling
  <2>14. FilesWhole'
    BY <1>1, <2>4, <2>12, WholeRests DEF Compilations
  <2> QED BY <2>10, <2>13, <2>14 DEF Compilations
<1> QED BY <1>2, <1>3 DEF FinishPackage

\* The row whose trace is removed is of the component in hand, or both threads are at it.
LEMMA SelectPrefetchFileCompiled ==
    ASSUME Typed, Compilations, NEW t \in Threads, SelectPrefetchFile(t),
           overlapped \subseteq overlapped'
    PROVE  Compilations'
<1>1. /\ thread[t].pc = "raw_traces" /\ thread[t] \in ThreadStates /\ TypedThread(thread[t])
      /\ UNCHANGED <<packages, activities, prefetch_files, compiled, interrupted>>
  BY DEF SelectPrefetchFile, Typed, TypedThreads, TypedThread, database, tables, disk, history, ghosts
<1>2. PICK found \in LimitOne(PrefetchFilesOf(Current(t))) :
         Set(t, IF found = {} THEN DropActivity(t, "activities")
                ELSE [thread[t] EXCEPT !.pc = "prefetch_file", !.rows = found])
  BY DEF SelectPrefetchFile
<1>3. CASE Set(t, DropActivity(t, "activities"))
  BY <1>1, <1>3, CompiledDrops
<1>4. CASE Set(t, [thread[t] EXCEPT !.pc = "prefetch_file", !.rows = found])
  <2> DEFINE state == [thread[t] EXCEPT !.pc = "prefetch_file", !.rows = found]
  <2>1. /\ state.pc = "prefetch_file" /\ state.rows = found
        /\ state.package = thread[t].package /\ state.activities = thread[t].activities
    BY <1>1 DEF ThreadStates
  <2>2. Set(t, state)
    BY <1>4
  <2> HIDE DEF state
  <2>3. /\ thread'[t] = state /\ Current(t)' = Current(t)
        /\ \A u \in Threads : u # t =>
              thread'[u] = thread[u] /\ Current(u)' = Current(u) /\ CurrentRow(u)' = CurrentRow(u)
    BY <2>1, <2>2, OthersRest DEF Typed
  <2>4. found \subseteq PrefetchFilesOf(Current(t))
    BY DEF LimitOne
  <2>5. Current(t) \in Components
    BY <1>1, InHandTyped DEF OnActivity, CleaningRaw
  <2>6. \A g \in found : g \in prefetch_files /\ Joined(g.activity_id, Current(t))
    BY <2>4 DEF PrefetchFilesOf, Joined
  <2>7. \A g \in found : Overlapped(g.file_path) \/ g.file_path = Current(t)
    <3> TAKE g \in found
    <3>1. g \in prefetch_files /\ g.file_path \in Components
      BY <2>6, ComponentsTyped
    <3>2. Overlapped(g.file_path) \/ Joined(g.activity_id, g.file_path)
      BY <3>1 DEF Compilations, RowsJoined
    <3> QED BY <2>5, <2>6, <3>1, <3>2, OneComponent DEF Typed
  <2>8. \A vcn : (Overlapped(vcn) => Overlapped(vcn)') /\ (Clean(vcn)' => Clean(vcn))
    BY <1>1, CleanWas
  <2>9. ASSUME NEW u \in Threads, thread'[u].pc \in CleaningPrefetch, NEW g \in thread'[u].rows
        PROVE  /\ Overlapped(g.file_path)' \/ g.file_path = Current(u)'
               /\ \A f \in prefetch_files' :
                     f.file_path = g.file_path /\ Clean(f.file_path)' => f = g
    <3>1. CASE u = t
      BY <1>1, <2>1, <2>3, <2>6, <2>7, <2>8, <2>9, <3>1 DEF Compilations, RowsJoined
    <3>2. CASE u # t
      BY <1>1, <2>3, <2>8, <2>9, <3>2 DEF Compilations, RowsJoined
    <3> QED BY <3>1, <3>2
  <2>10. ASSUME NEW u \in Threads, thread'[u].pc \in Compiling, NEW row \in thread'[u].rows
         PROVE  Overlapped(Current(u))' \/ Joined(row.id, Current(u))'
    <3>1. thread'[u] = thread[u] /\ Current(u)' = Current(u)
      BY <2>1, <2>3, <2>10 DEF Compiling
    <3>2. Overlapped(Current(u)) \/ Joined(row.id, Current(u))
      BY <2>10, <3>1 DEF Compilations, RowsJoined
    <3> QED BY <1>1, <3>1, <3>2 DEF Overlapped, Joined, Ids, RowsOf, PackagesNamedVersion, PackagesNamed
  <2>11. \A f \in prefetch_files' : ~Overlapped(f.file_path)' => Joined(f.activity_id, f.file_path)'
    BY <1>1, <2>8 DEF Compilations, RowsJoined, Joined, Ids, RowsOf, PackagesNamedVersion, PackagesNamed
  <2>12. \A f, g \in prefetch_files' : f.file_path = g.file_path /\ Clean(f.file_path)' => f = g
    BY <1>1, <2>8 DEF Compilations, RowsJoined
  <2>13. RowsJoined'
    BY <2>9, <2>10, <2>11, <2>12 DEF RowsJoined
  <2>14. \A vcn : FileOf(vcn)' = FileOf(vcn)
    BY <1>1 DEF FileOf
  <2>15. RowsHaveFiles'
    BY <1>1, <2>1, <2>3, <2>14, FilesRest DEF Compilations, Uncompiled, Compiling
  <2>16. FilesWhole'
    BY <1>1, <2>1, <2>3, WholeRests DEF Compilations
  <2> QED BY <2>13, <2>15, <2>16 DEF Compilations
<1> QED BY <1>2, <1>3, <1>4

\* The file goes first: its row is in hand until it goes too.
LEMMA RemovePrefetchFileCompiled ==
    ASSUME Typed, PackagesInHand, Compilations, NEW t \in Threads, RemovePrefetchFile(t),
           overlapped \subseteq overlapped'
    PROVE  Compilations'
<1> DEFINE state == [thread[t] EXCEPT !.pc = "prefetch_removed"]
           gone == CurrentRow(t)
<1>1. /\ thread[t].pc = "prefetch_file" /\ thread[t] \in ThreadStates /\ Set(t, state)
      /\ compiled' = {f \in compiled : f.component # gone.file_path}
      /\ UNCHANGED <<packages, activities, prefetch_files, interrupted>>
  BY DEF RemovePrefetchFile, Typed, TypedThreads, TypedThread, database, tables, history, ghosts
<1>2. /\ state.pc = "prefetch_removed" /\ state.rows = thread[t].rows
      /\ state.package = thread[t].package /\ state.activities = thread[t].activities
  BY <1>1, MovingKeeps DEF SameHand
<1> HIDE DEF state
<1>3. /\ thread'[t] = state /\ Current(t)' = Current(t) /\ CurrentRow(t)' = gone
      /\ \A u \in Threads : u # t =>
            thread'[u] = thread[u] /\ Current(u)' = Current(u) /\ CurrentRow(u)' = CurrentRow(u)
  BY <1>1, <1>2, OthersRest DEF Typed
<1>4. RowsJoined'
  BY <1>1, <1>2, <1>3, RowsRest DEF Compilations, Compiling, CleaningPrefetch
<1>5. FilesWhole'
  BY <1>1, <1>2, <1>3, WholeRests DEF Compilations
<1>6. gone \in thread[t].rows
  BY <1>1, ComponentsTyped DEF CleaningPrefetch
<1> HIDE DEF gone
<1>7. /\ Overlapped(gone.file_path) \/ gone.file_path = Current(t)
      /\ \A f \in prefetch_files : f.file_path = gone.file_path /\ Clean(f.file_path) => f = gone
  BY <1>1, <1>6 DEF Compilations, RowsJoined, CleaningPrefetch
<1>8. \A vcn : (Overlapped(vcn) => Overlapped(vcn)') /\ (Clean(vcn)' => Clean(vcn))
  BY <1>1, CleanWas
<1>9. \A vcn : vcn # gone.file_path /\ FileOf(vcn) # {} => FileOf(vcn)' # {}
  BY <1>1 DEF FileOf
<1>10. ASSUME NEW f \in prefetch_files', Clean(f.file_path)'
       PROVE  \/ FileOf(f.file_path)' # {}
              \/ \E u \in Threads : thread'[u].pc = "prefetch_removed" /\ f = CurrentRow(u)'
  <2>1. CASE f.file_path = gone.file_path
    BY <1>1, <1>2, <1>3, <1>7, <1>8, <1>10, <2>1
  <2>2. CASE f.file_path # gone.file_path
    <3>1. \/ FileOf(f.file_path) # {}
          \/ \E u \in Threads : thread[u].pc = "prefetch_removed" /\ f = CurrentRow(u)
      BY <1>1, <1>8, <1>10 DEF Compilations, RowsHaveFiles
    <3> QED BY <1>1, <1>3, <1>9, <2>2, <3>1
  <2> QED BY <2>1, <2>2
<1>11. ASSUME NEW u \in Threads, thread'[u].pc \in Uncompiled, Clean(Current(u))'
       PROVE  \A f \in prefetch_files' : f.file_path # Current(u)'
  <2>1. thread'[u] = thread[u] /\ Current(u)' = Current(u)
    BY <1>2, <1>3, <1>11 DEF Uncompiled, Compiling
  <2>2. Clean(Current(u))
    BY <1>8, <1>11, <2>1 DEF Clean, Overlapped
  <2> QED BY <1>1, <1>11, <2>1, <2>2 DEF Compilations, RowsHaveFiles
<1>12. ASSUME NEW u \in Threads, thread'[u].pc \in {"writing", "insert"}, Clean(Current(u))'
       PROVE  FileOf(Current(u))' # {}
  <2>1. u # t /\ thread'[u] = thread[u] /\ Current(u)' = Current(u)
    BY <1>2, <1>3, <1>12
  <2>2. Clean(Current(u))
    BY <1>8, <1>12, <2>1 DEF Clean, Overlapped
  <2>3. FileOf(Current(u)) # {}
    BY <1>12, <2>1, <2>2 DEF Compilations, RowsHaveFiles
  <2>4. Current(u) # Current(t)
    <3>1. thread[t].pc \in OnPackage /\ thread[u].pc \in OnPackage
      BY <1>1, <1>12, <2>1 DEF OnPackage, OnActivity, CleaningPrefetch, Compiling
    <3> QED BY <2>1, <2>2, <3>1, Alone DEF Clean
  <2>5. Current(u) # gone.file_path
    BY <1>7, <2>2, <2>4 DEF Clean
  <2> DEFINE vcn == Current(u)
  <2>6. {f \in compiled' : f.component = vcn} # {}
    BY <1>1, <2>3, <2>5 DEF FileOf
  <2> QED BY <2>1, <2>6 DEF FileOf
<1>13. RowsHaveFiles'
  BY <1>10, <1>11, <1>12 DEF RowsHaveFiles
<1> QED BY <1>4, <1>5, <1>13 DEF Compilations

LEMMA DeletePrefetchFileCompiled ==
    ASSUME Typed, Compilations, NEW t \in Threads, DeletePrefetchFile(t),
           overlapped \subseteq overlapped'
    PROVE  Compilations'
<1>1. /\ thread[t].pc = "prefetch_removed" /\ thread[t] \in ThreadStates
      /\ Set(t, DropActivity(t, "activities"))
      /\ prefetch_files' = {f \in prefetch_files : f.id # CurrentRow(t).id}
      /\ UNCHANGED <<packages, activities, compiled, interrupted>>
  BY DEF DeletePrefetchFile, Delete, Typed, TypedThreads, TypedThread, disk, history, ghosts
<1>2. DropActivity(t, "activities").pc = "activities"
  BY <1>1, DropActivityKeeps
<1>3. /\ thread'[t].pc = "activities"
      /\ \A u \in Threads : u # t =>
            thread'[u] = thread[u] /\ Current(u)' = Current(u) /\ CurrentRow(u)' = CurrentRow(u)
  BY <1>1, <1>2, OthersRest DEF Typed
<1>4. prefetch_files' \subseteq prefetch_files /\ CurrentRow(t) \notin prefetch_files'
  BY <1>1
<1>5. RowsJoined'
  BY <1>1, <1>3, <1>4, RowsRest DEF Compilations, Compiling, CleaningPrefetch
<1>6. \A vcn : FileOf(vcn)' = FileOf(vcn)
  BY <1>1 DEF FileOf
<1>7. RowsHaveFiles'
  BY <1>1, <1>3, <1>4, <1>6, FilesRest DEF Compilations, Uncompiled, Compiling
<1>8. FilesWhole'
  BY <1>1, <1>3, <1>4, WholeRests DEF Compilations
<1> QED BY <1>5, <1>7, <1>8 DEF Compilations

LEMMA CleanUpCompiled ==
    ASSUME Typed, PackagesInHand, Compilations, CleanUpCascades, NEW t \in Threads, CleanUp(t),
           overlapped \subseteq overlapped'
    PROVE  Compilations'
<1> USE DEF Uncompiled, Compiling, CleaningPrefetch
<1>1. CASE CleanPackage(t)
  <2>1. /\ UNCHANGED <<packages, activities, prefetch_files, compiled, interrupted>>
        /\ thread[t].pc = "packages"
    BY <1>1 DEF CleanPackage, database, tables, disk, history, ghosts
  <2>2. \/ Set(t, [thread[t] EXCEPT !.pc = "activities", !.package = CurrentPackage(t),
                                    !.activities = ActivitiesOf(CurrentPackage(t).id)])
        \/ Set(t, DropPackage(t))
    BY <1>1 DEF CleanPackage
  <2> QED BY <2>1, <2>2, CompiledTakes, CompiledDrops
<1>2. CASE SelectRawTraces(t) \/ DeleteRawTrace(t)
  <2>1. /\ UNCHANGED <<packages, activities, prefetch_files, compiled, interrupted>>
        /\ thread[t].pc \in {"activities", "raw_removed"}
    BY <1>2 DEF SelectRawTraces, DeleteRawTrace, database, tables, disk, history, ghosts
  <2>2. PICK rows : Set(t, [thread[t] EXCEPT !.pc = "raw_traces", !.rows = rows])
    BY <1>2 DEF SelectRawTraces, DeleteRawTrace
  <2> QED BY <2>1, <2>2, CompiledSelects
<1>3. CASE RemoveRawTrace(t)
  <2>1. /\ UNCHANGED <<packages, activities, prefetch_files, compiled, interrupted>>
        /\ thread[t].pc = "raw_traces" /\ Set(t, [thread[t] EXCEPT !.pc = "raw_removed"])
    BY <1>3 DEF RemoveRawTrace, database, tables, history, ghosts
  <2> QED BY <2>1, CompiledMoves
<1> QED BY <1>1, <1>2, <1>3, SelectPrefetchFileCompiled, RemovePrefetchFileCompiled,
           DeletePrefetchFileCompiled, FinishPackageCompiled DEF CleanUp

-----------------------------------------------------------------------------
(* Compiled traces: compilation *)

\* A component without a compiled trace: without its file it would be a row that
\* another thread is about to delete.
LEMMA CheckCompiledCompiled ==
    ASSUME Typed, PackagesInHand, Compilations, NEW t \in Threads, CheckCompiled(t),
           overlapped \subseteq overlapped'
    PROVE  Compilations'
<1>1. /\ thread[t].pc = "compile" /\ thread[t].activities # {} /\ thread[t] \in ThreadStates
      /\ UNCHANGED <<packages, activities, prefetch_files, compiled, interrupted>>
  BY DEF CheckCompiled, Typed, TypedThreads, TypedThread, database, tables, disk, history, ghosts
<1>2. CASE FileOf(Current(t)) # {} /\ PrefetchFilesOf(Current(t)) # {}
  BY <1>1, <1>2, CompiledDrops DEF CheckCompiled
<1>3. CASE FileOf(Current(t)) = {} \/ PrefetchFilesOf(Current(t)) = {}
  <2> DEFINE state == [thread[t] EXCEPT !.pc = "traces"]
  <2>1. Set(t, state)
    BY <1>3 DEF CheckCompiled
  <2>2. /\ state.pc = "traces" /\ state.rows = thread[t].rows
        /\ state.package = thread[t].package /\ state.activities = thread[t].activities
    BY <1>1, MovingKeeps DEF SameHand
  <2> HIDE DEF state
  <2>3. /\ thread'[t] = state /\ Current(t)' = Current(t)
        /\ \A u \in Threads : u # t =>
              thread'[u] = thread[u] /\ Current(u)' = Current(u) /\ CurrentRow(u)' = CurrentRow(u)
    BY <2>1, <2>2, OthersRest DEF Typed
  <2>4. RowsJoined'
    BY <1>1, <2>2, <2>3, RowsRest DEF Compilations, Compiling, CleaningPrefetch
  <2>5. FilesWhole'
    BY <1>1, <2>2, <2>3, WholeRests DEF Compilations
  <2>6. \A vcn : (Overlapped(vcn) => Overlapped(vcn)') /\ (Clean(vcn)' => Clean(vcn))
    BY <1>1, CleanWas
  <2>7. ASSUME Clean(Current(t)), NEW f \in prefetch_files, f.file_path = Current(t)
        PROVE  FALSE
    <3>1. Joined(f.activity_id, Current(t))
      BY <2>7 DEF Compilations, RowsJoined, Clean
    <3>2. PrefetchFilesOf(Current(t)) # {}
      BY <3>1 DEF Joined, PrefetchFilesOf
    <3>3. FileOf(f.file_path) = {}
      BY <1>3, <2>7, <3>2
    <3>4. PICK u \in Threads : thread[u].pc = "prefetch_removed" /\ f = CurrentRow(u)
      BY <2>7, <3>3 DEF Compilations, RowsHaveFiles
    <3>5. u # t /\ thread[u].pc \in CleaningPrefetch /\ f \in thread[u].rows
      BY <1>1, <3>4, ComponentsTyped DEF CleaningPrefetch
    <3>6. Current(u) = Current(t)
      BY <2>7, <3>5 DEF Compilations, RowsJoined, Clean
    <3>7. Overlapped(Current(t))
      BY <1>1, <3>4, <3>5, <3>6, Alone DEF OnPackage, OnActivity, CleaningPrefetch
    <3> QED BY <2>7, <3>7 DEF Clean
  <2>8. ASSUME NEW u \in Threads, thread'[u].pc \in Uncompiled, Clean(Current(u))'
        PROVE  \A f \in prefetch_files' : f.file_path # Current(u)'
    <3>1. Current(u)' = Current(u) /\ (u # t => thread'[u] = thread[u])
      BY <2>3
    <3>2. Clean(Current(u))
      BY <2>6, <2>8, <3>1 DEF Clean, Overlapped
    <3> QED BY <1>1, <2>7, <2>8, <3>1, <3>2 DEF Compilations, RowsHaveFiles
  <2>9. ASSUME NEW u \in Threads, thread'[u].pc \in {"writing", "insert"}, Clean(Current(u))'
        PROVE  FileOf(Current(u))' # {}
    <3>1. thread'[u] = thread[u] /\ Current(u)' = Current(u)
      BY <2>2, <2>3, <2>9
    <3>2. Clean(Current(u))
      BY <2>6, <2>9, <3>1 DEF Clean, Overlapped
    <3> QED BY <1>1, <2>9, <3>1, <3>2 DEF Compilations, RowsHaveFiles, FileOf
  <2>10. ASSUME NEW f \in prefetch_files', Clean(f.file_path)'
         PROVE  \/ FileOf(f.file_path)' # {}
                \/ \E u \in Threads : thread'[u].pc = "prefetch_removed" /\ f = CurrentRow(u)'
    <3>1. \/ FileOf(f.file_path) # {}
          \/ \E u \in Threads : thread[u].pc = "prefetch_removed" /\ f = CurrentRow(u)
      BY <1>1, <2>6, <2>10 DEF Compilations, RowsHaveFiles
    <3>2. FileOf(f.file_path)' = FileOf(f.file_path)
      BY <1>1 DEF FileOf
    <3> QED BY <1>1, <2>3, <3>1, <3>2
  <2>11. RowsHaveFiles'
    BY <2>8, <2>9, <2>10 DEF RowsHaveFiles
  <2> QED BY <2>4, <2>5, <2>11 DEF Compilations
<1> QED BY <1>2, <1>3

LEMMA SelectTracesCompiled ==
    ASSUME Typed, PackagesInHand, Compilations, NEW t \in Threads, SelectTraces(t),
           overlapped \subseteq overlapped'
    PROVE  Compilations'
<1>1. /\ thread[t].pc = "traces" /\ thread[t] \in ThreadStates
      /\ UNCHANGED <<packages, activities, prefetch_files, compiled, interrupted>>
  BY DEF SelectTraces, Typed, TypedThreads, TypedThread, database, tables, disk, history, ghosts
<1>2. CASE Set(t, DropActivity(t, "compile"))
  BY <1>1, <1>2, CompiledDrops
<1>3. ASSUME NEW found \in LimitOne(ActivityNamed(CurrentActivity(t).name, thread[t].package.id)),
             Set(t, [thread[t] EXCEPT !.pc = "forked", !.rows = found])
      PROVE  Compilations'
  <2> DEFINE state == [thread[t] EXCEPT !.pc = "forked", !.rows = found]
  <2>1. Set(t, state)
    BY <1>3
  <2>2. /\ state.pc = "forked" /\ state.rows = found
        /\ state.package = thread[t].package /\ state.activities = thread[t].activities
    BY <1>1 DEF ThreadStates
  <2> HIDE DEF state
  <2>3. /\ thread'[t] = state /\ Current(t)' = Current(t)
        /\ \A u \in Threads : u # t =>
              thread'[u] = thread[u] /\ Current(u)' = Current(u) /\ CurrentRow(u)' = CurrentRow(u)
    BY <2>1, <2>2, OthersRest DEF Typed
  <2>4. found \subseteq ActivityNamed(CurrentActivity(t).name, thread[t].package.id)
    BY DEF LimitOne
  <2>5. \A row \in found : Overlapped(Current(t)) \/ Joined(row.id, Current(t))
    BY <1>1, <2>4, SelectedIsJoined
  <2>6. \A vcn : (Overlapped(vcn) => Overlapped(vcn)') /\ (Clean(vcn)' => Clean(vcn))
    BY <1>1, CleanWas
  <2>7. ASSUME NEW u \in Threads, thread'[u].pc \in Compiling, NEW row \in thread'[u].rows
        PROVE  Overlapped(Current(u))' \/ Joined(row.id, Current(u))'
    <3>1. Current(u)' = Current(u)
      BY <2>3
    <3>2. Overlapped(Current(u)) \/ Joined(row.id, Current(u))
      BY <2>2, <2>3, <2>5, <2>7 DEF Compilations, RowsJoined
    <3> QED BY <1>1, <3>1, <3>2 DEF Overlapped, Joined, Ids, RowsOf, PackagesNamedVersion, PackagesNamed
  <2>8. ASSUME NEW u \in Threads, thread'[u].pc \in CleaningPrefetch, NEW g \in thread'[u].rows
        PROVE  /\ Overlapped(g.file_path)' \/ g.file_path = Current(u)'
               /\ \A f \in prefetch_files' :
                     f.file_path = g.file_path /\ Clean(f.file_path)' => f = g
    <3>1. thread'[u] = thread[u] /\ Current(u)' = Current(u)
      BY <2>2, <2>3, <2>8 DEF CleaningPrefetch
    <3> QED BY <1>1, <2>6, <2>8, <3>1 DEF Compilations, RowsJoined
  <2>9. \A f \in prefetch_files' : ~Overlapped(f.file_path)' => Joined(f.activity_id, f.file_path)'
    BY <1>1, <2>6 DEF Compilations, RowsJoined, Joined, Ids, RowsOf, PackagesNamedVersion, PackagesNamed
  <2>10. \A f, g \in prefetch_files' : f.file_path = g.file_path /\ Clean(f.file_path)' => f = g
    BY <1>1, <2>6 DEF Compilations, RowsJoined
  <2>11. RowsJoined'
    BY <2>7, <2>8, <2>9, <2>10 DEF RowsJoined
  <2>12. \A vcn : FileOf(vcn)' = FileOf(vcn)
    BY <1>1 DEF FileOf
  <2>13. RowsHaveFiles'
    BY <1>1, <2>2, <2>3, <2>12, FilesRest DEF Compilations, Uncompiled, Compiling
  <2>14. FilesWhole'
    BY <1>1, <2>2, <2>3, WholeRests DEF Compilations
  <2> QED BY <2>11, <2>13, <2>14 DEF Compilations
<1> QED BY <1>2, <1>3 DEF SelectTraces

\* The compiler takes over the file; while the component is clean it is alone with it.
LEMMA OpenOutputCompiled ==
    ASSUME Typed, PackagesInHand, Compilations, NEW t \in Threads, OpenOutput(t),
           overlapped \subseteq overlapped'
    PROVE  Compilations'
<1> DEFINE state == [thread[t] EXCEPT !.pc = "writing"]
           writers == UNION {f.writers : f \in FileOf(Current(t))}
           output == [component |-> Current(t), writers |-> writers \union {t}, whole |-> FALSE]
           vcn == Current(t)
<1>1. /\ thread[t].pc = "forked" /\ thread[t] \in ThreadStates /\ Set(t, state)
      /\ compiled' = (compiled \ FileOf(vcn)) \union {output}
      /\ UNCHANGED <<packages, activities, prefetch_files, interrupted>>
  BY DEF OpenOutput, Typed, TypedThreads, TypedThread, database, tables, history, ghosts
<1>2. /\ state.pc = "writing" /\ state.rows = thread[t].rows
      /\ state.package = thread[t].package /\ state.activities = thread[t].activities
  BY <1>1, MovingKeeps DEF SameHand
<1> HIDE DEF state
<1>3. /\ thread'[t] = state /\ Current(t)' = vcn
      /\ \A u \in Threads : u # t =>
            thread'[u] = thread[u] /\ Current(u)' = Current(u) /\ CurrentRow(u)' = CurrentRow(u)
  BY <1>1, <1>2, OthersRest DEF Typed
<1>4. RowsJoined'
  BY <1>1, <1>2, <1>3, RowsRest DEF Compilations, Compiling, CleaningPrefetch
<1>5. output.component = vcn /\ output.writers = writers \union {t}
  OBVIOUS
<1>6. \A u \in writers : thread[u].pc = "writing" /\ Current(u) = vcn /\ u \in Threads
  <2>1. \A f \in compiled : f.writers \subseteq Threads
    BY DEF Typed, TypedWorld, Outputs
  <2> QED BY <2>1 DEF FileOf, Compilations, FilesWhole
<1> HIDE DEF output, writers, vcn
<1>7. /\ \A w : FileOf(w) # {} => FileOf(w)' # {}
      /\ \A file \in compiled' : file.component = vcn => file = output
      /\ \A file \in compiled' : file.component # vcn => file \in compiled
      /\ output \in compiled'
  BY <1>1, <1>5 DEF FileOf
<1>8. \A w : (Overlapped(w) => Overlapped(w)') /\ (Clean(w)' => Clean(w))
  BY <1>1, CleanWas
<1>9. ASSUME NEW u \in Threads, u # t, thread[u].pc \in {"writing", "insert"}, Clean(Current(u))
      PROVE  Current(u) # vcn
  <2>1. thread[t].pc \in OnPackage /\ thread[u].pc \in OnPackage
    BY <1>1, <1>9 DEF OnPackage, OnActivity, Compiling
  <2> QED BY <1>9, <2>1, Alone DEF Clean, vcn
<1>10. RowsHaveFiles'
  <2>1. ASSUME NEW f \in prefetch_files', Clean(f.file_path)'
        PROVE  \/ FileOf(f.file_path)' # {}
               \/ \E u \in Threads : thread'[u].pc = "prefetch_removed" /\ f = CurrentRow(u)'
    <3>1. \/ FileOf(f.file_path) # {}
          \/ \E u \in Threads : thread[u].pc = "prefetch_removed" /\ f = CurrentRow(u)
      BY <1>1, <1>8, <2>1 DEF Compilations, RowsHaveFiles
    <3> QED BY <1>1, <1>3, <1>7, <3>1
  <2>2. ASSUME NEW u \in Threads, thread'[u].pc \in Uncompiled, Clean(Current(u))'
        PROVE  \A f \in prefetch_files' : f.file_path # Current(u)'
    <3>1. Current(u)' = Current(u) /\ thread[u].pc \in Uncompiled
      BY <1>1, <1>3, <2>2 DEF Uncompiled, Compiling, vcn
    <3>2. Clean(Current(u))
      BY <1>8, <2>2, <3>1 DEF Clean, Overlapped
    <3> QED BY <1>1, <3>1, <3>2 DEF Compilations, RowsHaveFiles
  <2>3. ASSUME NEW u \in Threads, thread'[u].pc \in {"writing", "insert"}, Clean(Current(u))'
        PROVE  FileOf(Current(u))' # {}
    <3>1. CASE u = t
      BY <1>3, <1>5, <1>7, <3>1 DEF FileOf
    <3>2. CASE u # t
      <4>1. thread'[u] = thread[u] /\ Current(u)' = Current(u)
        BY <1>3, <3>2
      <4>2. Clean(Current(u))
        BY <1>8, <2>3, <4>1 DEF Clean, Overlapped
      <4>3. FileOf(Current(u)) # {} /\ Current(u) # vcn
        BY <1>9, <2>3, <3>2, <4>1, <4>2 DEF Compilations, RowsHaveFiles
      <4>4. \A file \in FileOf(Current(u)) : file \in compiled'
        BY <1>1, <4>3 DEF FileOf
      <4> QED BY <4>1, <4>3, <4>4 DEF FileOf
    <3> QED BY <3>1, <3>2
  <2> QED BY <2>1, <2>2, <2>3 DEF RowsHaveFiles
<1>11. FilesWhole'
  <2>1. ASSUME NEW file \in compiled', NEW u \in file.writers
        PROVE  thread'[u].pc = "writing" /\ Current(u)' = file.component
    <3>1. CASE file.component = vcn
      <4>1. u = t \/ u \in writers
        BY <1>5, <1>7, <2>1, <3>1
      <4> QED BY <1>1, <1>2, <1>3, <1>6, <3>1, <4>1
    <3>2. CASE file.component # vcn
      <4>1. /\ thread[u].pc = "writing" /\ Current(u) = file.component
            /\ u \in Threads
        BY <1>7, <2>1, <3>2 DEF Compilations, FilesWhole, Typed, TypedWorld, Outputs
      <4> QED BY <1>1, <1>3, <4>1
    <3> QED BY <3>1, <3>2
  <2>2. ASSUME NEW u \in Threads, thread'[u].pc \in {"writing", "insert"}, Clean(Current(u))',
               NEW file \in FileOf(Current(u))'
        PROVE  /\ thread'[u].pc = "writing" => u \in file.writers
               /\ thread'[u].pc = "insert" => file.whole /\ file.writers = {}
    <3>1. CASE u = t
      BY <1>2, <1>3, <1>5, <1>7, <2>2, <3>1 DEF FileOf
    <3>2. CASE u # t
      <4>1. thread'[u] = thread[u] /\ Current(u)' = Current(u)
        BY <1>3, <3>2
      <4>2. Clean(Current(u))
        BY <1>8, <2>2, <4>1 DEF Clean, Overlapped
      <4>3. file \in FileOf(Current(u))
        BY <1>7, <1>9, <2>2, <3>2, <4>1, <4>2 DEF FileOf
      <4> QED BY <2>2, <4>1, <4>2, <4>3 DEF Compilations, FilesWhole
    <3> QED BY <3>1, <3>2
  <2>3. ASSUME NEW f \in prefetch_files', NEW file \in compiled',
               f.file_path = file.component, Clean(file.component)'
        PROVE  file.whole /\ file.writers = {}
    <3>1. Clean(file.component)
      BY <1>8, <2>3
    <3>2. file.component # vcn
      BY <1>1, <2>3, <3>1 DEF Compilations, RowsHaveFiles, Uncompiled, Compiling, vcn
    <3> QED BY <1>1, <1>7, <2>3, <3>1, <3>2 DEF Compilations, FilesWhole
  <2> QED BY <2>1, <2>2, <2>3 DEF FilesWhole
<1> QED BY <1>4, <1>10, <1>11 DEF Compilations

\* The compiler lets go of its file, whole or not.
LEMMA CloseCompiled ==
    ASSUME Typed, PackagesInHand, Compilations, NEW t \in Threads, NEW whole \in BOOLEAN,
           thread[t].pc \in {"forked", "writing"}, Close(t, whole), NEW state, Set(t, state),
           \/ state.pc = "compile"
           \/ /\ state.pc = "insert" /\ whole /\ thread[t].pc = "writing"
              /\ state.rows = thread[t].rows /\ state.package = thread[t].package
              /\ state.activities = thread[t].activities,
           UNCHANGED <<packages, activities, prefetch_files, interrupted>>,
           overlapped \subseteq overlapped'
    PROVE  Compilations'
<1> DEFINE closed(f) == IF t \in f.writers THEN [f EXCEPT !.writers = @ \ {t}, !.whole = whole] ELSE f
<1>1. /\ thread'[t] = state /\ (state.pc = "insert" => Current(t)' = Current(t))
      /\ \A u \in Threads : u # t =>
            thread'[u] = thread[u] /\ Current(u)' = Current(u) /\ CurrentRow(u)' = CurrentRow(u)
  BY OthersRest DEF Typed
<1>2. compiled' = {closed(f) : f \in compiled}
  BY DEF Close
<1>3. \A f \in compiled :
         /\ closed(f).component = f.component /\ closed(f).writers = f.writers \ {t}
         /\ t \in f.writers => closed(f).whole = whole
         /\ t \notin f.writers => closed(f) = f
  BY DEF Typed, TypedWorld, Outputs
<1> HIDE DEF closed
<1>4. \A w : (Overlapped(w) => Overlapped(w)') /\ (Clean(w)' => Clean(w))
  BY CleanWas
<1>5. RowsJoined'
  BY <1>1, RowsRest DEF Compilations, Compiling, CleaningPrefetch
<1>6. \A w : FileOf(w) # {} => FileOf(w)' # {}
  BY <1>2, <1>3 DEF FileOf
<1>7. RowsHaveFiles'
  BY <1>1, <1>6, FilesRest DEF Compilations, Uncompiled, Compiling
<1>8. \A f \in compiled : \A u \in f.writers :
         u \in Threads /\ thread[u].pc = "writing" /\ Current(u) = f.component
  BY DEF Compilations, FilesWhole, Typed, TypedWorld, Outputs
<1>9. ASSUME NEW u \in Threads, u # t, thread[u].pc \in {"writing", "insert"}, Clean(Current(u))
      PROVE  Current(u) # Current(t)
  <2>1. thread[t].pc \in OnPackage /\ thread[u].pc \in OnPackage
    BY <1>9 DEF OnPackage, OnActivity, Compiling
  <2> QED BY <1>9, <2>1, Alone DEF Clean
<1>10. ASSUME NEW file \in compiled', NEW u \in file.writers
       PROVE  thread'[u].pc = "writing" /\ Current(u)' = file.component
  BY <1>1, <1>2, <1>3, <1>8, <1>10
<1>11. ASSUME NEW u \in Threads, thread'[u].pc \in {"writing", "insert"}, Clean(Current(u))',
              NEW file \in FileOf(Current(u))'
       PROVE  /\ thread'[u].pc = "writing" => u \in file.writers
              /\ thread'[u].pc = "insert" => file.whole /\ file.writers = {}
  <2>1. Current(u)' = Current(u) /\ thread[u].pc \in {"writing", "insert"}
    BY <1>1, <1>11
  <2>2. Clean(Current(u))
    BY <1>4, <1>11, <2>1 DEF Clean, Overlapped
  <2>3. PICK f \in compiled : file = closed(f) /\ f.component = Current(u)
    BY <1>2, <1>3, <1>11, <2>1 DEF FileOf
  <2>4. f \in FileOf(Current(u))
    BY <2>3 DEF FileOf
  <2>5. CASE u = t
    <3>1. thread[t].pc = "writing" /\ thread'[t].pc = "insert" /\ whole
      BY <1>1, <1>11, <2>5
    <3>2. t \in f.writers
      BY <2>2, <2>4, <2>5, <3>1 DEF Compilations, FilesWhole
    <3>3. \A v \in f.writers : v = t
      BY <1>8, <1>9, <2>2, <2>3, <2>5
    <3> QED BY <1>3, <2>3, <2>5, <3>1, <3>2, <3>3
  <2>6. CASE u # t
    <3>1. t \notin f.writers
      BY <1>8, <1>9, <2>1, <2>2, <2>3, <2>6
    <3>2. file = f /\ thread'[u] = thread[u]
      BY <1>1, <1>3, <2>3, <2>6, <3>1
    <3> QED BY <2>1, <2>2, <2>4, <3>2 DEF Compilations, FilesWhole
  <2> QED BY <2>5, <2>6
<1>12. ASSUME NEW f \in prefetch_files', NEW file \in compiled',
              f.file_path = file.component, Clean(file.component)'
       PROVE  file.whole /\ file.writers = {}
  <2>1. PICK g \in compiled : file = closed(g) /\ g.component = file.component
    BY <1>2, <1>3
  <2>2. g.whole /\ g.writers = {}
    BY <1>4, <1>12, <2>1 DEF Compilations, FilesWhole
  <2> QED BY <1>3, <2>1, <2>2
<1>13. FilesWhole'
  BY <1>10, <1>11, <1>12 DEF FilesWhole
<1> QED BY <1>5, <1>7, <1>13 DEF Compilations

\* The row is inserted after the file is whole, and it is the only one.
LEMMA InsertPrefetchFileCompiled ==
    ASSUME Typed, PackagesInHand, Compilations, NEW t \in Threads, InsertPrefetchFile(t),
           overlapped \subseteq overlapped'
    PROVE  Compilations'
<1>1. /\ thread[t].pc = "insert" /\ thread[t] \in ThreadStates
      /\ Set(t, DropActivity(t, "compile"))
      /\ UNCHANGED <<packages, activities, compiled, interrupted>>
  BY DEF InsertPrefetchFile, Typed, TypedThreads, TypedThread, disk, history, ghosts
<1>2. PICK row \in thread[t].rows :
         \/ prefetch_files' = prefetch_files \union {NewPrefetchFile(row.id, Current(t))}
         \/ UNCHANGED prefetch_files
  BY DEF InsertPrefetchFile
<1>3. CASE UNCHANGED prefetch_files
  BY <1>1, <1>3, CompiledDrops
<1>4. CASE prefetch_files' = prefetch_files \union {NewPrefetchFile(row.id, Current(t))}
  <2> DEFINE new == NewPrefetchFile(row.id, Current(t))
             vcn == Current(t)
  <2>1. new.activity_id = row.id /\ new.file_path = vcn
    BY DEF NewPrefetchFile
  <2>2. prefetch_files' = prefetch_files \union {new}
    BY <1>4
  <2> HIDE DEF new
  <2>3. DropActivity(t, "compile").pc = "compile"
    BY <1>1, DropActivityKeeps
  <2>4. /\ thread'[t].pc = "compile"
        /\ \A u \in Threads : u # t =>
              thread'[u] = thread[u] /\ Current(u)' = Current(u) /\ CurrentRow(u)' = CurrentRow(u)
    BY <1>1, <2>3, OthersRest DEF Typed
  <2>5. \A w : (Overlapped(w) => Overlapped(w)') /\ (Clean(w)' => Clean(w))
    BY <1>1, CleanWas
  <2>6. \A id, w : Joined(id, w)' <=> Joined(id, w)
    BY <1>1 DEF Joined, Ids, RowsOf, PackagesNamedVersion, PackagesNamed
  <2>7. \A w : FileOf(w)' = FileOf(w)
    BY <1>1 DEF FileOf
  <2>8. /\ Overlapped(vcn) \/ Joined(row.id, vcn)
        /\ Clean(vcn) => \A f \in prefetch_files : f.file_path # vcn
        /\ Clean(vcn) => FileOf(vcn) # {}
        /\ Clean(vcn) => \A file \in FileOf(vcn) : file.whole /\ file.writers = {}
    BY <1>1 DEF Compilations, RowsJoined, RowsHaveFiles, FilesWhole, Uncompiled, Compiling
  <2>9. ASSUME NEW u \in Threads, u # t, thread[u].pc \in OnActivity, Current(u) = vcn
        PROVE  ~Clean(vcn)
    <3>1. thread[t].pc \in OnPackage /\ thread[u].pc \in OnPackage
      BY <1>1, <2>9 DEF OnPackage, OnActivity, Compiling
    <3> QED BY <2>9, <3>1, Alone DEF Clean
  <2> HIDE DEF vcn
  <2>10. RowsJoined'
    <3>1. \A f \in prefetch_files' : ~Overlapped(f.file_path)' => Joined(f.activity_id, f.file_path)'
      BY <2>1, <2>2, <2>5, <2>6, <2>8 DEF Compilations, RowsJoined
    <3>2. \A f, g \in prefetch_files' : f.file_path = g.file_path /\ Clean(f.file_path)' => f = g
      BY <2>1, <2>2, <2>5, <2>8 DEF Compilations, RowsJoined
    <3>3. ASSUME NEW u \in Threads, thread'[u].pc \in Compiling, NEW r \in thread'[u].rows
          PROVE  Overlapped(Current(u))' \/ Joined(r.id, Current(u))'
      <4>1. thread'[u] = thread[u] /\ Current(u)' = Current(u)
        BY <2>4, <3>3 DEF Compiling
      <4>2. Overlapped(Current(u)) \/ Joined(r.id, Current(u))
        BY <3>3, <4>1 DEF Compilations, RowsJoined
      <4> QED BY <1>1, <4>1, <4>2 DEF Overlapped, Joined, Ids, RowsOf, PackagesNamedVersion, PackagesNamed
    <3>4. ASSUME NEW u \in Threads, thread'[u].pc \in CleaningPrefetch, NEW g \in thread'[u].rows
          PROVE  /\ Overlapped(g.file_path)' \/ g.file_path = Current(u)'
                 /\ \A f \in prefetch_files' :
                       f.file_path = g.file_path /\ Clean(f.file_path)' => f = g
      <4>1. u # t /\ thread'[u] = thread[u] /\ Current(u)' = Current(u)
        BY <2>4, <3>4 DEF CleaningPrefetch
      <4>2. thread[u].pc \in OnActivity
        BY <3>4, <4>1 DEF OnActivity
      <4>3. Overlapped(g.file_path) \/ g.file_path = Current(u)
        BY <3>4, <4>1 DEF Compilations, RowsJoined
      <4>4. Clean(g.file_path) => g.file_path # vcn
        BY <2>9, <4>1, <4>2, <4>3 DEF Clean
      <4> QED BY <2>1, <2>2, <2>5, <3>4, <4>1, <4>3, <4>4 DEF Compilations, RowsJoined
    <3> QED BY <3>1, <3>2, <3>3, <3>4 DEF RowsJoined
  <2>11. RowsHaveFiles'
    <3>1. ASSUME NEW f \in prefetch_files', Clean(f.file_path)'
          PROVE  \/ FileOf(f.file_path)' # {}
                 \/ \E u \in Threads : thread'[u].pc = "prefetch_removed" /\ f = CurrentRow(u)'
      <4>1. CASE f = new
        BY <2>1, <2>5, <2>7, <2>8, <3>1, <4>1
      <4>2. CASE f \in prefetch_files
        <5>1. \/ FileOf(f.file_path) # {}
              \/ \E u \in Threads : thread[u].pc = "prefetch_removed" /\ f = CurrentRow(u)
          BY <2>5, <3>1, <4>2 DEF Compilations, RowsHaveFiles
        <5> QED BY <1>1, <2>4, <2>7, <5>1
      <4> QED BY <2>2, <4>1, <4>2
    <3>2. ASSUME NEW u \in Threads, thread'[u].pc \in Uncompiled, Clean(Current(u))'
          PROVE  \A f \in prefetch_files' : f.file_path # Current(u)'
      <4>1. u # t /\ thread'[u] = thread[u] /\ Current(u)' = Current(u)
        BY <2>4, <3>2 DEF Uncompiled, Compiling
      <4>2. Clean(Current(u)) /\ thread[u].pc \in OnActivity
        BY <2>5, <3>2, <4>1 DEF Clean, Overlapped, OnActivity, Uncompiled
      <4>3. Current(u) # vcn
        BY <2>9, <4>1, <4>2
      <4> QED BY <2>1, <2>2, <3>2, <4>1, <4>2, <4>3 DEF Compilations, RowsHaveFiles
    <3>3. ASSUME NEW u \in Threads, thread'[u].pc \in {"writing", "insert"}, Clean(Current(u))'
          PROVE  FileOf(Current(u))' # {}
      <4>1. thread'[u] = thread[u] /\ Current(u)' = Current(u)
        BY <2>4, <3>3
      <4>2. Clean(Current(u))
        BY <2>5, <3>3, <4>1 DEF Clean, Overlapped
      <4> QED BY <1>1, <3>3, <4>1, <4>2 DEF Compilations, RowsHaveFiles, FileOf
    <3> QED BY <3>1, <3>2, <3>3 DEF RowsHaveFiles
  <2>12. FilesWhole'
    <3>1. \A file \in compiled' : \A u \in file.writers :
             thread'[u].pc = "writing" /\ Current(u)' = file.component
      BY <1>1, <2>4 DEF Compilations, FilesWhole, Typed, TypedWorld, Outputs
    <3>2. ASSUME NEW u \in Threads, thread'[u].pc \in {"writing", "insert"}, Clean(Current(u))',
                 NEW file \in FileOf(Current(u))'
          PROVE  /\ thread'[u].pc = "writing" => u \in file.writers
                 /\ thread'[u].pc = "insert" => file.whole /\ file.writers = {}
      <4>1. thread'[u] = thread[u] /\ Current(u)' = Current(u)
        BY <2>4, <3>2
      <4>2. Clean(Current(u))
        BY <2>5, <3>2, <4>1 DEF Clean, Overlapped
      <4>3. file \in FileOf(Current(u))
        BY <1>1, <3>2, <4>1 DEF FileOf
      <4> QED BY <3>2, <4>1, <4>2, <4>3 DEF Compilations, FilesWhole
    <3>3. ASSUME NEW f \in prefetch_files', NEW file \in compiled',
                 f.file_path = file.component, Clean(file.component)'
          PROVE  file.whole /\ file.writers = {}
      <4>1. CASE f = new
        BY <1>1, <2>1, <2>5, <2>8, <3>3, <4>1 DEF FileOf
      <4>2. CASE f \in prefetch_files
        BY <1>1, <2>5, <3>3, <4>2 DEF Compilations, FilesWhole
      <4> QED BY <2>2, <4>1, <4>2
    <3> QED BY <3>1, <3>2, <3>3 DEF FilesWhole
  <2> QED BY <2>10, <2>11, <2>12 DEF Compilations
<1> QED BY <1>2, <1>3, <1>4

LEMMA CompileStepCompiled ==
    ASSUME Typed, PackagesInHand, Compilations, NEW t \in Threads, CompileStep(t),
           overlapped \subseteq overlapped'
    PROVE  Compilations'
<1>0. thread[t] \in ThreadStates
  BY DEF Typed, TypedThreads, TypedThread
<1>1. CASE CompilePackage(t)
  <2>1. /\ UNCHANGED <<packages, activities, prefetch_files, compiled, interrupted>>
        /\ thread[t].pc = "packages"
    BY <1>1 DEF CompilePackage, database, tables, disk, history, ghosts
  <2>2. PICK package, rows :
           \/ Set(t, [thread[t] EXCEPT !.pc = "compile", !.package = package, !.activities = rows])
           \/ Set(t, DropPackage(t))
    BY <1>1 DEF CompilePackage
  <2>3. "compile" \notin Uncompiled \union CleaningPrefetch
    BY DEF Uncompiled, Compiling, CleaningPrefetch
  <2> QED BY <2>1, <2>2, <2>3, CompiledTakes, CompiledDrops
<1>2. CASE FinishCompilePackage(t)
  <2>1. /\ UNCHANGED <<packages, activities, prefetch_files, compiled, interrupted>>
        /\ thread[t].pc = "compile" /\ Set(t, DropPackage(t))
    BY <1>2 DEF FinishCompilePackage, database, tables, disk, history, ghosts
  <2> QED BY <2>1, CompiledDrops
<1>3. CASE CompilerSucceeds(t)
  <2> DEFINE state == [thread[t] EXCEPT !.pc = "insert"]
  <2>1. /\ state.pc = "insert" /\ state.rows = thread[t].rows
        /\ state.package = thread[t].package /\ state.activities = thread[t].activities
    BY <1>0, MovingKeeps DEF SameHand
  <2>2. /\ thread[t].pc = "writing" /\ Close(t, TRUE) /\ Set(t, state)
        /\ UNCHANGED <<packages, activities, prefetch_files, interrupted>>
    BY <1>3 DEF CompilerSucceeds, database, tables, history, ghosts
  <2> HIDE DEF state
  <2> QED BY <2>1, <2>2, CloseCompiled
<1>4. CASE CompilerFails(t)
  <2>1. DropActivity(t, "compile").pc = "compile"
    BY <1>0, DropActivityKeeps
  <2>2. /\ thread[t].pc \in {"forked", "writing"} /\ Close(t, FALSE)
        /\ Set(t, DropActivity(t, "compile"))
        /\ UNCHANGED <<packages, activities, prefetch_files, interrupted>>
    BY <1>4 DEF CompilerFails, database, tables, history, ghosts
  <2> QED BY <2>1, <2>2, CloseCompiled
<1> QED BY <1>1, <1>2, <1>3, <1>4, CheckCompiledCompiled, SelectTracesCompiled,
           OpenOutputCompiled, InsertPrefetchFileCompiled DEF CompileStep

-----------------------------------------------------------------------------
(* Compiled traces: the other steps *)

LEMMA CompiledRests ==
    ASSUME Typed, Compilations, packages \subseteq packages', activities \subseteq activities',
           UNCHANGED <<prefetch_files, compiled, thread, overlapped, interrupted>>
    PROVE  Compilations'
<1>1. \A t \in Threads : Current(t)' = Current(t) /\ CurrentRow(t)' = CurrentRow(t)
  BY DEF Current, CurrentActivity, CurrentRow
<1>2. \A vcn : FileOf(vcn)' = FileOf(vcn)
  BY DEF FileOf
<1>3. RowsJoined'
  BY <1>1, RowsRest DEF Compilations
<1>4. RowsHaveFiles'
  BY <1>1, <1>2, FilesRest DEF Compilations
<1>5. FilesWhole'
  BY <1>1, WholeRests DEF Compilations
<1> QED BY <1>3, <1>4, <1>5 DEF Compilations

\* A request, or another step of a thread between two packages.
LEMMA CompiledBegins ==
    ASSUME Typed, Compilations, NEW t \in Threads, NEW job, NEW pc \in {"packages", "update"}, NEW rows,
           \/ Set(t, [Idle EXCEPT !.job = job, !.pc = pc, !.packages = rows])
           \/ Set(t, [Idle EXCEPT !.job = job, !.pc = pc])
           \/ Set(t, Idle)
           \/ Set(t, [thread[t] EXCEPT !.pc = pc, !.packages = rows])
           \/ Set(t, [thread[t] EXCEPT !.pc = "select"]),
           thread[t].pc \in {"idle", "update", "select", "packages"},
           UNCHANGED <<packages, activities, prefetch_files, compiled, interrupted>>,
           overlapped \subseteq overlapped'
    PROVE  Compilations'
<1>1. thread[t] \in ThreadStates
  BY DEF Typed, TypedThreads, TypedThread
<1>2. /\ [Idle EXCEPT !.job = job, !.pc = pc, !.packages = rows].pc = pc
      /\ [Idle EXCEPT !.job = job, !.pc = pc].pc = pc
      /\ Idle.pc = "idle"
  BY DEF Idle
<1>3. /\ [thread[t] EXCEPT !.pc = pc, !.packages = rows].pc = pc
      /\ [thread[t] EXCEPT !.pc = "select"].pc = "select"
  BY <1>1 DEF ThreadStates
<1>4. \A at \in {"idle", "update", "select", "packages"} :
         at \notin Uncompiled \union CleaningPrefetch
  BY DEF Uncompiled, Compiling, CleaningPrefetch
<1> QED BY <1>2, <1>3, <1>4, CompiledLooks

LEMMA ThreadStepCompiled ==
    ASSUME Typed, PackagesInHand, Compilations, CleanUpCascades, ThreadStep
    PROVE  Compilations'
<1>1. overlapped \subseteq overlapped'
  BY DEF ThreadStep, Watched
<1>2. "worker" \in Threads /\ "binder" \in Threads
  BY DEF Threads
<1>3. CASE Request
  <2>1. PICK p \in Packages : Purge(p) \/ Compile(p)
    BY <1>3 DEF Request
  <2>2. /\ UNCHANGED <<packages, activities, prefetch_files, compiled, interrupted>>
        /\ thread["binder"].pc = "idle"
    BY <2>1 DEF Purge, Compile, database, tables, disk, ghosts
  <2>3. PICK job, rows :
           Set("binder", [Idle EXCEPT !.job = job, !.pc = "packages", !.packages = rows])
    BY <2>1 DEF Purge, Compile
  <2> QED BY <1>1, <1>2, <2>2, <2>3, CompiledBegins
<1>4. CASE OnPackageChanged
  <2>1. /\ UNCHANGED <<packages, activities, prefetch_files, compiled, interrupted>>
        /\ thread["binder"].pc = "idle"
    BY <1>4 DEF OnPackageChanged, database, tables, disk, history, ghosts
  <2>2. CASE UNCHANGED thread
    <3>1. \A t \in Threads : Current(t)' = Current(t) /\ CurrentRow(t)' = CurrentRow(t)
      BY <2>2 DEF Current, CurrentActivity, CurrentRow
    <3>2. \A vcn : FileOf(vcn)' = FileOf(vcn)
      BY <2>1 DEF FileOf
    <3>3. RowsJoined'
      BY <1>1, <2>1, <2>2, <3>1, RowsRest DEF Compilations
    <3>4. RowsHaveFiles'
      BY <1>1, <2>1, <2>2, <3>1, <3>2, FilesRest DEF Compilations
    <3>5. FilesWhole'
      BY <1>1, <2>1, <2>2, <3>1, WholeRests DEF Compilations
    <3> QED BY <3>3, <3>4, <3>5 DEF Compilations
  <2>3. CASE thread' # thread
    <3>1. PICK found : Set("binder", [Idle EXCEPT !.job = "purge", !.pc = "packages",
                                                  !.packages = found])
      BY <1>4, <2>3 DEF OnPackageChanged
    <3> QED BY <1>1, <1>2, <2>1, <3>1, CompiledBegins
  <2> QED BY <2>2, <2>3
<1>5. CASE Maintenance
  <2>1. /\ UNCHANGED <<packages, activities, prefetch_files, compiled, interrupted>>
        /\ thread["worker"].pc \in {"idle", "update", "select"}
    BY <1>5 DEF Maintenance, StartMaintenance, UpdateAllSucceeds, UpdateAllFails, UpdateAll,
       SelectPackages, database, tables, disk, history, ghosts
  <2>2. \/ Set("worker", [Idle EXCEPT !.job = "maintenance", !.pc = "update"])
        \/ Set("worker", [thread["worker"] EXCEPT !.pc = "select"])
        \/ Set("worker", [thread["worker"] EXCEPT !.pc = "packages", !.packages = packages])
    BY <1>5 DEF Maintenance, StartMaintenance, UpdateAllSucceeds, UpdateAllFails, UpdateAll,
       SelectPackages
  <2> QED BY <1>1, <1>2, <2>1, <2>2, CompiledBegins
<1>6. CASE \E t \in Threads : FinishPackages(t)
  <2>1. PICK t \in Threads : FinishPackages(t)
    BY <1>6
  <2>2. /\ UNCHANGED <<packages, activities, prefetch_files, compiled, interrupted>>
        /\ thread[t].pc = "packages"
    BY <2>1 DEF FinishPackages, database, tables, disk, history, ghosts
  <2>3. \/ Set(t, [Idle EXCEPT !.job = "compile", !.pc = "packages", !.packages = packages])
        \/ Set(t, Idle)
    BY <2>1 DEF FinishPackages
  <2> QED BY <1>1, <2>2, <2>3, CompiledBegins
<1>7. CASE \E t \in Threads : CleanUp(t) \/ CompileStep(t)
  BY <1>1, <1>7, CleanUpCompiled, CompileStepCompiled
<1> QED BY <1>3, <1>4, <1>5, <1>6, <1>7 DEF ThreadStep, Watched, Work

\* A file whose row was about to go is noted; one that was being written stays without
\* a row.
LEMMA RestartCompiled ==
    ASSUME Typed, Compilations, Crash \/ CrashWithoutMap \/ Upgrade
    PROVE  Compilations'
<1>1. /\ \A t \in Threads : thread'[t].pc = "idle"
      /\ interrupted' = interrupted \union {row.file_path : row \in Going}
      /\ UNCHANGED overlapped
      /\ prefetch_files' \subseteq prefetch_files
  BY DEF Crash, CrashWithoutMap, Upgrade, Die, Reopen, tables, Idle
<1>2. \A w : Clean(w)' => Clean(w)
  BY <1>1, CleanWas
<1>3. \/ UNCHANGED <<packages, activities, prefetch_files>> /\ compiled' = Abandoned(compiled)
      \/ prefetch_files' = {} /\ \E outputs \in SUBSET compiled : compiled' = Abandoned(outputs)
  BY DEF Crash, CrashWithoutMap, Upgrade, Reopen, tables
<1>4. \A f \in compiled' :
         /\ f.writers = {}
         /\ \E g \in compiled : g.component = f.component /\ (g.whole /\ g.writers = {} => f.whole)
  <2> DEFINE left(f) == [f EXCEPT !.writers = {}, !.whole = @ /\ f.writers = {}]
  <2>1. \A f \in compiled : /\ left(f).writers = {} /\ left(f).component = f.component
                            /\ f.whole /\ f.writers = {} => left(f).whole
    BY DEF Typed, TypedWorld, Outputs
  <2>2. \A f \in compiled' : \E g \in compiled : f = left(g)
    BY <1>3 DEF Abandoned
  <2> HIDE DEF left
  <2> QED BY <2>1, <2>2
<1>5. prefetch_files' # {} => \A w : FileOf(w) # {} => FileOf(w)' # {}
  <2> SUFFICES ASSUME compiled' = Abandoned(compiled), NEW w, NEW f \in compiled, f.component = w
               PROVE  \E g \in compiled' : g.component = w
    BY <1>3 DEF FileOf
  <2> DEFINE g == [f EXCEPT !.writers = {}, !.whole = @ /\ f.writers = {}]
  <2>1. g \in compiled'
    BY DEF Abandoned
  <2>2. g.component = w
    BY DEF Typed, TypedWorld, Outputs
  <2> QED BY <2>1, <2>2
<1>6. RowsJoined'
  <2>1. CASE prefetch_files' = {}
    BY <1>1, <2>1 DEF RowsJoined, Compiling, CleaningPrefetch
  <2>2. CASE UNCHANGED <<packages, activities, prefetch_files>>
    BY <1>1, <2>2, RowsRest DEF Compilations, Compiling, CleaningPrefetch
  <2> QED BY <1>3, <2>1, <2>2
<1>7. RowsHaveFiles'
  <2>1. ASSUME NEW f \in prefetch_files', Clean(f.file_path)'
        PROVE  FileOf(f.file_path)' # {}
    <3>1. f \in prefetch_files /\ Clean(f.file_path) /\ f.file_path \notin interrupted'
      BY <1>1, <1>2, <2>1 DEF Clean
    <3>2. \A t \in Threads : thread[t].pc = "prefetch_removed" => CurrentRow(t) \in Going
      BY DEF Going
    <3>3. FileOf(f.file_path) # {}
      BY <1>1, <3>1, <3>2 DEF Compilations, RowsHaveFiles
    <3> QED BY <1>5, <2>1, <3>3
  <2> QED BY <1>1, <2>1 DEF RowsHaveFiles, Uncompiled, Compiling
<1>8. FilesWhole'
  BY <1>1, <1>2, <1>4 DEF Compilations, FilesWhole
<1> QED BY <1>6, <1>7, <1>8 DEF Compilations

LEMMA NextCompiled ==
    ASSUME Typed, IInv, Compiled, [Next]_vars
    PROVE  Compiled'
<1>1. PackagesInHand /\ Compilations /\ CleanUpCascades
  BY DEF Compiled, Compilations, IInv
<1>2. Compilations'
  <2>1. CASE LaunchStep
    <3>1. /\ packages \subseteq packages' /\ activities \subseteq activities'
          /\ UNCHANGED <<prefetch_files, compiled, thread, overlapped, interrupted>>
      BY <2>1 DEF LaunchStep, StartLaunch, LookUpVersion, SelectOrInsertPackage,
         SelectOrInsertActivity, InsertHistory, database, tables, disk, history, ghosts
    <3> QED BY <1>1, <3>1, CompiledRests
  <2>2. CASE \/ IoStep \/ UNCHANGED vars
             \/ \E p \in Packages, v \in Versions \union {None} : ChangePackage(p, v)
    <3>1. UNCHANGED <<packages, activities, prefetch_files, compiled, thread, overlapped, interrupted>>
      BY <2>2 DEF IoStep, WriteTrace, InsertRawTrace, SelectOlder, RemoveOlder, DeleteOlder,
         ChangePackage, vars, database, tables, disk, history, ghosts
    <3> QED BY <1>1, <3>1, CompiledRests
  <2> QED BY <1>1, <2>1, <2>2, ThreadStepCompiled, RestartCompiled DEF Next
<1>3. PackagesInHand'
  BY <1>1, NextHand
<1> QED BY <1>2, <1>3 DEF Compiled, Compilations

LEMMA InitCompiled == Init => Compiled
<1> SUFFICES ASSUME Init PROVE Compiled
  OBVIOUS
<1>1. /\ \A t \in Threads : thread[t] = Idle
      /\ packages = {} /\ prefetch_files = {} /\ compiled = {}
      /\ "worker" \in Threads /\ "binder" \in Threads
  BY DEF Init, EmptyDatabase, Threads
<1>2. Idle.pc = "idle" /\ Idle.job = "none" /\ Idle.package = None /\ Idle.packages = {}
  BY DEF Idle
<1>3. PackagesInHand
  BY <1>1, <1>2 DEF PackagesInHand, InHand, OnCompilation, Compiling
<1>4. RowsJoined /\ RowsHaveFiles /\ FilesWhole
  BY <1>1, <1>2 DEF RowsJoined, RowsHaveFiles, FilesWhole, Uncompiled, Compiling, CleaningPrefetch
<1> QED BY <1>3, <1>4 DEF Compiled

\* A component has one row and one writer of its file at a time (CompileActivity), and the
\* row only while the file is whole, until two threads are on one package or the daemon dies.
THEOREM CompiledInvariant == Spec => []Compiled
<1> QED BY InitCompiled, NextCompiled, Invariant, TypedInvariant, PTL DEF Spec

\* Whatever launches, clean-ups, compilations, requests and restarts do to the tables
\* and files between two steps of another, all four invariants hold.
THEOREM StoreInvariant == Spec => []StoreInv
<1>1. IInv /\ Typed /\ Recorded /\ Compiled => StoreInv
  BY DEF StoreInv
<1> QED BY <1>1, Invariant, TypedInvariant, RecordedInvariant, CompiledInvariant, PTL

\* GetCompiledTrace gives a launch a whole file, compiled for the component of the launch,
\* unless two threads were at work on that version of the package at once (a purge and
\* the maintenance are not kept apart) or the daemon died between the file and its row.
THEOREM CompiledTracesAreWhole == Spec => []CompiledTraceIsWhole
<1>1. Compiled => CompiledTraceIsWhole
  <2> SUFFICES ASSUME Compiled, NEW f \in prefetch_files, NEW file \in compiled,
                      f.file_path = file.component, Clean(file.component)
               PROVE  file.whole /\ file.writers = {} /\ f \in PrefetchFilesOf(file.component)
    BY DEF CompiledTraceIsWhole, Clean
  <2>1. file.whole /\ file.writers = {}
    BY DEF Compiled, FilesWhole
  <2>2. Joined(f.activity_id, file.component)
    BY DEF Compiled, RowsJoined, Clean
  <2> QED BY <2>1, <2>2 DEF PrefetchFilesOf, Joined
<1> QED BY <1>1, CompiledInvariant, PTL
===============================================================================
