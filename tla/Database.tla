------------------------------ MODULE Database ------------------------------
(***************************************************************************)
(* The SQLite database (db/models.h): its tables, and one operator for     *)
(* each statement the daemon runs.  A statement is one step: the mutex of  *)
(* the handle is held from Prepare to the last row.                        *)
(***************************************************************************)
EXTENDS Integers, FiniteSetsExt

VARIABLES
    packages,              \* [id, name, version]
    activities,            \* [id, name, package_id]
    app_launch_histories,  \* [id, activity_id, traced, launch]; launch is history
    raw_traces,            \* [id, history_id, file_path]
    prefetch_files,        \* [id, activity_id, file_path]
    foreign_keys           \* PRAGMA foreign_keys of the connection

tables == <<packages, activities, app_launch_histories, raw_traces, prefetch_files>>
database == <<tables, foreign_keys>>

Ids(table) == {row.id : row \in table}

\* An INTEGER PRIMARY KEY without AUTOINCREMENT: the id after the largest in the
\* table, so the id of a deleted row may come back.
NewId(table) == Max(Ids(table) \union {0}) + 1

\* A loop over the rows of a SELECT takes them in the order of their ids, and LIMIT 1
\* any of them, or none if there is none.
First(rows) == CHOOSE row \in rows : \A other \in rows : row.id <= other.id
LimitOne(rows) == IF rows = {} THEN {{}} ELSE {{row} : row \in rows}

EmptyDatabase ==
    /\ packages = {}
    /\ activities = {}
    /\ app_launch_histories = {}
    /\ raw_traces = {}
    /\ prefetch_files = {}
    /\ foreign_keys = FALSE

-----------------------------------------------------------------------------
(* SELECT *)

PackagesNamed(name) == {p \in packages : p.name = name}

PackagesNamedVersion(name, version) == {p \in PackagesNamed(name) : p.version = version}

ActivitiesOf(package_id) == {a \in activities : a.package_id = package_id}

ActivityNamed(name, package_id) == {a \in ActivitiesOf(package_id) : a.name = name}

\* The activity rows that a versioned component name joins with.
RowsOf(vcn) ==
    {a \in activities :
        /\ a.name = vcn.activity
        /\ \E p \in PackagesNamedVersion(vcn.package, vcn.version) : a.package_id = p.id}

RawTracesOf(vcn) ==
    {t \in raw_traces : \E h \in app_launch_histories :
        t.history_id = h.id /\ h.activity_id \in Ids(RowsOf(vcn))}

PrefetchFilesOf(vcn) == {f \in prefetch_files : f.activity_id \in Ids(RowsOf(vcn))}

\* Cold launches with a trace and the time of the intent.
HistoriesForCompile(activity_id) ==
    {h \in app_launch_histories : h.activity_id = activity_id /\ h.traced}

-----------------------------------------------------------------------------
(* INSERT, DELETE *)

\* The foreign key of a new row is tested while foreign keys are on.
Accepts(parent, id) == foreign_keys => id \in Ids(parent)

NewPackage(name, version) == [id |-> NewId(packages), name |-> name, version |-> version]

NewActivity(name, package_id) ==
    [id |-> NewId(activities), name |-> name, package_id |-> package_id]

NewHistory(activity_id, traced, launch) ==
    [id |-> NewId(app_launch_histories), activity_id |-> activity_id,
     traced |-> traced, launch |-> launch]

NewRawTrace(history_id, file) ==
    [id |-> NewId(raw_traces), history_id |-> history_id, file_path |-> file]

NewPrefetchFile(activity_id, vcn) ==
    [id |-> NewId(prefetch_files), activity_id |-> activity_id, file_path |-> vcn]

Delete(table, id) == {row \in table : row.id # id}

\* ON DELETE CASCADE, while foreign keys are on.
CascadedActivities(package_id) == IF foreign_keys THEN ActivitiesOf(package_id) ELSE {}

CascadedHistories(package_id) ==
    {h \in app_launch_histories : h.activity_id \in Ids(CascadedActivities(package_id))}

DeletePackage(package_id) ==
    /\ packages' = Delete(packages, package_id)
    /\ activities' = activities \ CascadedActivities(package_id)
    /\ app_launch_histories' = app_launch_histories \ CascadedHistories(package_id)
    /\ raw_traces' =
          {t \in raw_traces : t.history_id \notin Ids(CascadedHistories(package_id))}
    /\ prefetch_files' =
          {f \in prefetch_files : f.activity_id \notin Ids(CascadedActivities(package_id))}
    /\ UNCHANGED foreign_keys

-----------------------------------------------------------------------------
\* Every row's parent is there: what the REFERENCES clauses of the schema promise,
\* although SQLite only enforces them once the first clean-up has run.
Integrity ==
    /\ \A a \in activities : a.package_id \in Ids(packages)
    /\ \A h \in app_launch_histories : h.activity_id \in Ids(activities)
    /\ \A t \in raw_traces : t.history_id \in Ids(app_launch_histories)
    /\ \A f \in prefetch_files : f.activity_id \in Ids(activities)
=============================================================================
