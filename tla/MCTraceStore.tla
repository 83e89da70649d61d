---------------------------- MODULE MCTraceStore ----------------------------
(***************************************************************************)
(* An instance of TraceStore for TLC.  It starts after a first launch of a *)
(* package: its rows are in the database and its trace is on its way to    *)
(* the io thread, so that every bounded event comes on top of something.   *)
(***************************************************************************)
EXTENDS TraceStoreInv

CONSTANTS p1, a1

OnePackage == {p1}
OneActivity == {a1}
TwoVersions == {1, 5}  \* the second is too wide for an int

FirstPackage == [id |-> 1, name |-> p1, version |-> 1]
FirstActivity == [id |-> 1, name |-> a1, package_id |-> 1]
FirstHistory == [id |-> 1, activity_id |-> 1, traced |-> TRUE, launch |-> 0]
FirstTrace == [component |-> Component(p1, a1, 1), launch |-> 0, history_id |-> 1]

AfterLaunch ==
    /\ packages = {FirstPackage} /\ activities = {FirstActivity}
    /\ app_launch_histories = {FirstHistory}
    /\ raw_traces = {} /\ prefetch_files = {}
    /\ foreign_keys = FALSE
    /\ installed = [p \in Packages |-> 1]
    /\ package_manager = TRUE /\ version_map = installed
    /\ changes = <<>>
    /\ files = {} /\ compiled = {}
    /\ launch = NoLaunch
    /\ pending = {FirstTrace}
    /\ io = IoIdle
    /\ thread = [t \in Threads |-> Idle]
    /\ events = 1
    /\ forgotten = {} /\ overlapped = {} /\ interrupted = {}

MCSpec == AfterLaunch /\ [][Next]_vars /\ Fairness
=============================================================================
