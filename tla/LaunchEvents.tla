---------------------------- MODULE LaunchEvents ----------------------------
(***************************************************************************)
(* The app-launch half of the event manager (manager/event_manager.cc):    *)
(* binder delivers AppLaunchEvents one at a time, AppLaunchEventDefender   *)
(* accepts, rewrites or rejects each, and AppLaunchEventState decides      *)
(* whether the launch is traced with perfetto, prefetched from a compiled  *)
(* trace, or neither, and records it in the app_launch_histories table.    *)
(* Perfetto traces finish later, on other threads, and are joined with the *)
(* row id through a replayed rx chain before they reach raw_traces.        *)
(*                                                                         *)
(* Launches, history rows, rx chains and traces are numbered from 1; 0 is  *)
(* std::nullopt.  The number of a launch also stands for its sequence_id   *)
(* and for its timestamps, so a stale field names the launch it came from. *)
(***************************************************************************)
EXTENDS Naturals, Sequences, FiniteSets

CONSTANTS
    Components,   \* canonical package/activity names
    NoComponent,  \* the empty name of an intent that has no component
    Unset,        \* component_name_ before the first event (std::nullopt)
    Blacklisted,  \* components whose package is blacklisted
    Redirects,    \* <<named by the intent, launched>>: what may follow what
    Titled,       \* launches whose activity record carries a window title
    Unstamped,    \* launches whose events carry a negative timestamp
    EarlyEvents,  \* may events arrive before the subject is subscribed?
    MaxLaunches,  \* bound: number of kIntentStarted events sent
    MaxTraces     \* kPerfettoMaxTraces

ASSUME ComponentsAssumption ==
    /\ NoComponent \notin Components
    /\ Unset \notin Components \cup {NoComponent}
    /\ Blacklisted \subseteq Components
    /\ Redirects \subseteq (Components \cup {NoComponent}) \X Components

ASSUME BoundsAssumption ==
    /\ MaxLaunches \in Nat
    /\ MaxTraces \in Nat
    /\ EarlyEvents \in BOOLEAN

VARIABLES
    launch,            \* launches the activity manager has begun
    last_event_type,   \* AppLaunchEventDefender::last_event_type_
    ready,             \* AppLaunchEventSubject::ready_
    component_name,    \* the fields of AppLaunchEventState
    temperature,
    intent_started,
    total_time,
    subscriber,        \* history_id_subscriber_: the chain it feeds
    observable,        \* history_id_observable_: the chain it reads
    recent_history,
    read_ahead_task,
    is_tracing,
    rx_lifetime,       \* the trace it subscribes
    rx_in_flight,      \* the traces left to finish by themselves
    sessions,          \* read-ahead tasks begun and not finished
    chains,            \* every history id chain: its launch and its outcome
    traces,            \* every perfetto trace stream
    histories,         \* table app_launch_histories
    raw_traces         \* table raw_traces

defenderVars == <<launch, last_event_type, ready>>
fieldVars == <<component_name, temperature, intent_started, total_time>>
collectorVars ==
    <<read_ahead_task, is_tracing, rx_lifetime, rx_in_flight, sessions, traces>>
recordVars == <<subscriber, observable, recent_history, chains, histories>>
stateVars == <<fieldVars, collectorVars, recordVars, raw_traces>>
vars == <<defenderVars, stateVars>>

Launches == 1 .. MaxLaunches

EventTypes ==
    {"IntentStarted", "IntentFailed", "ActivityLaunched",
     "ActivityLaunchFinished", "ActivityLaunchCancelled", "ReportFullyDrawn"}

\* The states of the defender in which no launch is under way.
Resting ==
    {"Uninitialized", "IntentFailed", "ActivityLaunchCancelled",
     "ReportFullyDrawn", "ActivityLaunchFinished"}

IsBlacklisted(c) == c \in Blacklisted

Temperature == [cold : BOOLEAN, launch : Nat]

HistoryIdChain ==
    [launch : Nat, status : {"open", "error", "id"}, history : Nat]

Trace ==
    [component : Components, chain : Nat, launch : Nat,
     status : {"collecting", "have_proto", "saved", "dropped"}]

HistoryRow ==
    [component : Components \cup {NoComponent}, temperature : Temperature,
     trace_enabled : BOOLEAN, readahead_enabled : BOOLEAN,
     intent_started : Nat, total_time : Nat, fully_drawn : Nat, launch : Nat]

NoTemperature == [cold |-> FALSE, launch |-> 0]

-----------------------------------------------------------------------------
(* AppLaunchEventDefender *)

Legal ==
    {"Uninitialized", "IntentFailed", "ActivityLaunchCancelled",
     "ReportFullyDrawn"} \X {"IntentStarted"}
      \cup {"IntentStarted"} \X {"IntentFailed", "ActivityLaunched"}
      \cup {"ActivityLaunched"}
             \X {"ActivityLaunchFinished", "ActivityLaunchCancelled"}
      \cup {"ActivityLaunchFinished"} \X {"IntentStarted", "ReportFullyDrawn"}

\* The event the state receives in place of one of this type, which is also
\* what the defender remembers; "Uninitialized" when the event is rejected.
Defend(last, type) ==
    CASE <<last, type>> \in Legal      -> type
      [] last = "IntentStarted"
           /\ <<last, type>> \notin Legal -> "IntentFailed"
      [] last = "ActivityLaunched"
           /\ <<last, type>> \notin Legal -> "ActivityLaunchCancelled"
      [] OTHER                         -> "Uninitialized"

-----------------------------------------------------------------------------
(* Collecting: read-ahead and tracing *)

IsReadAhead == read_ahead_task # 0
IsTracing == is_tracing

\* StartTracing once it may trace: without the package's version (the package
\* manager is down) no stream is subscribed and the lifetime is cleared.
StartTracing(c, chain, version_known) ==
    IF version_known
    THEN /\ traces' = Append(traces, [component |-> c, chain |-> chain,
                                      launch |-> launch', status |-> "collecting"])
         /\ rx_lifetime' = Len(traces) + 1
         /\ is_tracing' = TRUE
    ELSE /\ rx_lifetime' = 0
         /\ UNCHANGED <<is_tracing, traces>>

\* Read-ahead is preferred; a launch is traced only when there is no compiled
\* trace to read ahead.  The two flags are the s_*_allowed atomics, which a
\* system property change may flip between any two events.
StartCollecting(c, chain) ==
    \E readahead_allowed, compiled_trace, tracing_allowed, version_known \in BOOLEAN :
       LET begin == readahead_allowed /\ compiled_trace
           task  == IF begin THEN launch' ELSE read_ahead_task
       IN  /\ compiled_trace => readahead_allowed
           /\ version_known => tracing_allowed
           /\ read_ahead_task' = task
           /\ sessions' = IF begin THEN sessions \cup {launch'} ELSE sessions
           /\ IF tracing_allowed /\ task = 0
              THEN StartTracing(c, chain, version_known)
              ELSE UNCHANGED <<is_tracing, rx_lifetime, traces>>
           /\ UNCHANGED rx_in_flight

\* Unsubscribing drops a stream that has not been saved yet.
Unsubscribed(t) ==
    IF t \in DOMAIN traces /\ traces[t].status \in {"collecting", "have_proto"}
    THEN [traces EXCEPT ![t].status = "dropped"]
    ELSE traces

AbortTrace ==
    /\ is_tracing' = FALSE
    /\ rx_lifetime' = IF IsTracing THEN 0 ELSE rx_lifetime
    /\ traces' = IF IsTracing THEN Unsubscribed(rx_lifetime) ELSE traces
    /\ rx_in_flight' = IF IsTracing THEN rx_in_flight \ {rx_lifetime} ELSE rx_in_flight

MarkPendingTrace ==
    /\ is_tracing' = FALSE
    /\ rx_lifetime' = IF IsTracing THEN 0 ELSE rx_lifetime
    /\ rx_in_flight' = IF IsTracing /\ rx_lifetime # 0
                       THEN rx_in_flight \cup {rx_lifetime}
                       ELSE rx_in_flight
    /\ UNCHANGED traces

FinishReadAhead ==
    /\ sessions' = sessions \ {read_ahead_task}
    /\ read_ahead_task' = 0

AbortReadAhead == FinishReadAhead

-----------------------------------------------------------------------------
(* Recording the launch *)

\* Mutant: the row is filled in after MarkPendingTrace stopped the trace.
InsertAfterMarkPendingTrace(inserted) ==
    LET row == [component |-> component_name, temperature |-> temperature,
                trace_enabled |-> FALSE, readahead_enabled |-> IsReadAhead,
                intent_started |-> intent_started, total_time |-> total_time',
                fully_drawn |-> 0, launch |-> launch]
    IN  histories' = IF inserted THEN Append(histories, row) ELSE histories

\* Mutant: the row is filled in before the total time is stored.
InsertBeforeTotalTime(inserted) ==
    LET row == [component |-> component_name, temperature |-> temperature,
                trace_enabled |-> IsTracing, readahead_enabled |-> IsReadAhead,
                intent_started |-> intent_started, total_time |-> total_time,
                fully_drawn |-> 0, launch |-> launch]
    IN  histories' = IF inserted THEN Append(histories, row) ELSE histories

\* The row is inserted only when the component and temperature are known;
\* it fails as a whole when the version or a statement is not available.
InsertDbLaunchHistory(inserted) ==
    LET row == [component |-> component_name, temperature |-> temperature,
                trace_enabled |-> IsTracing, readahead_enabled |-> IsReadAhead,
                intent_started |-> intent_started, total_time |-> total_time',
                fully_drawn |-> 0, launch |-> launch]
    IN  histories' = IF inserted THEN Append(histories, row) ELSE histories

\* Mutant: when the row cannot be inserted nothing else is done.
RecordDbLaunchHistoryGivesUp ==
    \E inserted \in BOOLEAN :
       /\ inserted => component_name # Unset /\ temperature # NoTemperature
       /\ InsertDbLaunchHistory(inserted)
       /\ IF ~inserted
          THEN UNCHANGED <<chains, recent_history, subscriber>>
          ELSE /\ chains' = [chains EXCEPT ![subscriber].status = "id",
                                           ![subscriber].history = Len(histories) + 1]
               /\ recent_history' = Len(histories) + 1
               /\ subscriber' = 0
       /\ UNCHANGED observable

\* The chain ends with the row's id or with an error, and the id is kept for
\* kReportFullyDrawn.  Without a subscriber the function returns early.
RecordDbLaunchHistory ==
    \E inserted \in BOOLEAN :
       /\ inserted => component_name # Unset /\ temperature # NoTemperature
       /\ InsertDbLaunchHistory(inserted)
       /\ IF subscriber = 0
          THEN UNCHANGED <<chains, recent_history, subscriber>>
          ELSE LET id == IF inserted THEN Len(histories) + 1 ELSE 0
               IN  /\ chains' = [chains EXCEPT
                                   ![subscriber].status = IF inserted THEN "id" ELSE "error",
                                   ![subscriber].history = id]
                   /\ recent_history' = id
                   /\ subscriber' = 0
       /\ UNCHANGED observable

-----------------------------------------------------------------------------
(* AppLaunchEventState::OnNewEvent, one operator per event type *)

\* Mutant: no history id chain for an intent without a component.
OnIntentStartedChainsLate(c) ==
    /\ component_name' = c
    /\ IF IsBlacklisted(c) \/ c = NoComponent
       THEN UNCHANGED <<temperature, intent_started, total_time, collectorVars,
                        recordVars>>
       ELSE LET chain == Len(chains) + 1 IN
            /\ chains' = Append(chains, [launch |-> launch', status |-> "open",
                                         history |-> 0])
            /\ subscriber' = chain
            /\ observable' = chain
            /\ intent_started' = IF launch' \in Unstamped THEN intent_started ELSE launch'
            /\ StartCollecting(c, chain)
            /\ UNCHANGED <<temperature, total_time, recent_history, histories>>
    /\ UNCHANGED raw_traces

OnIntentStarted(c) ==
    /\ component_name' = c
    /\ IF IsBlacklisted(c)
       THEN UNCHANGED <<temperature, intent_started, total_time, collectorVars,
                        recordVars>>
       ELSE LET chain == Len(chains) + 1 IN
            /\ chains' = Append(chains, [launch |-> launch', status |-> "open",
                                         history |-> 0])
            /\ subscriber' = chain
            /\ observable' = chain
            /\ intent_started' = IF launch' \in Unstamped THEN intent_started ELSE launch'
            /\ IF c = NoComponent
               THEN UNCHANGED collectorVars
               ELSE StartCollecting(c, chain)
            /\ UNCHANGED <<temperature, total_time, recent_history, histories>>
    /\ UNCHANGED raw_traces

\* Mutant: the collector is left running when the intent fails.
OnIntentFailedKeepsCollecting ==
    /\ IF IsBlacklisted(component_name)
       THEN UNCHANGED recordVars
       ELSE /\ chains' = IF subscriber = 0 THEN chains
                         ELSE [chains EXCEPT ![subscriber].status = "error"]
            /\ subscriber' = 0
            /\ UNCHANGED <<observable, recent_history, histories>>
    /\ UNCHANGED <<collectorVars, fieldVars, raw_traces>>

OnIntentFailed ==
    /\ IF IsBlacklisted(component_name)
       THEN UNCHANGED <<collectorVars, recordVars>>
       ELSE /\ AbortTrace
            /\ AbortReadAhead
            /\ chains' = IF subscriber = 0 THEN chains
                         ELSE [chains EXCEPT ![subscriber].status = "error"]
            /\ subscriber' = 0
            /\ UNCHANGED <<observable, recent_history, histories>>
    /\ UNCHANGED <<fieldVars, raw_traces>>

OnActivityLaunched(c, cold) ==
    /\ component_name' = c
    /\ IF IsBlacklisted(c)
       THEN UNCHANGED <<temperature, collectorVars>>
       ELSE /\ temperature' = [cold |-> cold, launch |-> launch]
            /\ IF ~cold
               THEN AbortTrace /\ AbortReadAhead
               ELSE IF ~IsTracing /\ ~IsReadAhead
                    THEN StartCollecting(c, observable)
                    ELSE UNCHANGED collectorVars
    /\ UNCHANGED <<intent_started, total_time, recordVars, raw_traces>>

OnActivityLaunchFinished ==
    /\ IF IsBlacklisted(component_name)
       THEN UNCHANGED <<total_time, recordVars, collectorVars>>
       ELSE /\ total_time' = IF launch \in Unstamped THEN total_time ELSE launch
            /\ RecordDbLaunchHistory
            /\ MarkPendingTrace
            /\ FinishReadAhead
    /\ UNCHANGED <<component_name, temperature, intent_started, raw_traces>>

\* Mutant: only the trace of a cancelled launch is aborted.
OnActivityLaunchCancelledKeepsReadAhead ==
    /\ IF IsBlacklisted(component_name)
       THEN UNCHANGED collectorVars
       ELSE AbortTrace /\ UNCHANGED <<read_ahead_task, sessions>>
    /\ UNCHANGED <<fieldVars, recordVars, raw_traces>>

OnActivityLaunchCancelled ==
    /\ IF IsBlacklisted(component_name)
       THEN UNCHANGED collectorVars
       ELSE AbortTrace /\ AbortReadAhead
    /\ UNCHANGED <<fieldVars, recordVars, raw_traces>>

OnReportFullyDrawn ==
    /\ IF IsBlacklisted(component_name) \/ recent_history = 0
       THEN UNCHANGED <<histories, recent_history>>
       ELSE /\ histories' = [histories EXCEPT ![recent_history].fully_drawn = launch]
            /\ recent_history' = 0
    /\ UNCHANGED <<fieldVars, collectorVars, subscriber, observable, chains, raw_traces>>

\* A window title instead of package/activity: the event is ignored.
OnActivityTitle == UNCHANGED stateVars

OnNewEvent(type) ==
    \/ /\ type = "IntentStarted"
       /\ \E c \in Components \cup {NoComponent} : OnIntentStarted(c)
    \/ type = "IntentFailed" /\ OnIntentFailed
    \/ /\ type = "ActivityLaunched"
       /\ IF launch \in Titled
          THEN OnActivityTitle
          ELSE \E c \in Components, cold \in BOOLEAN :
                  /\ <<component_name, c>> \in Redirects \/ component_name = Unset
                  /\ OnActivityLaunched(c, cold)
    \/ type = "ActivityLaunchFinished" /\ OnActivityLaunchFinished
    \/ type = "ActivityLaunchCancelled" /\ OnActivityLaunchCancelled
    \/ type = "ReportFullyDrawn" /\ OnReportFullyDrawn

\* EventManager::OnAppLaunchEvent.  The defender moves even when the subject
\* is not ready and drops what it is given.
OnAppLaunchEvent(type) ==
    LET event == Defend(last_event_type, type) IN
    /\ ready \/ EarlyEvents
    /\ type = "IntentStarted" => launch < MaxLaunches
    /\ launch' = IF type = "IntentStarted" THEN launch + 1 ELSE launch
    /\ last_event_type' = event
    /\ IF ready /\ event # "Uninitialized"
       THEN OnNewEvent(event)
       ELSE UNCHANGED stateVars
    /\ UNCHANGED ready

\* The worker thread gets round to subscribing (AppLaunchEventSubject).
Subscribe ==
    /\ ~ready
    /\ ready' = TRUE
    /\ UNCHANGED <<launch, last_event_type, stateVars>>

-----------------------------------------------------------------------------
(* The trace streams, on the perfetto, worker and io threads *)

Streaming(t) == traces[t].status \in {"collecting", "have_proto"}

Chain(t) == chains[traces[t].chain]

\* Perfetto hands over the trace, or its state machine reports a failure.
TraceCollected(t) ==
    /\ traces[t].status = "collecting"
    /\ \E status \in {"have_proto", "dropped"} :
          traces' = [traces EXCEPT ![t].status = status]
    /\ UNCHANGED <<defenderVars, fieldVars, recordVars, raw_traces, read_ahead_task,
                   is_tracing, rx_lifetime, rx_in_flight, sessions>>

\* combine_latest passes on the error of the history id chain.
TraceChainError(t) ==
    /\ Streaming(t)
    /\ traces[t].chain # 0
    /\ Chain(t).status = "error"
    /\ traces' = [traces EXCEPT ![t].status = "dropped"]
    /\ UNCHANGED <<defenderVars, fieldVars, recordVars, raw_traces, read_ahead_task,
                   is_tracing, rx_lifetime, rx_in_flight, sessions>>

RowsOf(rows, c) == {r \in rows : histories[r.history].component = c}

\* PerfettoTraceFileModel::DeleteOlderFiles: of the rows that belong to this
\* component only the newest MaxTraces stay.
DeleteOlderFiles(rows, c) ==
    rows \ {r \in RowsOf(rows, c) :
              Cardinality({q \in RowsOf(rows, c) : q.id > r.id}) >= MaxTraces}

\* The id sqlite gives the next row: ids grow in the order of insertion.
NextRawTraceId ==
    1 + Cardinality({t \in DOMAIN traces : traces[t].status = "saved"})

\* combine_latest has the trace and the row id: the io thread writes the
\* file, inserts the raw_traces row and deletes the oldest rows of the
\* component the stream was started for.  Writing or inserting may fail.
TraceSaved(t) ==
    /\ traces[t].status = "have_proto"
    /\ traces[t].chain # 0
    /\ Chain(t).status = "id"
    /\ \/ /\ traces' = [traces EXCEPT ![t].status = "saved"]
          /\ raw_traces' =
               DeleteOlderFiles(
                 raw_traces \cup {[id |-> NextRawTraceId, history |-> Chain(t).history,
                                   trace |-> t]},
                 traces[t].component)
       \/ /\ traces' = [traces EXCEPT ![t].status = "dropped"]
          /\ UNCHANGED raw_traces
    /\ UNCHANGED <<defenderVars, fieldVars, recordVars, read_ahead_task, is_tracing,
                   rx_lifetime, rx_in_flight, sessions>>

-----------------------------------------------------------------------------
(* iorapd dies and init restarts it: the tables stay, the rest is new. *)

Restart ==
    /\ last_event_type' = "Uninitialized"
    /\ ready' = FALSE
    /\ component_name' = Unset
    /\ temperature' = NoTemperature
    /\ intent_started' = 0
    /\ total_time' = 0
    /\ subscriber' = 0
    /\ observable' = 0
    /\ recent_history' = 0
    /\ read_ahead_task' = 0
    /\ is_tracing' = FALSE
    /\ rx_lifetime' = 0
    /\ rx_in_flight' = {}
    /\ sessions' = {}
    /\ traces' = [t \in DOMAIN traces |->
                    [traces[t] EXCEPT !.status = IF @ = "saved" THEN "saved" ELSE "dropped"]]
    /\ UNCHANGED <<launch, chains, histories, raw_traces>>

Init ==
    /\ launch = 0
    /\ last_event_type = "Uninitialized"
    /\ ready = FALSE
    /\ component_name = Unset
    /\ temperature = NoTemperature
    /\ intent_started = 0
    /\ total_time = 0
    /\ subscriber = 0
    /\ observable = 0
    /\ recent_history = 0
    /\ read_ahead_task = 0
    /\ is_tracing = FALSE
    /\ rx_lifetime = 0
    /\ rx_in_flight = {}
    /\ sessions = {}
    /\ chains = <<>>
    /\ traces = <<>>
    /\ histories = <<>>
    /\ raw_traces = {}

TraceStep == \E t \in DOMAIN traces :
    TraceCollected(t) \/ TraceChainError(t) \/ TraceSaved(t)

Next ==
    \/ \E type \in EventTypes : OnAppLaunchEvent(type)
    \/ Subscribe
    \/ TraceStep
    \/ Restart

Spec == Init /\ [][Next]_vars

\* The threads behind a stream keep running; launches and restarts are up to
\* the environment.
FairSpec == Spec /\ WF_vars(TraceStep) /\ WF_vars(Subscribe)

-----------------------------------------------------------------------------
(* Properties *)

DefenderTypeOK ==
    /\ launch \in Nat
    /\ last_event_type \in EventTypes \cup {"Uninitialized"}
    /\ ready \in BOOLEAN

FieldTypeOK ==
    /\ component_name \in Components \cup {NoComponent, Unset}
    /\ temperature \in Temperature
    /\ intent_started \in Nat
    /\ total_time \in Nat

CollectorTypeOK ==
    /\ read_ahead_task \in Nat
    /\ is_tracing \in BOOLEAN
    /\ rx_lifetime \in {0} \cup DOMAIN traces
    /\ rx_in_flight \subseteq DOMAIN traces
    /\ sessions \subseteq Nat
    /\ traces \in Seq(Trace)

RecordTypeOK ==
    /\ subscriber \in {0} \cup DOMAIN chains
    /\ observable \in {0} \cup DOMAIN chains
    /\ recent_history \in {0} \cup DOMAIN histories
    /\ chains \in Seq(HistoryIdChain)
    /\ histories \in Seq(HistoryRow)

ChainsOfTraces ==
    \A t \in DOMAIN traces : traces[t].chain \in {0} \cup DOMAIN chains

TypeOK ==
    /\ DefenderTypeOK
    /\ FieldTypeOK
    /\ CollectorTypeOK
    /\ RecordTypeOK
    /\ ChainsOfTraces
    /\ raw_traces \subseteq [id : Nat, history : Nat, trace : Nat]

\* The launches this development is about: the subject is subscribed before
\* binder delivers an event, and an intent that names a component never ends
\* in an activity on the other side of the blacklist.
Aligned ==
    /\ ~EarlyEvents
    /\ \A r \in Redirects :
          r[1] # NoComponent => (IsBlacklisted(r[1]) <=> IsBlacklisted(r[2]))

\* While no launch is under way nothing is collected: no stream is marked as
\* running and no read-ahead task is left behind, however the launch before
\* ended (DCHECK(!IsTracing()) and DCHECK(!IsReadAhead()) when it starts).
CollectorReleased ==
    last_event_type \in Resting =>
       /\ ~is_tracing
       /\ rx_lifetime = 0
       /\ read_ahead_task = 0
       /\ sessions = {}

\* A launch is traced or read ahead, never both: neither at one time, nor in
\* the row the compiler later selects traces by.
OneCollector ==
    /\ ~(is_tracing /\ read_ahead_task # 0)
    /\ \A h \in DOMAIN histories :
          ~(histories[h].trace_enabled /\ histories[h].readahead_enabled)

\* "RecordDbLaunchHistory happens-after kIntentStarted": when the state is told
\* that a launch that is not blacklisted has finished, the history id chain of
\* the launch has a subscriber.
AlwaysASubscriber ==
    [][ready /\ last_event_type' = "ActivityLaunchFinished"
         /\ last_event_type = "ActivityLaunched" /\ ~IsBlacklisted(component_name)
         => subscriber # 0]_vars

\* A perfetto trace is filed under the history row of the launch it was
\* recorded in, the row says that it was traced, and no row has two traces.
RawTraceOfItsLaunch ==
    /\ \A r \in raw_traces :
          /\ histories[r.history].launch = traces[r.trace].launch
          /\ histories[r.history].trace_enabled
    /\ \A r, q \in raw_traces : r.history = q.history => r = q

\* kReportFullyDrawn completes the row of the launch it belongs to.
FullyDrawnOfItsLaunch ==
    \A h \in DOMAIN histories : histories[h].fully_drawn \in {0, histories[h].launch}

\* A row describes one launch: its timestamps and its temperature are not left
\* over from an earlier one (unless the event did not carry them).
RowOfOneLaunch ==
    \A h \in DOMAIN histories :
       LET row == histories[h] IN
       /\ row.launch \notin Unstamped => /\ row.intent_started = row.launch
                                         /\ row.total_time = row.launch
       /\ row.launch \notin Titled => row.temperature.launch = row.launch

\* "Cancel tracing for warm/hot": a row that says the launch was traced or read
\* ahead is that of a cold launch.
CollectedIsCold ==
    \A h \in DOMAIN histories :
       /\ histories[h].launch \notin Titled
       /\ histories[h].trace_enabled \/ histories[h].readahead_enabled
       => histories[h].temperature.cold

\* A stream left in flight when its launch finished is not waited for forever:
\* it is saved or it fails.
InFlightResolves ==
    \A t \in 1 .. MaxLaunches :
       (t \in rx_in_flight) ~> (t \notin DOMAIN traces \/ ~Streaming(t))

-----------------------------------------------------------------------------
(* Refinement of LaunchProtocol *)

UnderWay == last_event_type \in {"IntentStarted", "ActivityLaunched"}

LaunchesOf(ts) == {traces[t].launch : t \in ts}

Protocol == INSTANCE LaunchProtocol WITH
    current   <- IF UnderWay THEN launch ELSE 0,
    collector <- IF is_tracing THEN "trace"
                 ELSE IF read_ahead_task # 0 THEN "readahead" ELSE "none",
    recorded  <- {histories[h].launch : h \in DOMAIN histories},
    waiting   <- LaunchesOf({t \in rx_in_flight : Streaming(t)}),
    saved     <- LaunchesOf({t \in DOMAIN traces : traces[t].status = "saved"})

ImplementsProtocol == Protocol!Spec
=============================================================================
