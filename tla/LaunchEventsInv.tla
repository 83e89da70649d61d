--------------------------- MODULE LaunchEventsInv ---------------------------
(***************************************************************************)
(* The inductive invariant of LaunchEvents for aligned launches.  Launch   *)
(* numbers only grow, so "of this launch" is said by comparing numbers.    *)
(***************************************************************************)
EXTENDS LaunchEvents

\* A launch the state works for: under way and not blacklisted.
Active == UnderWay /\ ~IsBlacklisted(component_name)

\* Nothing recorded so far is newer than the launch, and nothing but what is
\* being collected belongs to a launch that is still under way.
LaunchInv ==
    /\ ~ready => last_event_type = "Uninitialized"
    /\ UnderWay => launch > 0 /\ component_name # Unset
    /\ \A k \in DOMAIN chains : chains[k].launch <= launch
    /\ \A t \in DOMAIN traces : traces[t].launch <= launch
    /\ \A h \in DOMAIN histories : histories[h].launch <= launch
    /\ UnderWay => \A h \in DOMAIN histories : histories[h].launch < launch
    /\ last_event_type = "IntentStarted" /\ ~is_tracing
         => \A t \in DOMAIN traces : traces[t].launch < launch

\* Chains are made once per launch; the one with a subscriber is the last and
\* is open; one that ended with an id ended with the id of its launch's row.
ChainInv ==
    /\ observable \in {0, Len(chains)}
    /\ subscriber # 0 => subscriber = observable /\ chains[subscriber].status = "open"
    /\ Active => subscriber # 0 /\ chains[subscriber].launch = launch
    /\ \A j, k \in DOMAIN chains : j < k => chains[j].launch < chains[k].launch
    /\ \A k \in DOMAIN chains : chains[k].status = "id" =>
          /\ chains[k].history \in DOMAIN histories
          /\ histories[chains[k].history].launch = chains[k].launch

\* Only an active launch is collected, by one means, and what collects it is
\* its own.
CollectInv ==
    /\ is_tracing =>
         /\ Active
         /\ rx_lifetime # 0
         /\ traces[rx_lifetime].launch = launch
         /\ read_ahead_task = 0
    /\ ~is_tracing => rx_lifetime = 0
    /\ read_ahead_task # 0 => Active /\ read_ahead_task = launch
    /\ is_tracing \/ read_ahead_task # 0 => component_name # NoComponent
    /\ sessions = IF read_ahead_task = 0 THEN {} ELSE {read_ahead_task}

\* Each stream reads the chain of its launch; no launch has two streams; a
\* stream that still runs is the current one or its chain has ended, with an
\* id only if the row says that the launch was traced.
TraceInv ==
    /\ \A t \in DOMAIN traces :
         /\ traces[t].chain \in DOMAIN chains
         /\ Chain(t).launch = traces[t].launch
    /\ \A t, u \in DOMAIN traces : t < u => traces[t].launch < traces[u].launch
    /\ \A t \in DOMAIN traces : Streaming(t) =>
         \/ is_tracing /\ t = rx_lifetime
         \/ Chain(t).status = "error"
         \/ Chain(t).status = "id" /\ histories[Chain(t).history].trace_enabled
    /\ \A r \in raw_traces :
         /\ r.trace \in DOMAIN traces
         /\ traces[r.trace].status = "saved"
         /\ Chain(r.trace).status = "id"
         /\ Chain(r.trace).history = r.history
         /\ histories[r.history].trace_enabled
    /\ \A r, q \in raw_traces : r.trace = q.trace => r = q

\* The fields a row is made from are those of the active launch.
FieldInv ==
    /\ Active /\ launch \notin Unstamped => intent_started = launch
    /\ Active /\ last_event_type = "ActivityLaunched" /\ launch \notin Titled =>
         /\ temperature.launch = launch
         /\ is_tracing \/ read_ahead_task # 0 => temperature.cold
    /\ recent_history # 0 /\ last_event_type = "ActivityLaunchFinished"
         /\ ~IsBlacklisted(component_name)
         => histories[recent_history].launch = launch

RowInv == OneCollector /\ FullyDrawnOfItsLaunch /\ RowOfOneLaunch /\ CollectedIsCold

\* What the handlers rely on from one event to the next.
StateInv ==
    /\ TypeOK
    /\ LaunchInv
    /\ ChainInv
    /\ CollectInv
    /\ TraceInv
    /\ FieldInv
    /\ RowInv

\* A stream that still runs is the current one or was left in flight, not both.
FlightInv ==
    /\ is_tracing => rx_lifetime \notin rx_in_flight
    /\ \A t \in DOMAIN traces : Streaming(t) =>
         t \in rx_in_flight \/ (is_tracing /\ t = rx_lifetime)

\* The inductive invariant, for every aligned launch (AppLaunchEventState).
IInv == StateInv /\ FlightInv
=============================================================================
