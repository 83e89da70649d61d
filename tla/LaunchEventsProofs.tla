-------------------------- MODULE LaunchEventsProofs --------------------------
(***************************************************************************)
(* Proofs about LaunchEvents, for any components, blacklist and number of  *)
(* launches: type correctness of every behaviour, and, for aligned         *)
(* launches, the inductive invariant, the safety properties that follow    *)
(* from it and the refinement of LaunchProtocol.                           *)
(***************************************************************************)
EXTENDS LaunchEventsInv, FiniteSetTheorems, TLAPS

-----------------------------------------------------------------------------
(* Sequences: what appending and replacing an element do *)

\* Appending adds one element at the end and changes no other.
LEMMA AppendProperties ==
    ASSUME NEW S, NEW s \in Seq(S), NEW e \in S
    PROVE  /\ Append(s, e) \in Seq(S)
           /\ Len(Append(s, e)) = Len(s) + 1
           /\ Len(s) \in Nat
           /\ DOMAIN s = 1 .. Len(s)
           /\ DOMAIN Append(s, e) = 1 .. (Len(s) + 1)
           /\ \A i \in 1 .. Len(s) : Append(s, e)[i] = s[i]
           /\ Append(s, e)[Len(s) + 1] = e
  OBVIOUS

\* The empty sequence is a sequence over any set and has no index.
LEMMA EmptyProperties ==
    ASSUME NEW S
    PROVE  <<>> \in Seq(S) /\ DOMAIN <<>> = {}
  OBVIOUS

\* The elements of a sequence over S are in S.
LEMMA ElementProperties ==
    ASSUME NEW S, NEW s \in Seq(S), NEW k \in DOMAIN s
    PROVE  s[k] \in S
  OBVIOUS

\* Replacing an element keeps the length and every other element.
LEMMA ReplaceProperties ==
    ASSUME NEW S, NEW s \in Seq(S), NEW k \in DOMAIN s, NEW e \in S
    PROVE  /\ [s EXCEPT ![k] = e][k] = e
           /\ \A i \in DOMAIN s : i # k => [s EXCEPT ![k] = e][i] = s[i]
           /\ [s EXCEPT ![k] = e] \in Seq(S)
           /\ Len([s EXCEPT ![k] = e]) = Len(s)
           /\ DOMAIN [s EXCEPT ![k] = e] = DOMAIN s
           /\ DOMAIN s = 1 .. Len(s)
  OBVIOUS

-----------------------------------------------------------------------------
(* Type correctness, one lemma per group of handlers *)

\* What the defender answers is an event type or a rejection.
LEMMA DefendType ==
    ASSUME NEW last, NEW type \in EventTypes
    PROVE  Defend(last, type) \in EventTypes \cup {"Uninitialized"}
  BY DEF Defend, EventTypes

\* Starting a read-ahead or a trace keeps the collector well typed.
LEMMA StartCollectingType ==
    ASSUME CollectorTypeOK, launch' \in Nat, NEW c \in Components, NEW chain \in Nat,
           StartCollecting(c, chain)
    PROVE  /\ CollectorTypeOK'
           /\ \A t \in DOMAIN traces' :
                \/ t \in DOMAIN traces /\ traces'[t] = traces[t]
                \/ traces'[t].chain = chain
<1>1. PICK begin \in BOOLEAN, trace \in BOOLEAN, version_known \in BOOLEAN :
         /\ read_ahead_task' = IF begin THEN launch' ELSE read_ahead_task
         /\ sessions' = IF begin THEN sessions \cup {launch'} ELSE sessions
         /\ IF trace THEN StartTracing(c, chain, version_known)
            ELSE UNCHANGED <<is_tracing, rx_lifetime, traces>>
         /\ UNCHANGED rx_in_flight
  BY DEF StartCollecting
<1>2. read_ahead_task' \in Nat /\ sessions' \subseteq Nat
  BY <1>1 DEF CollectorTypeOK
<1>3. /\ traces' \in Seq(Trace)
      /\ DOMAIN traces \subseteq DOMAIN traces'
      /\ rx_lifetime' \in {0} \cup DOMAIN traces'
      /\ is_tracing' \in BOOLEAN
      /\ \A t \in DOMAIN traces' :
           \/ t \in DOMAIN traces /\ traces'[t] = traces[t]
           \/ traces'[t].chain = chain
  <2>1. CASE trace /\ version_known
    <3> DEFINE new == [component |-> c, chain |-> chain, launch |-> launch',
                       status |-> "collecting"]
    <3>1. new \in Trace
      BY DEF Trace
    <3>2. traces' = Append(traces, new) /\ rx_lifetime' = Len(traces) + 1 /\ is_tracing' = TRUE
      BY <1>1, <2>1 DEF StartTracing
    <3>3. traces \in Seq(Trace) /\ new.chain = chain
      BY DEF CollectorTypeOK
    <3> HIDE DEF new
    <3>4. QED
      BY <3>1, <3>2, <3>3, AppendProperties
  <2>2. CASE ~(trace /\ version_known)
    BY <1>1, <2>2 DEF StartTracing, CollectorTypeOK
  <2>3. QED
    BY <2>1, <2>2
<1>4. QED
  BY <1>1, <1>2, <1>3 DEF CollectorTypeOK

\* Dropping an unsaved stream keeps the table of streams well typed.
LEMMA UnsubscribedType ==
    ASSUME traces \in Seq(Trace), NEW t
    PROVE  /\ Unsubscribed(t) \in Seq(Trace)
           /\ DOMAIN Unsubscribed(t) = DOMAIN traces
           /\ \A u \in DOMAIN traces :
                /\ Unsubscribed(t)[u].chain = traces[u].chain
                /\ Unsubscribed(t)[u].launch = traces[u].launch
<1>1. CASE Unsubscribed(t) = traces
  BY <1>1
<1>2. CASE Unsubscribed(t) # traces
  <2> DEFINE dropped == [traces[t] EXCEPT !.status = "dropped"]
  <2>1. t \in DOMAIN traces /\ Unsubscribed(t) = [traces EXCEPT ![t] = dropped]
    BY <1>2 DEF Unsubscribed
  <2>a. traces[t] \in Trace
    BY <2>1, ElementProperties
  <2>2. dropped \in Trace
    BY <2>1, <2>a DEF Trace
  <2>3. dropped.chain = traces[t].chain /\ dropped.launch = traces[t].launch
    BY <2>1, <2>a DEF Trace
  <2> HIDE DEF dropped
  <2>4. QED
    BY <2>1, <2>2, <2>3, ReplaceProperties
<1>3. QED
  BY <1>1, <1>2

\* So does ending a collection, in each of the three ways.
LEMMA StopCollectingType ==
    ASSUME CollectorTypeOK, AbortTrace \/ MarkPendingTrace, FinishReadAhead
    PROVE  /\ CollectorTypeOK'
           /\ DOMAIN traces' = DOMAIN traces
           /\ \A t \in DOMAIN traces : traces'[t].chain = traces[t].chain
<1>1. CASE AbortTrace
  BY <1>1, UnsubscribedType DEF CollectorTypeOK, AbortTrace, FinishReadAhead, IsTracing
<1>2. CASE MarkPendingTrace
  BY <1>2 DEF CollectorTypeOK, MarkPendingTrace, FinishReadAhead, IsTracing
<1>3. QED
  BY <1>1, <1>2

\* Recording the launch keeps the chains and the table of rows well typed.
LEMMA RecordType ==
    ASSUME RecordTypeOK, FieldTypeOK, CollectorTypeOK, launch \in Nat, total_time' \in Nat,
           RecordDbLaunchHistory
    PROVE  RecordTypeOK' /\ DOMAIN chains' = DOMAIN chains
<1>1. PICK inserted \in BOOLEAN :
         /\ inserted => component_name # Unset
         /\ InsertDbLaunchHistory(inserted)
         /\ IF subscriber = 0
            THEN UNCHANGED <<chains, recent_history, subscriber>>
            ELSE LET id == IF inserted THEN Len(histories) + 1 ELSE 0
                 IN  /\ chains' = [chains EXCEPT
                                     ![subscriber].status = IF inserted THEN "id" ELSE "error",
                                     ![subscriber].history = id]
                     /\ recent_history' = id
                     /\ subscriber' = 0
         /\ UNCHANGED observable
  BY DEF RecordDbLaunchHistory
<1>2. /\ histories' \in Seq(HistoryRow)
      /\ DOMAIN histories \subseteq DOMAIN histories'
      /\ inserted => Len(histories) + 1 \in DOMAIN histories'
  <2> DEFINE row ==
        [component |-> component_name, temperature |-> temperature,
         trace_enabled |-> IsTracing, readahead_enabled |-> IsReadAhead,
         intent_started |-> intent_started, total_time |-> total_time',
         fully_drawn |-> 0, launch |-> launch]
  <2>1. inserted => row \in HistoryRow
    BY <1>1 DEF FieldTypeOK, CollectorTypeOK, HistoryRow, IsTracing, IsReadAhead
  <2>2. histories' = IF inserted THEN Append(histories, row) ELSE histories
    BY <1>1 DEF InsertDbLaunchHistory
  <2>3. histories \in Seq(HistoryRow)
    BY DEF RecordTypeOK
  <2> HIDE DEF row
  <2>4. QED
    BY <2>1, <2>2, <2>3, AppendProperties
<1>3. CASE subscriber = 0
  BY <1>1, <1>2, <1>3 DEF RecordTypeOK
<1>4. CASE subscriber # 0
  <2>1. /\ chains' \in Seq(HistoryIdChain)
        /\ DOMAIN chains' = DOMAIN chains
    <3> DEFINE id == IF inserted THEN Len(histories) + 1 ELSE 0
               ended == [chains[subscriber] EXCEPT
                           !.status = IF inserted THEN "id" ELSE "error", !.history = id]
    <3>1. chains' = [chains EXCEPT ![subscriber] = ended]
      BY <1>1, <1>4 DEF RecordTypeOK
    <3>2. chains \in Seq(HistoryIdChain) /\ subscriber \in DOMAIN chains
      BY <1>4 DEF RecordTypeOK
    <3>3. ended \in HistoryIdChain
      <4>1. chains[subscriber] \in HistoryIdChain /\ id \in Nat
        BY <3>2, ElementProperties, AppendProperties DEF RecordTypeOK
      <4>2. QED
        BY <4>1 DEF HistoryIdChain
    <3> HIDE DEF ended
    <3>4. QED
      BY <3>1, <3>2, <3>3, ReplaceProperties
  <2>2. QED
    BY <1>1, <1>2, <1>4, <2>1 DEF RecordTypeOK
<1>5. QED
  BY <1>3, <1>4

\* Every event handler preserves the types.
LEMMA OnNewEventType ==
    ASSUME TypeOK, launch' \in Nat, NEW type, OnNewEvent(type)
    PROVE  /\ FieldTypeOK'
           /\ CollectorTypeOK'
           /\ RecordTypeOK'
           /\ ChainsOfTraces'
           /\ raw_traces' = raw_traces
<1> USE DEF TypeOK
<1>1. ASSUME NEW c \in Components \cup {NoComponent}, OnIntentStarted(c)
      PROVE  /\ FieldTypeOK' /\ CollectorTypeOK' /\ RecordTypeOK'
             /\ ChainsOfTraces' /\ raw_traces' = raw_traces
  <2>1. FieldTypeOK' /\ raw_traces' = raw_traces
    BY <1>1 DEF OnIntentStarted, FieldTypeOK
  <2>2. /\ RecordTypeOK'
        /\ DOMAIN chains \subseteq DOMAIN chains'
        /\ ~IsBlacklisted(c) => Len(chains) + 1 \in DOMAIN chains'
    <3>1. CASE IsBlacklisted(c)
      BY <1>1, <3>1 DEF OnIntentStarted, RecordTypeOK, recordVars
    <3>2. CASE ~IsBlacklisted(c)
      <4>1. /\ chains' = Append(chains, [launch |-> launch', status |-> "open", history |-> 0])
            /\ subscriber' = Len(chains) + 1
            /\ observable' = Len(chains) + 1
            /\ UNCHANGED <<recent_history, histories>>
        BY <1>1, <3>2 DEF OnIntentStarted
      <4>2. /\ chains' \in Seq(HistoryIdChain)
            /\ Len(chains) + 1 \in DOMAIN chains'
            /\ DOMAIN chains \subseteq DOMAIN chains'
        <5> DEFINE new == [launch |-> launch', status |-> "open", history |-> 0]
        <5>1. new \in HistoryIdChain /\ chains \in Seq(HistoryIdChain)
          BY DEF HistoryIdChain, RecordTypeOK
        <5>2. chains' = Append(chains, new)
          BY <4>1
        <5> HIDE DEF new
        <5>3. QED
          BY <5>1, <5>2, AppendProperties
      <4>3. QED
        BY <4>1, <4>2 DEF RecordTypeOK
    <3>3. QED
      BY <3>1, <3>2
  <2>3. CollectorTypeOK' /\ ChainsOfTraces'
    <3>1. CASE IsBlacklisted(c) \/ c = NoComponent
      BY <1>1, <2>2, <3>1 DEF OnIntentStarted, CollectorTypeOK, ChainsOfTraces, collectorVars
    <3>2. CASE ~(IsBlacklisted(c) \/ c = NoComponent)
      <4>1. c \in Components /\ StartCollecting(c, Len(chains) + 1)
        BY <1>1, <3>2 DEF OnIntentStarted
      <4>2. Len(chains) + 1 \in Nat
        BY DEF RecordTypeOK
      <4>3. /\ CollectorTypeOK'
            /\ \A t \in DOMAIN traces' :
                 \/ t \in DOMAIN traces /\ traces'[t] = traces[t]
                 \/ traces'[t].chain = Len(chains) + 1
        BY <4>1, <4>2, StartCollectingType
      <4>4. QED
        BY <2>2, <3>2, <4>3 DEF ChainsOfTraces
    <3>3. QED
      BY <3>1, <3>2
  <2>4. QED
    BY <2>1, <2>2, <2>3
<1>2. ASSUME OnIntentFailed
      PROVE  /\ FieldTypeOK' /\ CollectorTypeOK' /\ RecordTypeOK'
             /\ ChainsOfTraces' /\ raw_traces' = raw_traces
  <2>1. FieldTypeOK' /\ raw_traces' = raw_traces
    BY <1>2 DEF OnIntentFailed, FieldTypeOK, fieldVars
  <2>2. CASE IsBlacklisted(component_name)
    BY <1>2, <2>1, <2>2 DEF OnIntentFailed, RecordTypeOK, CollectorTypeOK, ChainsOfTraces,
                            recordVars, collectorVars
  <2>3. CASE ~IsBlacklisted(component_name)
    <3>1. /\ CollectorTypeOK'
          /\ DOMAIN traces' = DOMAIN traces
          /\ \A t \in DOMAIN traces : traces'[t].chain = traces[t].chain
      BY <1>2, <2>3, StopCollectingType DEF OnIntentFailed, AbortReadAhead
    <3>2. chains' \in Seq(HistoryIdChain) /\ DOMAIN chains' = DOMAIN chains
      <4>1. CASE subscriber = 0
        BY <1>2, <2>3, <4>1 DEF OnIntentFailed, RecordTypeOK
      <4>2. CASE subscriber # 0
        <5> DEFINE ended == [chains[subscriber] EXCEPT !.status = "error"]
        <5>1. chains' = [chains EXCEPT ![subscriber] = ended]
          BY <1>2, <2>3, <4>2 DEF OnIntentFailed
        <5>2. /\ chains \in Seq(HistoryIdChain) /\ subscriber \in DOMAIN chains
              /\ chains[subscriber] \in HistoryIdChain
          BY <4>2, ElementProperties DEF RecordTypeOK
        <5>3. ended \in HistoryIdChain
          BY <5>2 DEF HistoryIdChain
        <5> HIDE DEF ended
        <5>4. QED
          BY <5>1, <5>2, <5>3, ReplaceProperties
      <4>3. QED
        BY <4>1, <4>2
    <3>3. RecordTypeOK'
      BY <1>2, <2>3, <3>2 DEF OnIntentFailed, RecordTypeOK
    <3>4. QED
      BY <2>1, <3>1, <3>2, <3>3 DEF ChainsOfTraces
  <2>4. QED
    BY <2>2, <2>3
<1>3. ASSUME NEW c \in Components, NEW cold \in BOOLEAN,
             OnActivityLaunched(c, cold)
      PROVE  /\ FieldTypeOK' /\ CollectorTypeOK' /\ RecordTypeOK'
             /\ ChainsOfTraces' /\ raw_traces' = raw_traces
  <2>1. FieldTypeOK' /\ RecordTypeOK' /\ raw_traces' = raw_traces
    BY <1>3 DEF OnActivityLaunched, FieldTypeOK, RecordTypeOK, recordVars, Temperature,
                DefenderTypeOK
  <2>2. CollectorTypeOK' /\ ChainsOfTraces'
    <3> chains' = chains
      BY <1>3 DEF OnActivityLaunched, recordVars
    <3>1. CASE UNCHANGED collectorVars
      BY <3>1 DEF CollectorTypeOK, ChainsOfTraces, collectorVars
    <3>2. CASE AbortTrace /\ AbortReadAhead
      BY <3>2, StopCollectingType DEF AbortReadAhead, ChainsOfTraces
    <3>3. CASE StartCollecting(c, observable)
      <4>1. observable \in Nat /\ observable \in {0} \cup DOMAIN chains
        BY DEF RecordTypeOK
      <4>2. /\ CollectorTypeOK'
            /\ \A t \in DOMAIN traces' :
                 \/ t \in DOMAIN traces /\ traces'[t] = traces[t]
                 \/ traces'[t].chain = observable
        BY <3>3, <4>1, StartCollectingType
      <4>3. QED
        BY <4>1, <4>2 DEF ChainsOfTraces
    <3>4. QED
      BY <1>3, <3>1, <3>2, <3>3 DEF OnActivityLaunched
  <2>3. QED
    BY <2>1, <2>2
<1>4. ASSUME OnActivityLaunchFinished
      PROVE  /\ FieldTypeOK' /\ CollectorTypeOK' /\ RecordTypeOK'
             /\ ChainsOfTraces' /\ raw_traces' = raw_traces
  <2>1. FieldTypeOK' /\ raw_traces' = raw_traces
    BY <1>4 DEF OnActivityLaunchFinished, FieldTypeOK, DefenderTypeOK
  <2>2. CASE IsBlacklisted(component_name)
    BY <1>4, <2>1, <2>2 DEF OnActivityLaunchFinished, RecordTypeOK, CollectorTypeOK,
                            ChainsOfTraces, recordVars, collectorVars
  <2>3. CASE ~IsBlacklisted(component_name)
    <3>1. /\ CollectorTypeOK'
          /\ DOMAIN traces' = DOMAIN traces
          /\ \A t \in DOMAIN traces : traces'[t].chain = traces[t].chain
      BY <1>4, <2>3, StopCollectingType DEF OnActivityLaunchFinished
    <3>2. RecordTypeOK' /\ DOMAIN chains' = DOMAIN chains
      BY <1>4, <2>1, <2>3, RecordType DEF OnActivityLaunchFinished, FieldTypeOK, DefenderTypeOK
    <3>3. QED
      BY <2>1, <3>1, <3>2 DEF ChainsOfTraces
  <2>4. QED
    BY <2>2, <2>3
<1>5. ASSUME OnActivityLaunchCancelled
      PROVE  /\ FieldTypeOK' /\ CollectorTypeOK' /\ RecordTypeOK'
             /\ ChainsOfTraces' /\ raw_traces' = raw_traces
  <2>1. FieldTypeOK' /\ RecordTypeOK' /\ raw_traces' = raw_traces
    BY <1>5 DEF OnActivityLaunchCancelled, FieldTypeOK, RecordTypeOK, fieldVars, recordVars
  <2>2. CollectorTypeOK' /\ ChainsOfTraces'
    <3> chains' = chains
      BY <1>5 DEF OnActivityLaunchCancelled, recordVars
    <3>1. CASE UNCHANGED collectorVars
      BY <3>1 DEF CollectorTypeOK, ChainsOfTraces, collectorVars
    <3>2. CASE AbortTrace /\ AbortReadAhead
      BY <3>2, StopCollectingType DEF AbortReadAhead, ChainsOfTraces
    <3>3. QED
      BY <1>5, <3>1, <3>2 DEF OnActivityLaunchCancelled
  <2>3. QED
    BY <2>1, <2>2
<1>6. ASSUME OnReportFullyDrawn
      PROVE  /\ FieldTypeOK' /\ CollectorTypeOK' /\ RecordTypeOK'
             /\ ChainsOfTraces' /\ raw_traces' = raw_traces
  <2>1. /\ FieldTypeOK' /\ CollectorTypeOK' /\ ChainsOfTraces'
        /\ raw_traces' = raw_traces
    BY <1>6 DEF OnReportFullyDrawn, FieldTypeOK, CollectorTypeOK, ChainsOfTraces, fieldVars,
                collectorVars
  <2>2. RecordTypeOK'
    <3>1. CASE IsBlacklisted(component_name) \/ recent_history = 0
      BY <1>6, <3>1 DEF OnReportFullyDrawn, RecordTypeOK
    <3>2. CASE ~(IsBlacklisted(component_name) \/ recent_history = 0)
      <4> DEFINE drawn == [histories[recent_history] EXCEPT !.fully_drawn = launch]
      <4>1. histories' = [histories EXCEPT ![recent_history] = drawn]
        BY <1>6, <3>2 DEF OnReportFullyDrawn, RecordTypeOK
      <4>2. histories \in Seq(HistoryRow) /\ recent_history \in DOMAIN histories
        BY <3>2 DEF RecordTypeOK
      <4>3. drawn \in HistoryRow
        <5>1. histories[recent_history] \in HistoryRow
          BY <4>2, ElementProperties
        <5>2. QED
          BY <5>1 DEF HistoryRow, DefenderTypeOK
      <4> HIDE DEF drawn
      <4>4. histories' \in Seq(HistoryRow) /\ DOMAIN histories' = DOMAIN histories
        BY <4>1, <4>2, <4>3, ReplaceProperties
      <4>5. QED
        BY <1>6, <3>2, <4>4 DEF OnReportFullyDrawn, RecordTypeOK
    <3>3. QED
      BY <3>1, <3>2
  <2>3. QED
    BY <2>1, <2>2
<1>7. ASSUME OnActivityTitle
      PROVE  /\ FieldTypeOK' /\ CollectorTypeOK' /\ RecordTypeOK'
             /\ ChainsOfTraces' /\ raw_traces' = raw_traces
  BY <1>7 DEF OnActivityTitle, stateVars, fieldVars, collectorVars, recordVars,
              FieldTypeOK, CollectorTypeOK, RecordTypeOK, ChainsOfTraces
<1>8. QED
  BY <1>1, <1>2, <1>3, <1>4, <1>5, <1>6, <1>7 DEF OnNewEvent

\* What becomes of a stream, on whichever thread, changes only its status and
\* the table of raw traces.
LEMMA TraceStepType ==
    ASSUME TypeOK, NEW t \in DOMAIN traces,
           TraceCollected(t) \/ TraceChainError(t) \/ TraceSaved(t)
    PROVE  /\ TypeOK'
           /\ DOMAIN traces' = DOMAIN traces
<1> USE DEF TypeOK
<1>1. PICK status \in {"have_proto", "dropped", "saved"} :
         traces' = [traces EXCEPT ![t].status = status]
  BY DEF TraceCollected, TraceChainError, TraceSaved
<1>2. /\ traces' \in Seq(Trace)
      /\ DOMAIN traces' = DOMAIN traces
      /\ \A u \in DOMAIN traces : traces'[u].chain \in {0} \cup DOMAIN chains
  <2> DEFINE moved == [traces[t] EXCEPT !.status = status]
  <2>1. traces \in Seq(Trace) /\ traces[t] \in Trace
    BY ElementProperties DEF CollectorTypeOK
  <2>2. /\ moved \in Trace
        /\ moved.chain = traces[t].chain
    BY <2>1 DEF Trace
  <2>3. traces' = [traces EXCEPT ![t] = moved]
    BY <1>1
  <2> HIDE DEF moved
  <2>4. QED
    BY <2>1, <2>2, <2>3, ReplaceProperties DEF ChainsOfTraces
<1>3. /\ UNCHANGED <<defenderVars, fieldVars, recordVars>>
      /\ UNCHANGED <<read_ahead_task, is_tracing, rx_lifetime, rx_in_flight, sessions>>
  BY DEF TraceCollected, TraceChainError, TraceSaved
<1>4. /\ DefenderTypeOK' /\ FieldTypeOK' /\ RecordTypeOK' /\ CollectorTypeOK'
      /\ ChainsOfTraces'
  BY <1>2, <1>3 DEF DefenderTypeOK, FieldTypeOK, RecordTypeOK, CollectorTypeOK,
                    ChainsOfTraces, defenderVars, fieldVars, recordVars
<1>5. raw_traces' \subseteq [id : Nat, history : Nat, trace : Nat]
  <2>1. CASE raw_traces' = raw_traces
    BY <2>1
  <2>2. CASE raw_traces' # raw_traces
    <3> DEFINE new == [id |-> NextRawTraceId, history |-> Chain(t).history, trace |-> t]
    <3>1. /\ raw_traces' = DeleteOlderFiles(raw_traces \cup {new}, traces[t].component)
          /\ traces[t].chain # 0 /\ Chain(t).status = "id"
          /\ TraceSaved(t)
      BY <2>2 DEF TraceCollected, TraceChainError, TraceSaved
    <3>2. NextRawTraceId \in Nat
      <4>1. IsFiniteSet(DOMAIN traces)
        BY FS_Interval, AppendProperties DEF CollectorTypeOK
      <4>2. IsFiniteSet({u \in DOMAIN traces : traces[u].status = "saved"})
        BY <4>1, FS_Subset
      <4>3. QED
        BY <4>2, FS_CardinalityType DEF NextRawTraceId
    <3>3. Chain(t).history \in Nat
      <4>1. traces[t].chain \in DOMAIN chains
        BY <3>1 DEF ChainsOfTraces
      <4>2. Chain(t) \in HistoryIdChain
        BY <4>1, ElementProperties DEF Chain, RecordTypeOK
      <4>3. QED
        BY <4>2 DEF HistoryIdChain
    <3>4. t \in Nat
      BY AppendProperties DEF CollectorTypeOK
    <3>5. new \in [id : Nat, history : Nat, trace : Nat]
      BY <3>2, <3>3, <3>4
    <3> HIDE DEF new
    <3>6. QED
      BY <3>1, <3>5 DEF DeleteOlderFiles
  <2>3. QED
    BY <2>1, <2>2
<1>6. QED
  BY <1>2, <1>4, <1>5

\* A restart keeps the number of streams and what they are.
LEMMA RestartType ==
    ASSUME TypeOK, Restart
    PROVE  TypeOK'
<1> USE DEF TypeOK
<1>1. /\ DefenderTypeOK' /\ FieldTypeOK' /\ RecordTypeOK'
      /\ raw_traces' \subseteq [id : Nat, history : Nat, trace : Nat]
  BY ComponentsAssumption, BoundsAssumption
     DEF Restart, DefenderTypeOK, FieldTypeOK, RecordTypeOK, NoTemperature, Temperature
<1>2. /\ traces' \in Seq(Trace)
      /\ DOMAIN traces' = DOMAIN traces
      /\ \A t \in DOMAIN traces : traces'[t].chain = traces[t].chain
  <2> DEFINE kept(t) == [traces[t] EXCEPT !.status = IF @ = "saved" THEN "saved" ELSE "dropped"]
  <2>1. traces \in Seq(Trace) /\ DOMAIN traces = 1 .. Len(traces) /\ Len(traces) \in Nat
    BY DEF CollectorTypeOK
  <2>2. ASSUME NEW t \in DOMAIN traces
        PROVE  kept(t) \in Trace /\ kept(t).chain = traces[t].chain
    <3>1. traces[t] \in Trace
      BY <2>1, ElementProperties
    <3>2. QED
      BY <3>1 DEF Trace
  <2>3. traces' = [t \in 1 .. Len(traces) |-> kept(t)]
    BY <2>1 DEF Restart
  <2> HIDE DEF kept
  <2>4. QED
    BY <2>1, <2>2, <2>3
<1>3. CollectorTypeOK' /\ ChainsOfTraces'
  BY <1>2 DEF Restart, CollectorTypeOK, ChainsOfTraces
<1>4. QED
  BY <1>1, <1>3

\* Every behaviour of the launch state machine is well typed, whatever events
\* arrive: in particular ids kept by the state always name existing rows,
\* chains and streams (recent_history_id_, history_id_subscriber_).
THEOREM TypeCorrect == Spec => []TypeOK
<1>1. Init => TypeOK
  <2> SUFFICES ASSUME Init
               PROVE  TypeOK
    OBVIOUS
  <2>1. DefenderTypeOK
    BY BoundsAssumption DEF Init, DefenderTypeOK
  <2>2. FieldTypeOK
    BY DEF Init, FieldTypeOK, NoTemperature, Temperature
  <2>3. CollectorTypeOK /\ RecordTypeOK /\ ChainsOfTraces
    <3>1. /\ traces = <<>> /\ chains = <<>> /\ histories = <<>> /\ DOMAIN traces = {}
          /\ subscriber = 0 /\ observable = 0 /\ recent_history = 0 /\ rx_lifetime = 0
          /\ is_tracing = FALSE /\ read_ahead_task = 0 /\ rx_in_flight = {} /\ sessions = {}
      BY EmptyProperties DEF Init
    <3>2. CollectorTypeOK
      BY <3>1, EmptyProperties DEF CollectorTypeOK
    <3>3. RecordTypeOK
      BY <3>1, EmptyProperties DEF RecordTypeOK
    <3>4. ChainsOfTraces
      BY <3>1 DEF ChainsOfTraces
    <3>5. QED
      BY <3>2, <3>3, <3>4
  <2>4. QED
    BY <2>1, <2>2, <2>3 DEF Init, TypeOK
<1>2. TypeOK /\ [Next]_vars => TypeOK'
  <2> SUFFICES ASSUME TypeOK, [Next]_vars
               PROVE  TypeOK'
    OBVIOUS
  <2>1. ASSUME NEW type \in EventTypes, OnAppLaunchEvent(type)
        PROVE  TypeOK'
    <3> DEFINE event == Defend(last_event_type, type)
    <3>1. /\ launch' \in Nat /\ last_event_type' = event /\ ready' = ready
      BY <2>1 DEF OnAppLaunchEvent, TypeOK, DefenderTypeOK
    <3>2. DefenderTypeOK'
      BY <3>1, DefendType DEF TypeOK, DefenderTypeOK
    <3>3. CASE UNCHANGED stateVars
      BY <3>2, <3>3 DEF TypeOK, stateVars, fieldVars, collectorVars, recordVars, FieldTypeOK,
                        CollectorTypeOK, RecordTypeOK, ChainsOfTraces
    <3>4. CASE OnNewEvent(event)
      BY <3>1, <3>2, <3>4, OnNewEventType DEF TypeOK
    <3>5. QED
      BY <2>1, <3>3, <3>4 DEF OnAppLaunchEvent
  <2>2. CASE Subscribe
    BY <2>2 DEF Subscribe, TypeOK, DefenderTypeOK, FieldTypeOK, CollectorTypeOK, RecordTypeOK,
                ChainsOfTraces, stateVars, fieldVars, collectorVars, recordVars
  <2>3. CASE TraceStep
    BY <2>3, TraceStepType DEF TraceStep
  <2>4. CASE Restart
    BY <2>4, RestartType
  <2>5. CASE UNCHANGED vars
    BY <2>5 DEF vars, defenderVars, TypeOK, DefenderTypeOK, FieldTypeOK, CollectorTypeOK,
                RecordTypeOK, ChainsOfTraces, stateVars, fieldVars, collectorVars, recordVars
  <2>6. QED
    BY <2>1, <2>2, <2>3, <2>4, <2>5 DEF Next
<1>3. QED
  BY <1>1, <1>2, PTL DEF Spec

-----------------------------------------------------------------------------
(* The inductive invariant.  The three frames say what every step leaves
   alone; under them the parts that a step does not touch carry over. *)

TraceFrame ==
    /\ DOMAIN traces' = DOMAIN traces
    /\ \A t \in DOMAIN traces :
         /\ traces'[t].chain = traces[t].chain
         /\ traces'[t].launch = traces[t].launch
         /\ traces[t].status = "saved" => traces'[t].status = "saved"

ChainFrame ==
    \A k \in DOMAIN chains :
       /\ k \in DOMAIN chains'
       /\ chains'[k].launch = chains[k].launch
       /\ chains[k].status # "open" => chains'[k] = chains[k]

RowFrame ==
    \A h \in DOMAIN histories :
       /\ h \in DOMAIN histories'
       /\ histories'[h].launch = histories[h].launch
       /\ histories'[h].trace_enabled = histories[h].trace_enabled

-----------------------------------------------------------------------------
(* The defender *)

\* Which event reaches the state, and from which state of the defender: the
\* protocol that ActivityMetricsLaunchObserver documents.
LEMMA DefendCases ==
    ASSUME DefenderTypeOK, NEW type \in EventTypes
    PROVE  LET event == Defend(last_event_type, type) IN
           \/ event = "Uninitialized" /\ ~UnderWay /\ type # "IntentStarted"
           \/ event = "IntentStarted" /\ ~UnderWay /\ type = event
           \/ event = "IntentFailed" /\ last_event_type = "IntentStarted"
           \/ event = "ActivityLaunched" /\ last_event_type = "IntentStarted" /\ type = event
           \/ event = "ActivityLaunchFinished" /\ last_event_type = "ActivityLaunched"
                /\ type = event
           \/ event = "ActivityLaunchCancelled" /\ last_event_type = "ActivityLaunched"
           \/ event = "ReportFullyDrawn" /\ last_event_type = "ActivityLaunchFinished"
                /\ type = event
  BY DEF DefenderTypeOK, EventTypes, Defend, Legal, UnderWay

-----------------------------------------------------------------------------
(* What collecting does *)

\* From a state that collects nothing, StartCollecting ends in one of three
\* ways: nothing, a read-ahead, or a trace that reads the given chain.
LEMMA StartCollectingCases ==
    ASSUME TypeOK, CollectInv, ~is_tracing, read_ahead_task = 0, launch' \in Nat \ {0},
           NEW c \in Components, NEW chain \in Nat, StartCollecting(c, chain)
    PROVE  /\ rx_in_flight' = rx_in_flight
           /\ sessions' = IF read_ahead_task' = 0 THEN {} ELSE {read_ahead_task'}
           /\ \/ /\ traces' = traces
                 /\ is_tracing' = FALSE
                 /\ rx_lifetime' = 0
                 /\ read_ahead_task' \in {0, launch'}
              \/ /\ traces' = Append(traces, [component |-> c, chain |-> chain,
                                              launch |-> launch', status |-> "collecting"])
                 /\ is_tracing' = TRUE
                 /\ rx_lifetime' = Len(traces) + 1
                 /\ read_ahead_task' = 0
<1>1. PICK begin \in BOOLEAN, trace \in BOOLEAN, version_known \in BOOLEAN :
         /\ read_ahead_task' = IF begin THEN launch' ELSE read_ahead_task
         /\ sessions' = IF begin THEN sessions \cup {launch'} ELSE sessions
         /\ trace => read_ahead_task' = 0
         /\ IF trace THEN StartTracing(c, chain, version_known)
            ELSE UNCHANGED <<is_tracing, rx_lifetime, traces>>
         /\ UNCHANGED rx_in_flight
  BY DEF StartCollecting
<1>2. sessions = {} /\ rx_lifetime = 0 /\ is_tracing = FALSE
  BY DEF CollectInv, TypeOK, CollectorTypeOK
<1>3. CASE trace /\ version_known
  BY <1>1, <1>2, <1>3 DEF StartTracing
<1>4. CASE ~(trace /\ version_known)
  BY <1>1, <1>2, <1>4 DEF StartTracing
<1>5. QED
  BY <1>3, <1>4

\* Ending a collection leaves nothing collecting.
LEMMA StopCollectingReleases ==
    ASSUME TypeOK, CollectInv, AbortTrace \/ MarkPendingTrace, FinishReadAhead
    PROVE  /\ is_tracing' = FALSE
           /\ rx_lifetime' = 0
           /\ read_ahead_task' = 0
           /\ sessions' = {}
  BY DEF AbortTrace, MarkPendingTrace, FinishReadAhead, CollectInv, IsTracing, TypeOK,
         CollectorTypeOK

\* Aborting drops the stream of the current launch and touches no other.
LEMMA AbortDrops ==
    ASSUME TypeOK, CollectInv, AbortTrace
    PROVE  /\ TraceFrame
           /\ \A t \in DOMAIN traces :
                traces'[t].status \in {"collecting", "have_proto"} =>
                  /\ Streaming(t)
                  /\ ~(is_tracing /\ t = rx_lifetime)
<1>1. CASE ~is_tracing
  BY <1>1 DEF AbortTrace, IsTracing, TraceFrame, Streaming
<1>2. CASE is_tracing
  <2>1. /\ rx_lifetime \in DOMAIN traces /\ traces' = Unsubscribed(rx_lifetime)
        /\ traces \in Seq(Trace)
        /\ traces[rx_lifetime] \in Trace
    BY <1>2, ElementProperties
       DEF AbortTrace, IsTracing, CollectInv, TypeOK, CollectorTypeOK
  <2>2. CASE ~Streaming(rx_lifetime)
    BY <2>1, <2>2 DEF Unsubscribed, Streaming, TraceFrame
  <2>3. CASE Streaming(rx_lifetime)
    <3> DEFINE dropped == [traces[rx_lifetime] EXCEPT !.status = "dropped"]
    <3>1. traces' = [traces EXCEPT ![rx_lifetime] = dropped]
      BY <2>1, <2>3 DEF Unsubscribed, Streaming
    <3>2. /\ dropped \in Trace
          /\ dropped.chain = traces[rx_lifetime].chain
          /\ dropped.launch = traces[rx_lifetime].launch
          /\ dropped.status = "dropped"
          /\ traces[rx_lifetime].status # "saved"
      BY <2>1, <2>3 DEF Trace, Streaming
    <3> HIDE DEF dropped
    <3>3. /\ traces'[rx_lifetime] = dropped
          /\ \A t \in DOMAIN traces : t # rx_lifetime => traces'[t] = traces[t]
          /\ DOMAIN traces' = DOMAIN traces
      BY <2>1, <3>1, <3>2, ReplaceProperties
    <3>4. QED
      BY <3>2, <3>3 DEF TraceFrame, Streaming
  <2>4. QED
    BY <2>2, <2>3
<1>3. QED
  BY <1>1, <1>2

-----------------------------------------------------------------------------
(* TraceInv under the frames *)

\* No new stream: it is enough that each stream that still runs is not the
\* current one any more, or is still current, or has its chain ended well.
LEMMA TraceInvSame ==
    ASSUME TypeOK, TypeOK', ChainInv, TraceInv, TraceFrame, ChainFrame, RowFrame,
           raw_traces' = raw_traces,
           \A t \in DOMAIN traces : Streaming(t)' =>
              /\ Streaming(t)
              /\ \/ ~(is_tracing /\ t = rx_lifetime)
                 \/ is_tracing' /\ t = rx_lifetime'
                 \/ Chain(t)'.status = "error"
                 \/ Chain(t)'.status = "id" /\ histories'[Chain(t)'.history].trace_enabled
    PROVE  TraceInv'
<1>1. \A t \in DOMAIN traces' :
         /\ traces'[t].chain \in DOMAIN chains'
         /\ Chain(t)'.launch = traces'[t].launch
  BY DEF TraceInv, TraceFrame, ChainFrame, Chain
<1>2. \A t, u \in DOMAIN traces' : t < u => traces'[t].launch < traces'[u].launch
  BY DEF TraceInv, TraceFrame
<1>3. \A t \in DOMAIN traces : Chain(t).status # "open" => Chain(t)' = Chain(t)
  BY DEF TraceInv, TraceFrame, ChainFrame, Chain
<1>4. \A t \in DOMAIN traces : Chain(t).status = "id" => Chain(t).history \in DOMAIN histories
  BY DEF ChainInv, TraceInv, Chain
<1>5. ASSUME NEW t \in DOMAIN traces', Streaming(t)'
      PROVE  \/ is_tracing' /\ t = rx_lifetime'
             \/ Chain(t)'.status = "error"
             \/ Chain(t)'.status = "id" /\ histories'[Chain(t)'.history].trace_enabled
  <2>1. t \in DOMAIN traces /\ Streaming(t)
    BY <1>5 DEF TraceFrame
  <2>2. CASE ~(is_tracing /\ t = rx_lifetime)
    <3>1. CASE Chain(t).status = "error"
      BY <1>3, <2>1, <3>1
    <3>2. CASE Chain(t).status = "id" /\ histories[Chain(t).history].trace_enabled
      BY <1>3, <1>4, <2>1, <3>2 DEF RowFrame
    <3>3. QED
      BY <2>1, <2>2, <3>1, <3>2 DEF TraceInv
  <2>3. QED
    BY <1>5, <2>1, <2>2
<1>6. ASSUME NEW r \in raw_traces'
      PROVE  /\ r.trace \in DOMAIN traces'
             /\ traces'[r.trace].status = "saved"
             /\ Chain(r.trace)'.status = "id"
             /\ Chain(r.trace)'.history = r.history
             /\ histories'[r.history].trace_enabled
  BY <1>3, <1>4, <1>6 DEF TraceInv, TraceFrame, RowFrame
<1>7. \A r, q \in raw_traces' : r.trace = q.trace => r = q
  BY DEF TraceInv
<1>8. QED
  BY <1>1, <1>2, <1>5, <1>6, <1>7 DEF TraceInv

\* A new stream that is the current one and newer than every other.
LEMMA TraceInvAppend ==
    ASSUME TypeOK, TypeOK', ChainInv, TraceInv, ChainFrame, RowFrame,
           raw_traces' = raw_traces, ~is_tracing,
           NEW new \in Trace, traces' = Append(traces, new),
           is_tracing', rx_lifetime' = Len(traces) + 1,
           new.chain \in DOMAIN chains', chains'[new.chain].launch = new.launch,
           \A t \in DOMAIN traces : traces[t].launch < new.launch
    PROVE  TraceInv'
<1>1. /\ DOMAIN traces' = 1 .. (Len(traces) + 1)
      /\ DOMAIN traces = 1 .. Len(traces)
      /\ Len(traces) \in Nat
      /\ traces'[Len(traces) + 1] = new
      /\ \A t \in DOMAIN traces : traces'[t] = traces[t]
  BY AppendProperties DEF TypeOK, CollectorTypeOK
<1>2. \A t \in DOMAIN traces' : t \in DOMAIN traces \/ t = Len(traces) + 1
  BY <1>1
<1>3. \A t \in DOMAIN traces' :
         /\ traces'[t].chain \in DOMAIN chains'
         /\ Chain(t)'.launch = traces'[t].launch
  BY <1>1, <1>2 DEF TraceInv, ChainFrame, Chain
<1>4. \A t, u \in DOMAIN traces' : t < u => traces'[t].launch < traces'[u].launch
  BY <1>1, <1>2 DEF TraceInv
<1>5. \A t \in DOMAIN traces : Chain(t).status # "open" => Chain(t)' = Chain(t)
  BY <1>1 DEF TraceInv, ChainFrame, Chain
<1>6. \A t \in DOMAIN traces : Chain(t).status = "id" => Chain(t).history \in DOMAIN histories
  BY DEF ChainInv, TraceInv, Chain
<1>7. ASSUME NEW t \in DOMAIN traces', Streaming(t)'
      PROVE  \/ is_tracing' /\ t = rx_lifetime'
             \/ Chain(t)'.status = "error"
             \/ Chain(t)'.status = "id" /\ histories'[Chain(t)'.history].trace_enabled
  <2>1. CASE t = Len(traces) + 1
    BY <2>1
  <2>2. CASE t \in DOMAIN traces
    <3>1. Streaming(t)
      BY <1>1, <1>7, <2>2 DEF Streaming
    <3>2. CASE Chain(t).status = "error"
      BY <1>5, <2>2, <3>2
    <3>3. CASE Chain(t).status = "id" /\ histories[Chain(t).history].trace_enabled
      BY <1>5, <1>6, <2>2, <3>3 DEF RowFrame
    <3>4. QED
      BY <2>2, <3>1, <3>2, <3>3 DEF TraceInv
  <2>3. QED
    BY <1>2, <2>1, <2>2
<1>8. ASSUME NEW r \in raw_traces'
      PROVE  /\ r.trace \in DOMAIN traces'
             /\ traces'[r.trace].status = "saved"
             /\ Chain(r.trace)'.status = "id"
             /\ Chain(r.trace)'.history = r.history
             /\ histories'[r.history].trace_enabled
  BY <1>1, <1>5, <1>6, <1>8 DEF TraceInv, RowFrame
<1>9. \A r, q \in raw_traces' : r.trace = q.trace => r = q
  BY DEF TraceInv
<1>10. QED
  BY <1>3, <1>4, <1>7, <1>8, <1>9 DEF TraceInv

-----------------------------------------------------------------------------
(* Recording the launch *)

\* With a subscriber the chain of the launch ends: with an error, or with the
\* id of a new row made of the state's fields.
LEMMA RecordCases ==
    ASSUME TypeOK, TypeOK', subscriber # 0, RecordDbLaunchHistory
    PROVE  /\ subscriber' = 0
           /\ observable' = observable
           /\ DOMAIN chains' = DOMAIN chains
           /\ Len(chains') = Len(chains)
           /\ \A k \in DOMAIN chains :
                /\ chains'[k].launch = chains[k].launch
                /\ k # subscriber => chains'[k] = chains[k]
           /\ \/ /\ histories' = histories
                 /\ recent_history' = 0
                 /\ chains'[subscriber].status = "error"
              \/ /\ DOMAIN histories' = DOMAIN histories \cup {recent_history'}
                 /\ \A h \in DOMAIN histories :
                       h # recent_history' /\ histories'[h] = histories[h]
                 /\ chains'[subscriber].status = "id"
                 /\ chains'[subscriber].history = recent_history'
                 /\ histories'[recent_history'] =
                      [component |-> component_name, temperature |-> temperature,
                       trace_enabled |-> IsTracing, readahead_enabled |-> IsReadAhead,
                       intent_started |-> intent_started, total_time |-> total_time',
                       fully_drawn |-> 0, launch |-> launch]
<1> DEFINE row == [component |-> component_name, temperature |-> temperature,
                   trace_enabled |-> IsTracing, readahead_enabled |-> IsReadAhead,
                   intent_started |-> intent_started, total_time |-> total_time',
                   fully_drawn |-> 0, launch |-> launch]
<1>1. PICK inserted \in BOOLEAN :
         /\ inserted => component_name # Unset
         /\ histories' = IF inserted THEN Append(histories, row) ELSE histories
         /\ chains' = [chains EXCEPT ![subscriber].status = IF inserted THEN "id" ELSE "error",
                                     ![subscriber].history =
                                       IF inserted THEN Len(histories) + 1 ELSE 0]
         /\ recent_history' = IF inserted THEN Len(histories) + 1 ELSE 0
         /\ subscriber' = 0
         /\ observable' = observable
  BY DEF RecordDbLaunchHistory, InsertDbLaunchHistory
<1> DEFINE ended == [chains[subscriber] EXCEPT !.status = IF inserted THEN "id" ELSE "error",
                                               !.history = recent_history']
<1>2. /\ chains \in Seq(HistoryIdChain) /\ subscriber \in DOMAIN chains
      /\ histories \in Seq(HistoryRow)
      /\ chains[subscriber] \in HistoryIdChain
      /\ recent_history' \in Nat
  BY <1>1, ElementProperties, AppendProperties DEF TypeOK, RecordTypeOK
<1>3. chains' = [chains EXCEPT ![subscriber] = ended]
  BY <1>1, <1>2
<1>4. /\ ended \in HistoryIdChain
      /\ ended.launch = chains[subscriber].launch
      /\ ended.status = IF inserted THEN "id" ELSE "error"
      /\ ended.history = recent_history'
  BY <1>2 DEF HistoryIdChain
<1>5. inserted => row \in HistoryRow
  BY <1>1 DEF TypeOK, FieldTypeOK, CollectorTypeOK, DefenderTypeOK, HistoryRow, IsTracing,
              IsReadAhead
<1> HIDE DEF ended, row
<1>6. /\ DOMAIN chains' = DOMAIN chains
      /\ Len(chains') = Len(chains)
      /\ chains'[subscriber] = ended
      /\ \A k \in DOMAIN chains : k # subscriber => chains'[k] = chains[k]
  BY <1>2, <1>3, <1>4, ReplaceProperties
<1>7. CASE inserted
  <2>1. /\ DOMAIN histories' = DOMAIN histories \cup {recent_history'}
        /\ \A h \in DOMAIN histories :
             h # recent_history' /\ histories'[h] = histories[h]
        /\ histories'[recent_history'] = row
    BY <1>1, <1>2, <1>5, <1>7, AppendProperties
  <2>2. QED
    BY <1>1, <1>4, <1>6, <1>7, <2>1 DEF row
<1>8. CASE ~inserted
  BY <1>1, <1>4, <1>6, <1>8
<1>9. QED
  BY <1>7, <1>8

-----------------------------------------------------------------------------
(* The invariant, one lemma per handler *)

\* Nothing but the defender moves, and not into a launch.
LEMMA InvCarried ==
    ASSUME StateInv, TypeOK', UNCHANGED <<launch, stateVars>>,
           \/ last_event_type' = last_event_type /\ (ready' = ready \/ ready')
           \/ last_event_type' = "Uninitialized" /\ ready' = ready /\ ~UnderWay
    PROVE  StateInv'
<1>1. LaunchInv' /\ ChainInv'
  BY DEF StateInv, LaunchInv, ChainInv, UnderWay, Active, IsBlacklisted, stateVars, fieldVars,
         recordVars, collectorVars
<1>2. CollectInv' /\ FieldInv' /\ RowInv'
  BY DEF StateInv, CollectInv, FieldInv, UnderWay, Active, IsBlacklisted, stateVars, fieldVars,
         recordVars, collectorVars, RowInv, OneCollector, FullyDrawnOfItsLaunch,
         RowOfOneLaunch, CollectedIsCold
<1>3. TraceInv'
  BY DEF StateInv, TraceInv, Chain, Streaming, stateVars, recordVars, collectorVars
<1>4. QED
  BY <1>1, <1>2, <1>3 DEF StateInv

\* The launch a record belongs to is a number.
LEMMA LaunchesAreNumbers ==
    ASSUME TypeOK
    PROVE  /\ \A h \in DOMAIN histories : histories[h].launch \in Nat
           /\ \A t \in DOMAIN traces : traces[t].launch \in Nat
           /\ \A k \in DOMAIN chains : chains[k].launch \in Nat
<1>1. ASSUME NEW h \in DOMAIN histories
      PROVE  histories[h].launch \in Nat
  <2>1. histories[h] \in HistoryRow
    BY ElementProperties DEF TypeOK, RecordTypeOK
  <2>2. QED
    BY <2>1 DEF HistoryRow
<1>2. ASSUME NEW t \in DOMAIN traces
      PROVE  traces[t].launch \in Nat
  <2>1. traces[t] \in Trace
    BY ElementProperties DEF TypeOK, CollectorTypeOK
  <2>2. QED
    BY <2>1 DEF Trace
<1>3. ASSUME NEW k \in DOMAIN chains
      PROVE  chains[k].launch \in Nat
  <2>1. chains[k] \in HistoryIdChain
    BY ElementProperties DEF TypeOK, RecordTypeOK
  <2>2. QED
    BY <2>1 DEF HistoryIdChain
<1>4. QED
  BY <1>1, <1>2, <1>3

\* kIntentStarted makes the chain of a new launch and starts collecting it.
LEMMA InvIntentStarted ==
    ASSUME StateInv, TypeOK', ~UnderWay, ready, ready' = ready, launch' = launch + 1,
           last_event_type' = "IntentStarted",
           NEW c \in Components \cup {NoComponent}, OnIntentStarted(c)
    PROVE  StateInv'
<1> USE DEF StateInv
<1>1. /\ component_name' = c /\ c # Unset
      /\ raw_traces' = raw_traces
      /\ ~is_tracing /\ read_ahead_task = 0 /\ rx_lifetime = 0 /\ sessions = {}
      /\ launch \in Nat /\ launch' \in Nat \ {0} /\ launch' > launch
      /\ total_time' = total_time /\ temperature' = temperature
      /\ histories' = histories
      /\ UnderWay'
      /\ chains \in Seq(HistoryIdChain) /\ Len(chains) \in Nat
      /\ DOMAIN chains = 1 .. Len(chains)
      /\ recent_history' = recent_history
  BY ComponentsAssumption
     DEF OnIntentStarted, CollectInv, Active, UnderWay, TypeOK, DefenderTypeOK, recordVars,
         RecordTypeOK
<1>2. \A h \in DOMAIN histories : histories[h].launch \in Nat /\ histories[h].launch < launch'
  BY <1>1, LaunchesAreNumbers DEF LaunchInv
<1>3. \A t \in DOMAIN traces : traces[t].launch \in Nat /\ traces[t].launch < launch'
  BY <1>1, LaunchesAreNumbers DEF LaunchInv
<1>4. \A k \in DOMAIN chains : chains[k].launch \in Nat /\ chains[k].launch < launch'
  BY <1>1, LaunchesAreNumbers DEF LaunchInv
<1>5. RowFrame
  BY <1>1 DEF RowFrame
<1>6. CASE IsBlacklisted(c)
  <2>1. UNCHANGED <<temperature, intent_started, total_time, collectorVars, recordVars>>
    BY <1>6 DEF OnIntentStarted
  <2>2. ~Active'
    BY <1>1, <1>6 DEF Active, IsBlacklisted
  <2>3. LaunchInv'
    <3>1. /\ chains' = chains /\ traces' = traces /\ histories' = histories
          /\ component_name' # Unset /\ ready' /\ launch' > 0
      BY <1>1, <2>1 DEF collectorVars, recordVars
    <3>2. \A k \in DOMAIN chains : chains[k].launch <= launch'
      BY <1>1, <1>4
    <3>3. \A t \in DOMAIN traces : traces[t].launch <= launch'
      BY <1>1, <1>3
    <3>4. \A h \in DOMAIN histories : histories[h].launch <= launch'
      BY <1>1, <1>2
    <3>5. QED
      BY <1>2, <1>3, <3>1, <3>2, <3>3, <3>4 DEF LaunchInv
  <2>4. ChainInv' /\ CollectInv' /\ FieldInv' /\ RowInv'
    BY <1>1, <2>1, <2>2 DEF ChainInv, CollectInv, FieldInv, RowInv, OneCollector,
       FullyDrawnOfItsLaunch, RowOfOneLaunch, CollectedIsCold, collectorVars, recordVars
  <2>5. TraceInv'
    BY <1>1, <2>1 DEF TraceInv, Chain, Streaming, collectorVars, recordVars
  <2>6. QED
    BY <2>3, <2>4, <2>5
<1>7. CASE ~IsBlacklisted(c)
  <2> DEFINE chain == Len(chains) + 1
             new == [launch |-> launch', status |-> "open", history |-> 0]
  <2>1. /\ chains' = Append(chains, new)
        /\ subscriber' = chain /\ observable' = chain
        /\ intent_started' = IF launch' \in Unstamped THEN intent_started ELSE launch'
        /\ IF c = NoComponent THEN UNCHANGED collectorVars ELSE StartCollecting(c, chain)
        /\ chain \in Nat
        /\ new \in HistoryIdChain
        /\ new.launch = launch' /\ new.status = "open"
    BY <1>1, <1>7 DEF OnIntentStarted, HistoryIdChain
  <2> HIDE DEF new
  <2>2. /\ DOMAIN chains' = 1 .. chain /\ Len(chains') = chain
        /\ DOMAIN chains = 1 .. (chain - 1)
        /\ \A k \in DOMAIN chains : chains'[k] = chains[k]
        /\ chains'[chain] = new
    BY <1>1, <2>1, AppendProperties
  <2>3. ChainFrame
    BY <2>1, <2>2 DEF ChainFrame
  <2>4. Active'
    BY <1>1, <1>7 DEF Active, IsBlacklisted
  <2>5. /\ sessions' = IF read_ahead_task' = 0 THEN {} ELSE {read_ahead_task'}
        /\ c = NoComponent => is_tracing' = FALSE /\ read_ahead_task' = 0
        /\ \/ /\ traces' = traces
              /\ is_tracing' = FALSE
              /\ rx_lifetime' = 0
              /\ read_ahead_task' \in {0, launch'}
           \/ /\ c # NoComponent
              /\ traces' = Append(traces, [component |-> c, chain |-> chain,
                                           launch |-> launch', status |-> "collecting"])
              /\ is_tracing' = TRUE
              /\ rx_lifetime' = Len(traces) + 1
              /\ read_ahead_task' = 0
    <3>1. CASE c = NoComponent
      BY <1>1, <2>1, <3>1 DEF collectorVars, TypeOK, CollectorTypeOK
    <3>2. CASE c # NoComponent
      BY <1>1, <2>1, <3>2, StartCollectingCases
    <3>3. QED
      BY <3>1, <3>2
  <2>6. /\ \A t \in DOMAIN traces' : traces'[t].launch <= launch'
        /\ ~is_tracing' => \A t \in DOMAIN traces' : traces'[t].launch < launch'
        /\ is_tracing' => traces'[rx_lifetime'].launch = launch'
        /\ TraceInv'
    <3>1. CASE traces' = traces /\ is_tracing' = FALSE
      <4>1. TraceFrame
        BY <3>1 DEF TraceFrame
      <4>2. \A t \in DOMAIN traces : Streaming(t)' => Streaming(t)
        BY <3>1 DEF Streaming
      <4>3. TraceInv'
        BY <1>1, <1>5, <2>3, <4>1, <4>2, TraceInvSame
      <4>4. QED
        BY <1>1, <1>3, <3>1, <4>3
    <3>2. CASE c # NoComponent /\ is_tracing' = TRUE /\ rx_lifetime' = Len(traces) + 1
               /\ traces' = Append(traces, [component |-> c, chain |-> chain,
                                            launch |-> launch', status |-> "collecting"])
      <4> DEFINE stream == [component |-> c, chain |-> chain, launch |-> launch',
                            status |-> "collecting"]
      <4>1. /\ stream \in Trace /\ stream.chain = chain /\ stream.launch = launch'
            /\ traces' = Append(traces, stream)
        BY <1>1, <2>1, <3>2 DEF Trace
      <4> HIDE DEF stream
      <4>2. /\ DOMAIN traces' = 1 .. (Len(traces) + 1)
            /\ DOMAIN traces = 1 .. Len(traces) /\ Len(traces) \in Nat
            /\ traces'[Len(traces) + 1] = stream
            /\ \A t \in DOMAIN traces : traces'[t] = traces[t]
        BY <4>1, AppendProperties DEF TypeOK, CollectorTypeOK
      <4>3. chain \in DOMAIN chains' /\ chains'[chain].launch = launch'
        BY <2>1, <2>2
      <4>4. TraceInv'
        BY <1>1, <1>3, <1>5, <2>3, <3>2, <4>1, <4>3, TraceInvAppend
      <4>5. \A t \in DOMAIN traces' : t \in DOMAIN traces \/ t = Len(traces) + 1
        BY <4>2
      <4>6. \A t \in DOMAIN traces' : traces'[t].launch <= launch'
        BY <1>1, <1>3, <4>1, <4>2, <4>5
      <4>7. QED
        BY <3>2, <4>1, <4>2, <4>4, <4>6
    <3>3. QED
      BY <2>5, <3>1, <3>2
  <2>7. LaunchInv'
    <3>1. \A k \in DOMAIN chains' : chains'[k].launch <= launch'
      <4>1. \A k \in DOMAIN chains' : k \in DOMAIN chains \/ k = chain
        BY <1>1, <2>2
      <4>2. QED
        BY <1>1, <1>4, <2>1, <2>2, <4>1
    <3>2. \A h \in DOMAIN histories' : histories'[h].launch \in Nat /\ histories'[h].launch < launch'
      BY <1>1, <1>2
    <3>3. \A h \in DOMAIN histories' : histories'[h].launch <= launch'
      BY <1>1, <3>2
    <3>4. QED
      BY <1>1, <2>6, <3>1, <3>2, <3>3 DEF LaunchInv
  <2>8. ChainInv'
    <3>1. \A j, k \in DOMAIN chains' : j < k => chains'[j].launch < chains'[k].launch
      <4>1. \A k \in DOMAIN chains' : k \in DOMAIN chains \/ k = chain
        BY <1>1, <2>2
      <4>2. \A k \in DOMAIN chains : k < chain /\ chain # k
        BY <1>1
      <4>3. chains'[chain].launch = launch'
        BY <2>1, <2>2
      <4>4. ~(chain < chain) /\ \A k \in DOMAIN chains : ~(chain < k)
        BY <1>1
      <4>5. QED
        BY <1>4, <2>2, <4>1, <4>2, <4>3, <4>4 DEF ChainInv
    <3>2. \A k \in DOMAIN chains' : chains'[k].status = "id" =>
            /\ chains'[k].history \in DOMAIN histories'
            /\ histories'[chains'[k].history].launch = chains'[k].launch
      <4>1. \A k \in DOMAIN chains' : k \in DOMAIN chains \/ k = chain
        BY <1>1, <2>2
      <4>2. QED
        BY <1>1, <2>1, <2>2, <4>1 DEF ChainInv
    <3>3. chains'[subscriber'].status = "open" /\ chains'[subscriber'].launch = launch'
      BY <2>1, <2>2
    <3>4. observable' = Len(chains') /\ subscriber' = observable' /\ subscriber' # 0
      BY <1>1, <2>1, <2>2
    <3>5. QED
      BY <3>1, <3>2, <3>3, <3>4 DEF ChainInv
  <2>9. CollectInv'
    <3>1. rx_lifetime' # 0 \/ ~is_tracing'
      BY <2>5 DEF TypeOK, CollectorTypeOK
    <3>2. QED
      BY <1>1, <2>4, <2>5, <2>6, <3>1 DEF CollectInv
  <2>10. FieldInv' /\ RowInv'
    <3>1. FieldInv'
      BY <1>1, <2>1 DEF FieldInv
    <3>2. RowInv'
      BY <1>1, <2>5 DEF RowInv, OneCollector, FullyDrawnOfItsLaunch, RowOfOneLaunch,
                        CollectedIsCold
    <3>3. QED
      BY <3>1, <3>2
  <2>11. QED
    BY <2>6, <2>7, <2>8, <2>9, <2>10
<1>8. QED
  BY <1>6, <1>7

\* kIntentFailed aborts what was collected and ends the chain with an error.
LEMMA InvIntentFailed ==
    ASSUME StateInv, TypeOK', launch' \in {launch, launch + 1}, ready' = ready,
           last_event_type = "IntentStarted", last_event_type' = "IntentFailed",
           OnIntentFailed
    PROVE  StateInv'
<1> USE DEF StateInv
<1>1. /\ component_name' = component_name /\ temperature' = temperature
      /\ intent_started' = intent_started /\ total_time' = total_time
      /\ raw_traces' = raw_traces
      /\ UnderWay /\ ~UnderWay' /\ ~Active' /\ ready
      /\ chains \in Seq(HistoryIdChain)
  BY DEF OnIntentFailed, fieldVars, UnderWay, Active, LaunchInv, TypeOK, RecordTypeOK
<1>a. /\ \A k \in DOMAIN chains : chains[k].launch <= launch'
      /\ \A u \in DOMAIN traces : traces[u].launch <= launch'
      /\ \A h \in DOMAIN histories : histories[h].launch <= launch'
  BY LaunchesAreNumbers DEF LaunchInv, TypeOK, DefenderTypeOK
<1>2. CASE IsBlacklisted(component_name)
  <2>1. UNCHANGED <<collectorVars, recordVars>>
    BY <1>2 DEF OnIntentFailed
  <2>2. LaunchInv' /\ ChainInv'
    BY <1>1, <1>a, <2>1 DEF LaunchInv, ChainInv, collectorVars, recordVars
  <2>3. CollectInv' /\ FieldInv' /\ RowInv'
    BY <1>1, <1>2, <2>1 DEF CollectInv, FieldInv, RowInv, OneCollector, Active,
       FullyDrawnOfItsLaunch, RowOfOneLaunch, CollectedIsCold, collectorVars, recordVars
  <2>4. TraceInv'
    BY <1>1, <2>1 DEF TraceInv, Chain, Streaming, collectorVars, recordVars
  <2>5. QED
    BY <2>2, <2>3, <2>4
<1>3. CASE ~IsBlacklisted(component_name)
  <2>1. /\ AbortTrace /\ FinishReadAhead
        /\ subscriber # 0 /\ subscriber \in DOMAIN chains
        /\ chains[subscriber].status = "open"
        /\ chains' = [chains EXCEPT ![subscriber].status = "error"]
        /\ subscriber' = 0 /\ observable' = observable
        /\ recent_history' = recent_history /\ histories' = histories
    BY <1>1, <1>3 DEF OnIntentFailed, AbortReadAhead, ChainInv, Active, TypeOK, RecordTypeOK
  <2>2. is_tracing' = FALSE /\ rx_lifetime' = 0 /\ read_ahead_task' = 0 /\ sessions' = {}
    BY <2>1, StopCollectingReleases
  <2>3. /\ DOMAIN chains' = DOMAIN chains /\ Len(chains') = Len(chains)
        /\ chains'[subscriber].status = "error"
        /\ \A k \in DOMAIN chains :
             /\ chains'[k].launch = chains[k].launch
             /\ k # subscriber => chains'[k] = chains[k]
    <3> DEFINE ended == [chains[subscriber] EXCEPT !.status = "error"]
    <3>1. chains' = [chains EXCEPT ![subscriber] = ended]
      BY <2>1
    <3>2. chains[subscriber] \in HistoryIdChain
      BY <1>1, <2>1, ElementProperties
    <3>3. /\ ended \in HistoryIdChain /\ ended.launch = chains[subscriber].launch
          /\ ended.status = "error"
      BY <3>2 DEF HistoryIdChain
    <3> HIDE DEF ended
    <3>4. QED
      BY <1>1, <2>1, <3>1, <3>3, ReplaceProperties
  <2>4. ChainFrame /\ RowFrame
    BY <2>1, <2>3 DEF ChainFrame, RowFrame
  <2>5. TraceFrame
    BY <2>1, AbortDrops
  <2>6. LaunchInv'
    BY <1>1, <1>a, <2>1, <2>3, <2>5 DEF LaunchInv, TraceFrame
  <2>7. ChainInv'
    <3>1. \A k \in DOMAIN chains' : chains'[k].status = "id" => chains'[k] = chains[k]
      BY <2>3
    <3>2. QED
      BY <1>1, <2>1, <2>3, <3>1 DEF ChainInv
  <2>8. TraceInv'
    <3>1. \A t \in DOMAIN traces : Streaming(t)' =>
             Streaming(t) /\ ~(is_tracing /\ t = rx_lifetime)
      BY <2>1, AbortDrops DEF Streaming
    <3>2. QED
      BY <1>1, <2>4, <2>5, <3>1, TraceInvSame
  <2>9. CollectInv' /\ FieldInv' /\ RowInv'
    BY <1>1, <2>1, <2>2 DEF CollectInv, FieldInv, RowInv, OneCollector,
       FullyDrawnOfItsLaunch, RowOfOneLaunch, CollectedIsCold
  <2>10. QED
    BY <2>6, <2>7, <2>8, <2>9
<1>4. QED
  BY <1>2, <1>3

\* kActivityLaunchCancelled aborts what was collected; its chain stays open.
LEMMA InvActivityLaunchCancelled ==
    ASSUME StateInv, TypeOK', launch' \in {launch, launch + 1}, ready' = ready,
           last_event_type = "ActivityLaunched", last_event_type' = "ActivityLaunchCancelled",
           OnActivityLaunchCancelled
    PROVE  StateInv'
<1> USE DEF StateInv
<1>1. /\ component_name' = component_name /\ temperature' = temperature
      /\ intent_started' = intent_started /\ total_time' = total_time
      /\ raw_traces' = raw_traces /\ UNCHANGED recordVars
      /\ UnderWay /\ ~UnderWay' /\ ~Active' /\ ready
  BY DEF OnActivityLaunchCancelled, fieldVars, UnderWay, Active, LaunchInv
<1>a. /\ \A k \in DOMAIN chains : chains[k].launch <= launch'
      /\ \A u \in DOMAIN traces : traces[u].launch <= launch'
      /\ \A h \in DOMAIN histories : histories[h].launch <= launch'
  BY LaunchesAreNumbers DEF LaunchInv, TypeOK, DefenderTypeOK
<1>2. CASE IsBlacklisted(component_name)
  <2>1. UNCHANGED collectorVars
    BY <1>2 DEF OnActivityLaunchCancelled
  <2>2. LaunchInv' /\ ChainInv'
    BY <1>1, <1>a, <2>1 DEF LaunchInv, ChainInv, collectorVars, recordVars
  <2>3. CollectInv' /\ FieldInv' /\ RowInv'
    BY <1>1, <1>2, <2>1 DEF CollectInv, FieldInv, RowInv, OneCollector, Active,
       FullyDrawnOfItsLaunch, RowOfOneLaunch, CollectedIsCold, collectorVars, recordVars
  <2>4. TraceInv'
    BY <1>1, <2>1 DEF TraceInv, Chain, Streaming, collectorVars, recordVars
  <2>5. QED
    BY <2>2, <2>3, <2>4
<1>3. CASE ~IsBlacklisted(component_name)
  <2>1. AbortTrace /\ FinishReadAhead
    BY <1>3 DEF OnActivityLaunchCancelled, AbortReadAhead
  <2>2. is_tracing' = FALSE /\ rx_lifetime' = 0 /\ read_ahead_task' = 0 /\ sessions' = {}
    BY <2>1, StopCollectingReleases
  <2>3. ChainFrame /\ RowFrame
    BY <1>1 DEF ChainFrame, RowFrame, recordVars
  <2>4. TraceFrame
    BY <2>1, AbortDrops
  <2>5. LaunchInv' /\ ChainInv'
    BY <1>1, <1>a, <2>4 DEF LaunchInv, ChainInv, TraceFrame, recordVars
  <2>6. TraceInv'
    <3>1. \A t \in DOMAIN traces : Streaming(t)' =>
             Streaming(t) /\ ~(is_tracing /\ t = rx_lifetime)
      BY <2>1, AbortDrops DEF Streaming
    <3>2. QED
      BY <1>1, <2>3, <2>4, <3>1, TraceInvSame
  <2>7. CollectInv' /\ FieldInv' /\ RowInv'
    BY <1>1, <2>2 DEF CollectInv, FieldInv, RowInv, OneCollector, FullyDrawnOfItsLaunch,
       RowOfOneLaunch, CollectedIsCold, recordVars
  <2>8. QED
    BY <2>5, <2>6, <2>7
<1>4. QED
  BY <1>2, <1>3

\* kReportFullyDrawn completes the row of the launch that finished last.
LEMMA InvReportFullyDrawn ==
    ASSUME StateInv, TypeOK', launch' = launch, ready' = ready,
           last_event_type = "ActivityLaunchFinished", last_event_type' = "ReportFullyDrawn",
           OnReportFullyDrawn
    PROVE  StateInv'
<1> USE DEF StateInv
<1>1. /\ UNCHANGED <<fieldVars, collectorVars, subscriber, observable, chains, raw_traces>>
      /\ ~UnderWay /\ ~UnderWay' /\ ~Active /\ ~Active' /\ ready
  BY DEF OnReportFullyDrawn, UnderWay, Active, LaunchInv
<1>2. /\ RowFrame
      /\ DOMAIN histories' = DOMAIN histories
      /\ \A h \in DOMAIN histories :
           /\ histories'[h].readahead_enabled = histories[h].readahead_enabled
           /\ histories'[h].intent_started = histories[h].intent_started
           /\ histories'[h].total_time = histories[h].total_time
           /\ histories'[h].temperature = histories[h].temperature
           /\ histories'[h].fully_drawn \in {histories[h].fully_drawn, histories[h].launch}
  <2>1. CASE histories' = histories
    BY <2>1 DEF RowFrame
  <2>2. CASE histories' # histories
    <3> DEFINE drawn == [histories[recent_history] EXCEPT !.fully_drawn = launch]
    <3>1. /\ histories' = [histories EXCEPT ![recent_history] = drawn]
          /\ recent_history \in DOMAIN histories /\ histories \in Seq(HistoryRow)
          /\ histories[recent_history].launch = launch
      BY <2>2 DEF OnReportFullyDrawn, TypeOK, RecordTypeOK, FieldInv
    <3>2. histories[recent_history] \in HistoryRow
      BY <3>1, ElementProperties
    <3>3. /\ drawn \in HistoryRow
          /\ drawn.launch = histories[recent_history].launch
          /\ drawn.trace_enabled = histories[recent_history].trace_enabled
          /\ drawn.readahead_enabled = histories[recent_history].readahead_enabled
          /\ drawn.intent_started = histories[recent_history].intent_started
          /\ drawn.total_time = histories[recent_history].total_time
          /\ drawn.temperature = histories[recent_history].temperature
          /\ drawn.fully_drawn = launch
      BY <3>2 DEF HistoryRow, TypeOK, DefenderTypeOK
    <3> HIDE DEF drawn
    <3>4. /\ DOMAIN histories' = DOMAIN histories
          /\ histories'[recent_history] = drawn
          /\ \A h \in DOMAIN histories : h # recent_history => histories'[h] = histories[h]
      BY <3>1, <3>3, ReplaceProperties
    <3>5. QED
      BY <3>1, <3>3, <3>4 DEF RowFrame
  <2>3. QED
    BY <2>1, <2>2
<1>3. TraceFrame /\ ChainFrame
  BY <1>1 DEF TraceFrame, ChainFrame, collectorVars
<1>4. LaunchInv' /\ ChainInv'
  BY <1>1, <1>2 DEF LaunchInv, ChainInv, RowFrame, fieldVars, collectorVars
<1>5. TraceInv'
  <2>1. \A t \in DOMAIN traces : Streaming(t)' =>
          Streaming(t) /\ ~(is_tracing /\ t = rx_lifetime)
    BY <1>1 DEF Streaming, collectorVars, CollectInv
  <2>2. QED
    BY <1>1, <1>2, <1>3, <2>1, TraceInvSame
<1>6. CollectInv' /\ FieldInv'
  BY <1>1 DEF CollectInv, FieldInv, fieldVars, collectorVars
<1>7. RowInv'
  BY <1>1, <1>2 DEF RowInv, OneCollector, FullyDrawnOfItsLaunch, RowOfOneLaunch,
     CollectedIsCold, RowFrame, collectorVars
<1>8. QED
  BY <1>4, <1>5, <1>6, <1>7

\* kActivityLaunched with a window title changes nothing but the defender.
LEMMA InvActivityTitle ==
    ASSUME StateInv, TypeOK', launch' = launch, ready' = ready, ready, launch \in Titled,
           last_event_type = "IntentStarted", last_event_type' = "ActivityLaunched",
           OnActivityTitle
    PROVE  StateInv'
<1> USE DEF StateInv
<1>1. /\ UNCHANGED <<fieldVars, collectorVars, recordVars, raw_traces>>
      /\ UnderWay /\ UnderWay' /\ Active' = Active
  BY DEF OnActivityTitle, stateVars, fieldVars, UnderWay, Active
<1>2. LaunchInv' /\ ChainInv'
  BY <1>1 DEF LaunchInv, ChainInv, fieldVars, collectorVars, recordVars
<1>3. CollectInv' /\ FieldInv' /\ RowInv'
  BY <1>1 DEF CollectInv, FieldInv, RowInv, OneCollector, FullyDrawnOfItsLaunch,
     RowOfOneLaunch, CollectedIsCold, fieldVars, collectorVars, recordVars
<1>4. TraceInv'
  BY <1>1 DEF TraceInv, Chain, Streaming, collectorVars, recordVars
<1>5. QED
  BY <1>2, <1>3, <1>4

\* An aligned launch stays on its side of the blacklist.
LEMMA AlignedLaunch ==
    ASSUME Aligned, UnderWay, component_name # Unset, component_name # NoComponent,
           NEW c, <<component_name, c>> \in Redirects \/ component_name = Unset
    PROVE  IsBlacklisted(component_name) <=> IsBlacklisted(c)
<1>1. <<component_name, c>>[1] = component_name /\ <<component_name, c>>[2] = c
  OBVIOUS
<1>2. QED
  BY <1>1 DEF Aligned

\* kActivityLaunched gives up collecting a warm launch, and starts collecting
\* a cold one that is not collected yet, on the chain of this launch.
LEMMA InvActivityLaunched ==
    ASSUME Aligned, StateInv, TypeOK', launch' = launch, ready' = ready, ready,
           last_event_type = "IntentStarted", last_event_type' = "ActivityLaunched",
           NEW c \in Components, NEW cold \in BOOLEAN,
           <<component_name, c>> \in Redirects \/ component_name = Unset,
           OnActivityLaunched(c, cold)
    PROVE  StateInv'
<1> USE DEF StateInv
<1>1. /\ component_name' = c /\ c # NoComponent /\ c # Unset
      /\ UNCHANGED recordVars
      /\ chains' = chains /\ histories' = histories /\ subscriber' = subscriber
      /\ observable' = observable /\ recent_history' = recent_history
      /\ raw_traces' = raw_traces
      /\ intent_started' = intent_started /\ total_time' = total_time
      /\ UnderWay /\ UnderWay'
      /\ launch \in Nat \ {0}
  BY ComponentsAssumption
     DEF OnActivityLaunched, UnderWay, recordVars, LaunchInv, TypeOK, DefenderTypeOK
<1>2. ChainFrame /\ RowFrame
  BY <1>1 DEF ChainFrame, RowFrame
<1>3. component_name # NoComponent => (IsBlacklisted(component_name) <=> IsBlacklisted(c))
  BY <1>1, AlignedLaunch DEF LaunchInv
<1>4. ~IsBlacklisted(NoComponent)
  BY ComponentsAssumption DEF IsBlacklisted
<1>5. CASE IsBlacklisted(c)
  <2>1. UNCHANGED <<temperature, collectorVars>>
    BY <1>5 DEF OnActivityLaunched
  <2>2. ~Active' /\ ~is_tracing /\ read_ahead_task = 0
    BY <1>1, <1>3, <1>5 DEF Active, CollectInv, IsBlacklisted
  <2>3. LaunchInv' /\ ChainInv'
    BY <1>1, <2>1, <2>2 DEF LaunchInv, ChainInv, collectorVars
  <2>4. CollectInv' /\ FieldInv' /\ RowInv'
    BY <1>1, <2>1, <2>2 DEF CollectInv, FieldInv, RowInv, OneCollector,
       FullyDrawnOfItsLaunch, RowOfOneLaunch, CollectedIsCold, collectorVars
  <2>5. TraceInv'
    BY <1>1, <2>1, <2>2 DEF TraceInv, Chain, Streaming, collectorVars
  <2>6. QED
    BY <2>3, <2>4, <2>5
<1>6. CASE ~IsBlacklisted(c)
  <2>1. /\ Active /\ Active'
        /\ temperature' = [cold |-> cold, launch |-> launch]
        /\ subscriber # 0 /\ subscriber = observable
        /\ chains[observable].launch = launch
        /\ observable \in DOMAIN chains
        /\ observable \in Nat
    BY <1>1, <1>3, <1>4, <1>6
       DEF OnActivityLaunched, Active, IsBlacklisted, ChainInv, TypeOK, RecordTypeOK
  <2>2. ChainInv'
    BY <1>1, <2>1 DEF ChainInv
  <2>3. \A t \in DOMAIN traces : traces[t].launch <= launch
    BY DEF LaunchInv
  <2>4. CASE ~cold
    <3>1. AbortTrace /\ FinishReadAhead
      BY <1>6, <2>4 DEF OnActivityLaunched, AbortReadAhead
    <3>2. is_tracing' = FALSE /\ rx_lifetime' = 0 /\ read_ahead_task' = 0 /\ sessions' = {}
      BY <3>1, StopCollectingReleases
    <3>3. TraceFrame
      BY <3>1, AbortDrops
    <3>4. LaunchInv'
      BY <1>1, <2>3, <3>3 DEF LaunchInv, TraceFrame
    <3>5. TraceInv'
      <4>1. \A t \in DOMAIN traces : Streaming(t)' =>
               Streaming(t) /\ ~(is_tracing /\ t = rx_lifetime)
        BY <3>1, AbortDrops DEF Streaming
      <4>2. QED
        BY <1>1, <1>2, <3>3, <4>1, TraceInvSame
    <3>6. CollectInv' /\ FieldInv' /\ RowInv'
      BY <1>1, <2>1, <3>2 DEF CollectInv, FieldInv, RowInv, OneCollector,
         FullyDrawnOfItsLaunch, RowOfOneLaunch, CollectedIsCold
    <3>7. QED
      BY <2>2, <3>4, <3>5, <3>6
  <2>5. CASE cold /\ (is_tracing \/ read_ahead_task # 0)
    <3>1. UNCHANGED collectorVars
      BY <1>6, <2>5 DEF OnActivityLaunched, IsTracing, IsReadAhead
    <3>2. LaunchInv' /\ FieldInv'
      BY <1>1, <2>1, <2>5, <3>1 DEF LaunchInv, FieldInv, collectorVars
    <3>3. CollectInv' /\ RowInv'
      BY <1>1, <2>1, <3>1 DEF CollectInv, RowInv, OneCollector, FullyDrawnOfItsLaunch,
         RowOfOneLaunch, CollectedIsCold, collectorVars
    <3>4. TraceInv'
      BY <1>1, <3>1 DEF TraceInv, Chain, Streaming, collectorVars
    <3>5. QED
      BY <2>2, <3>2, <3>3, <3>4
  <2>6. CASE cold /\ ~is_tracing /\ read_ahead_task = 0
    <3>1. StartCollecting(c, observable)
      BY <1>6, <2>6 DEF OnActivityLaunched, IsTracing, IsReadAhead
    <3>2. /\ sessions' = IF read_ahead_task' = 0 THEN {} ELSE {read_ahead_task'}
          /\ \/ /\ traces' = traces
                /\ is_tracing' = FALSE
                /\ rx_lifetime' = 0
                /\ read_ahead_task' \in {0, launch'}
             \/ /\ traces' = Append(traces, [component |-> c, chain |-> observable,
                                             launch |-> launch', status |-> "collecting"])
                /\ is_tracing' = TRUE
                /\ rx_lifetime' = Len(traces) + 1
                /\ read_ahead_task' = 0
      BY <1>1, <2>1, <2>6, <3>1, StartCollectingCases
    <3>3. \A t \in DOMAIN traces : traces[t].launch < launch
      BY <2>6 DEF LaunchInv
    <3>4. /\ \A t \in DOMAIN traces' : traces'[t].launch <= launch'
          /\ is_tracing' => traces'[rx_lifetime'].launch = launch' /\ rx_lifetime' # 0
          /\ TraceInv'
      <4>1. CASE traces' = traces /\ is_tracing' = FALSE
        <5>1. TraceFrame
          BY <4>1 DEF TraceFrame
        <5>2. \A t \in DOMAIN traces : Streaming(t)' =>
                Streaming(t) /\ ~(is_tracing /\ t = rx_lifetime)
          BY <2>6, <4>1 DEF Streaming
        <5>3. TraceInv'
          BY <1>1, <1>2, <5>1, <5>2, TraceInvSame
        <5>4. QED
          BY <2>3, <4>1, <5>3
      <4>2. CASE is_tracing' = TRUE /\ rx_lifetime' = Len(traces) + 1
                 /\ traces' = Append(traces, [component |-> c, chain |-> observable,
                                              launch |-> launch', status |-> "collecting"])
        <5> DEFINE stream == [component |-> c, chain |-> observable, launch |-> launch',
                              status |-> "collecting"]
        <5>1. /\ stream \in Trace /\ stream.chain = observable /\ stream.launch = launch
              /\ traces' = Append(traces, stream)
          BY <1>1, <2>1, <4>2 DEF Trace
        <5> HIDE DEF stream
        <5>2. /\ DOMAIN traces' = 1 .. (Len(traces) + 1)
              /\ DOMAIN traces = 1 .. Len(traces) /\ Len(traces) \in Nat
              /\ traces'[Len(traces) + 1] = stream
              /\ \A t \in DOMAIN traces : traces'[t] = traces[t]
          BY <5>1, AppendProperties DEF TypeOK, CollectorTypeOK
        <5>3. stream.chain \in DOMAIN chains' /\ chains'[stream.chain].launch = stream.launch
          BY <1>1, <2>1, <5>1
        <5>4. TraceInv'
          BY <1>1, <1>2, <2>6, <3>3, <4>2, <5>1, <5>3, TraceInvAppend
        <5>5. \A t \in DOMAIN traces' : t \in DOMAIN traces \/ t = Len(traces) + 1
          BY <5>2
        <5>6. \A t \in DOMAIN traces' : traces'[t].launch <= launch'
          BY <1>1, <2>3, <5>1, <5>2, <5>5
        <5>7. QED
          BY <4>2, <5>1, <5>2, <5>4, <5>6
      <4>3. QED
        BY <3>2, <4>1, <4>2
    <3>5. LaunchInv'
      BY <1>1, <3>4 DEF LaunchInv
    <3>6. CollectInv' /\ FieldInv'
      BY <1>1, <2>1, <2>6, <3>2, <3>4 DEF CollectInv, FieldInv
    <3>7. RowInv'
      BY <1>1, <2>6, <3>2 DEF RowInv, OneCollector, FullyDrawnOfItsLaunch, RowOfOneLaunch,
                              CollectedIsCold
    <3>8. QED
      BY <2>2, <3>4, <3>5, <3>6, <3>7
  <2>7. QED
    BY <2>4, <2>5, <2>6 DEF TypeOK, CollectorTypeOK
<1>7. QED
  BY <1>5, <1>6

\* kActivityLaunchFinished: the row and the end of the chain belong to this
\* launch, and a stream left in flight finds both.
LEMMA InvActivityLaunchFinished ==
    ASSUME StateInv, TypeOK', launch' = launch, ready' = ready,
           last_event_type = "ActivityLaunched",
           last_event_type' = "ActivityLaunchFinished",
           OnActivityLaunchFinished
    PROVE  StateInv'
<1> USE DEF StateInv
<1>1. /\ component_name' = component_name /\ temperature' = temperature
      /\ intent_started' = intent_started
      /\ raw_traces' = raw_traces
      /\ UnderWay /\ ~UnderWay' /\ ~Active' /\ ready
      /\ launch \in Nat
  BY DEF OnActivityLaunchFinished, UnderWay, Active, LaunchInv, TypeOK, DefenderTypeOK
<1>2. CASE IsBlacklisted(component_name)
  <2>1. UNCHANGED <<total_time, collectorVars, recordVars>>
    BY <1>2 DEF OnActivityLaunchFinished
  <2>2. LaunchInv' /\ ChainInv'
    BY <1>1, <2>1 DEF LaunchInv, ChainInv, collectorVars, recordVars
  <2>3. CollectInv' /\ FieldInv' /\ RowInv'
    BY <1>1, <1>2, <2>1 DEF CollectInv, FieldInv, RowInv, OneCollector, Active, IsBlacklisted,
       FullyDrawnOfItsLaunch, RowOfOneLaunch, CollectedIsCold, collectorVars, recordVars
  <2>4. TraceInv'
    BY <1>1, <2>1 DEF TraceInv, Chain, Streaming, collectorVars, recordVars
  <2>5. QED
    BY <2>2, <2>3, <2>4
<1>3. CASE ~IsBlacklisted(component_name)
  <2> DEFINE id == recent_history'
             row == [component |-> component_name, temperature |-> temperature,
                     trace_enabled |-> IsTracing, readahead_enabled |-> IsReadAhead,
                     intent_started |-> intent_started, total_time |-> total_time',
                     fully_drawn |-> 0, launch |-> launch]
  <2>1. /\ Active
        /\ subscriber # 0 /\ subscriber = observable /\ subscriber \in DOMAIN chains
        /\ chains[subscriber].launch = launch
        /\ chains[subscriber].status = "open"
        /\ RecordDbLaunchHistory /\ MarkPendingTrace /\ FinishReadAhead
        /\ total_time' = IF launch \in Unstamped THEN total_time ELSE launch
    BY <1>1, <1>3 DEF Active, ChainInv, OnActivityLaunchFinished, TypeOK, RecordTypeOK
  <2>2. is_tracing' = FALSE /\ rx_lifetime' = 0 /\ read_ahead_task' = 0 /\ sessions' = {}
    BY <2>1, StopCollectingReleases
  <2>3. traces' = traces
    BY <2>1 DEF MarkPendingTrace
  <2>4. /\ subscriber' = 0
        /\ observable' = observable
        /\ DOMAIN chains' = DOMAIN chains
        /\ Len(chains') = Len(chains)
        /\ \A k \in DOMAIN chains :
             /\ chains'[k].launch = chains[k].launch
             /\ k # subscriber => chains'[k] = chains[k]
    BY <2>1, RecordCases
  <2>5. \/ /\ histories' = histories
           /\ id = 0
           /\ chains'[subscriber].status = "error"
        \/ /\ DOMAIN histories' = DOMAIN histories \cup {id}
           /\ \A h \in DOMAIN histories : h # id /\ histories'[h] = histories[h]
           /\ chains'[subscriber].status = "id"
           /\ chains'[subscriber].history = id
           /\ histories'[id] = row
    BY <2>1, RecordCases
  <2>6. /\ row.launch = launch /\ row.fully_drawn = 0
        /\ row.trace_enabled = is_tracing
        /\ row.readahead_enabled = (read_ahead_task # 0)
        /\ row.intent_started = intent_started /\ row.total_time = total_time'
        /\ row.temperature = temperature
    BY DEF IsTracing, IsReadAhead
  <2> HIDE DEF id, row
  <2>7. ChainFrame /\ RowFrame /\ TraceFrame
    BY <2>1, <2>3, <2>4, <2>5 DEF ChainFrame, RowFrame, TraceFrame
  <2>8. \A h \in DOMAIN histories' :
          \/ h \in DOMAIN histories /\ histories'[h] = histories[h]
          \/ h = id /\ histories'[h] = row /\ id \in DOMAIN histories'
    BY <2>5
  <2>9. LaunchInv'
    <3>1. \A h \in DOMAIN histories' : histories'[h].launch <= launch'
      BY <1>1, <2>6, <2>8 DEF LaunchInv
    <3>2. QED
      BY <1>1, <2>3, <2>4, <3>1 DEF LaunchInv
  <2>10. ChainInv'
    <3>1. \A k \in DOMAIN chains' : chains'[k].status = "id" =>
            /\ chains'[k].history \in DOMAIN histories'
            /\ histories'[chains'[k].history].launch = chains'[k].launch
      <4>1. ASSUME NEW k \in DOMAIN chains, chains'[k].status = "id"
            PROVE  /\ chains'[k].history \in DOMAIN histories'
                   /\ histories'[chains'[k].history].launch = chains'[k].launch
        <5>1. CASE k = subscriber
          BY <2>1, <2>4, <2>5, <2>6, <4>1, <5>1
        <5>2. CASE k # subscriber
          BY <2>4, <2>7, <4>1, <5>2 DEF ChainInv, RowFrame
        <5>3. QED
          BY <5>1, <5>2
      <4>2. QED
        BY <2>4, <4>1
    <3>2. \A j, k \in DOMAIN chains' : j < k => chains'[j].launch < chains'[k].launch
      BY <2>4 DEF ChainInv
    <3>3. QED
      BY <1>1, <2>4, <3>1, <3>2 DEF ChainInv
  <2>11. TraceInv'
    <3>1. ASSUME NEW t \in DOMAIN traces, is_tracing, t = rx_lifetime
          PROVE  \/ Chain(t)'.status = "error"
                 \/ Chain(t)'.status = "id" /\ histories'[Chain(t)'.history].trace_enabled
      <4>1. /\ traces[t].chain \in DOMAIN chains
            /\ chains[traces[t].chain].launch = launch
        BY <3>1 DEF TraceInv, CollectInv, Chain
      <4>2. traces[t].chain = subscriber
        <5>1. traces[t].chain \in Nat /\ subscriber \in Nat /\ launch \in Nat
          BY <2>1, <4>1, AppendProperties DEF TypeOK, RecordTypeOK, DefenderTypeOK
        <5>2. ~(traces[t].chain < subscriber) /\ ~(subscriber < traces[t].chain)
          BY <2>1, <4>1, <5>1 DEF ChainInv
        <5>3. QED
          BY <5>1, <5>2
      <4>3. Chain(t)' = chains'[subscriber]
        BY <2>3, <4>2 DEF Chain
      <4>4. QED
        BY <2>5, <2>6, <3>1, <4>3
    <3>2. \A t \in DOMAIN traces : Streaming(t)' = Streaming(t)
      BY <2>3 DEF Streaming
    <3>3. QED
      BY <1>1, <2>7, <3>1, <3>2, TraceInvSame
  <2>12. CollectInv' /\ FieldInv'
    <3>1. id # 0 => histories'[id].launch = launch
      BY <2>5, <2>6
    <3>2. QED
      BY <1>1, <2>2, <3>1 DEF CollectInv, FieldInv, id
  <2>13. RowInv'
    <3>1. /\ ~(row.trace_enabled /\ row.readahead_enabled)
          /\ row.fully_drawn \in {0, row.launch}
          /\ row.launch \notin Unstamped =>
               row.intent_started = row.launch /\ row.total_time = row.launch
          /\ row.launch \notin Titled => row.temperature.launch = row.launch
          /\ row.launch \notin Titled /\ (row.trace_enabled \/ row.readahead_enabled)
               => row.temperature.cold
      BY <2>1, <2>6 DEF CollectInv, FieldInv
    <3>2. OneCollector' /\ FullyDrawnOfItsLaunch'
      BY <2>2, <2>8, <3>1 DEF RowInv, OneCollector, FullyDrawnOfItsLaunch
    <3>3. RowOfOneLaunch' /\ CollectedIsCold'
      BY <2>8, <3>1 DEF RowInv, RowOfOneLaunch, CollectedIsCold
    <3>4. QED
      BY <3>2, <3>3 DEF RowInv
  <2>14. QED
    BY <2>9, <2>10, <2>11, <2>12, <2>13
<1>4. QED
  BY <1>2, <1>3

-----------------------------------------------------------------------------
(* The streams and the process *)

\* A stream that moves keeps what it is, and its new row in raw_traces is the
\* one its chain names.
LEMMA InvTraceStep ==
    ASSUME StateInv, TypeOK', NEW t \in DOMAIN traces,
           TraceCollected(t) \/ TraceChainError(t) \/ TraceSaved(t)
    PROVE  StateInv'
<1> USE DEF StateInv
<1>1. /\ UNCHANGED <<defenderVars, fieldVars, recordVars>>
      /\ UNCHANGED <<read_ahead_task, is_tracing, rx_lifetime, rx_in_flight, sessions>>
      /\ Streaming(t)
  BY DEF TraceCollected, TraceChainError, TraceSaved, Streaming
<1>2. PICK status \in {"have_proto", "dropped", "saved"} :
         /\ traces' = [traces EXCEPT ![t].status = status]
         /\ status = "saved" => /\ Chain(t).status = "id"
                                /\ raw_traces' = DeleteOlderFiles(
                                     raw_traces \cup {[id |-> NextRawTraceId,
                                                       history |-> Chain(t).history,
                                                       trace |-> t]},
                                     traces[t].component)
         /\ status # "saved" => raw_traces' = raw_traces
  BY DEF TraceCollected, TraceChainError, TraceSaved
<1>3. /\ TraceFrame
      /\ traces'[t].status = status
      /\ \A u \in DOMAIN traces : u # t => traces'[u] = traces[u]
  <2> DEFINE moved == [traces[t] EXCEPT !.status = status]
  <2>1. traces \in Seq(Trace) /\ traces[t] \in Trace
    BY ElementProperties DEF TypeOK, CollectorTypeOK
  <2>2. /\ moved \in Trace
        /\ moved.chain = traces[t].chain
        /\ moved.launch = traces[t].launch
        /\ moved.status = status
    BY <2>1 DEF Trace
  <2>3. traces' = [traces EXCEPT ![t] = moved]
    BY <1>2
  <2> HIDE DEF moved
  <2>4. /\ traces'[t] = moved
        /\ DOMAIN traces' = DOMAIN traces
        /\ \A u \in DOMAIN traces : u # t => traces'[u] = traces[u]
    BY <2>1, <2>2, <2>3, ReplaceProperties
  <2>5. traces[t].status # "saved"
    BY <1>1 DEF Streaming
  <2>6. QED
    BY <2>2, <2>4, <2>5 DEF TraceFrame
<1>4. LaunchInv' /\ ChainInv'
  BY <1>1, <1>3 DEF LaunchInv, ChainInv, TraceFrame, UnderWay, Active, IsBlacklisted,
                    defenderVars, fieldVars, recordVars
<1>5. CollectInv' /\ FieldInv' /\ RowInv'
  <2>1. is_tracing => rx_lifetime \in DOMAIN traces
    BY DEF CollectInv, TypeOK, CollectorTypeOK
  <2>2. QED
    BY <1>1, <1>3, <2>1 DEF CollectInv, FieldInv, RowInv, OneCollector, TraceFrame,
       FullyDrawnOfItsLaunch, RowOfOneLaunch, CollectedIsCold, UnderWay, Active,
       IsBlacklisted, defenderVars, fieldVars, recordVars
<1>6. /\ \A u \in DOMAIN traces : Chain(u)' = Chain(u)
      /\ chains' = chains /\ histories' = histories
  BY <1>1, <1>3 DEF Chain, TraceFrame, recordVars
<1>7. \A u \in DOMAIN traces : Streaming(u)' => Streaming(u)
  BY <1>1, <1>3 DEF Streaming
<1>8. TraceInv'
  <2>1. \A u \in DOMAIN traces' :
          /\ traces'[u].chain \in DOMAIN chains'
          /\ Chain(u)'.launch = traces'[u].launch
    BY <1>3, <1>6 DEF TraceInv, TraceFrame
  <2>2. \A u, v \in DOMAIN traces' : u < v => traces'[u].launch < traces'[v].launch
    BY <1>3 DEF TraceInv, TraceFrame
  <2>3. \A u \in DOMAIN traces' : Streaming(u)' =>
          \/ is_tracing' /\ u = rx_lifetime'
          \/ Chain(u)'.status = "error"
          \/ Chain(u)'.status = "id" /\ histories'[Chain(u)'.history].trace_enabled
    BY <1>1, <1>3, <1>6, <1>7 DEF TraceInv, TraceFrame
  <2>4. \A r \in raw_traces :
          /\ r.trace \in DOMAIN traces'
          /\ r.trace # t
          /\ traces'[r.trace].status = "saved"
          /\ Chain(r.trace)'.status = "id"
          /\ Chain(r.trace)'.history = r.history
          /\ histories'[r.history].trace_enabled
    BY <1>1, <1>3, <1>6 DEF TraceInv, TraceFrame, Streaming
  <2>5. CASE status # "saved"
    BY <1>2, <2>1, <2>2, <2>3, <2>4, <2>5 DEF TraceInv
  <2>6. CASE status = "saved"
    <3> DEFINE new == [id |-> NextRawTraceId, history |-> Chain(t).history, trace |-> t]
    <3>1. raw_traces' \subseteq raw_traces \cup {new}
      BY <1>2, <2>6 DEF DeleteOlderFiles
    <3>2. new.trace = t /\ new.history = Chain(t).history
      OBVIOUS
    <3> HIDE DEF new
    <3>3. histories[Chain(t).history].trace_enabled
      <4>1. ~(is_tracing /\ t = rx_lifetime)
        <5>1. SUFFICES ASSUME is_tracing, t = rx_lifetime
                       PROVE  FALSE
          OBVIOUS
        <5>2. /\ Active /\ traces[t].launch = launch
              /\ traces[t].chain \in DOMAIN chains
              /\ Chain(t).launch = launch /\ Chain(t).status = "id"
          BY <1>2, <2>6, <5>1 DEF CollectInv, TraceInv
        <5>3. Chain(t).history \in DOMAIN histories /\ histories[Chain(t).history].launch = launch
          BY <5>2 DEF ChainInv, Chain
        <5>4. histories[Chain(t).history].launch < launch /\ launch \in Nat
          BY <5>2, <5>3 DEF LaunchInv, Active, TypeOK, DefenderTypeOK
        <5>5. QED
          BY <5>3, <5>4
      <4>2. QED
        BY <1>1, <1>2, <2>6, <4>1 DEF TraceInv
    <3>4. \A r \in raw_traces' :
            /\ r.trace \in DOMAIN traces'
            /\ traces'[r.trace].status = "saved"
            /\ Chain(r.trace)'.status = "id"
            /\ Chain(r.trace)'.history = r.history
            /\ histories'[r.history].trace_enabled
      <4>1. /\ t \in DOMAIN traces' /\ traces'[t].status = "saved"
            /\ Chain(t)'.status = "id" /\ Chain(t)'.history = new.history
            /\ histories'[new.history].trace_enabled
        BY <1>2, <1>3, <1>6, <2>6, <3>2, <3>3 DEF TraceFrame
      <4>2. QED
        BY <2>4, <3>1, <3>2, <4>1
    <3>5. \A r, q \in raw_traces' : r.trace = q.trace => r = q
      BY <2>4, <3>1, <3>2 DEF TraceInv
    <3>6. QED
      BY <2>1, <2>2, <2>3, <3>4, <3>5 DEF TraceInv
  <2>7. QED
    BY <2>5, <2>6
<1>9. QED
  BY <1>4, <1>5, <1>8

\* A restart forgets the state and ends every stream; the tables stay.
LEMMA InvRestart ==
    ASSUME StateInv, TypeOK', Restart
    PROVE  StateInv'
<1> USE DEF StateInv
<1>1. /\ UNCHANGED <<launch, chains, histories, raw_traces>>
      /\ ~UnderWay' /\ ~Active'
      /\ last_event_type' = "Uninitialized"
      /\ subscriber' = 0 /\ observable' = 0 /\ recent_history' = 0
      /\ ~is_tracing' /\ rx_lifetime' = 0 /\ read_ahead_task' = 0 /\ sessions' = {}
  BY DEF Restart, UnderWay, Active
<1>2. TraceFrame /\ \A t \in DOMAIN traces' : ~Streaming(t)'
  <2>1. DOMAIN traces' = DOMAIN traces
    BY DEF Restart
  <2>2. ASSUME NEW t \in DOMAIN traces
        PROVE  /\ traces'[t].chain = traces[t].chain
               /\ traces'[t].launch = traces[t].launch
               /\ traces'[t].status = IF traces[t].status = "saved" THEN "saved" ELSE "dropped"
    <3>1. traces[t] \in Trace
      BY ElementProperties DEF TypeOK, CollectorTypeOK
    <3>2. QED
      BY <3>1 DEF Restart, Trace
  <2>3. QED
    BY <2>1, <2>2 DEF TraceFrame, Streaming
<1>3. ChainFrame /\ RowFrame
  BY <1>1 DEF ChainFrame, RowFrame
<1>4. LaunchInv' /\ ChainInv'
  BY <1>1, <1>2 DEF LaunchInv, ChainInv, TraceFrame
<1>5. TraceInv'
  <2>1. \A t \in DOMAIN traces : ~Streaming(t)'
    BY <1>2 DEF TraceFrame
  <2>2. QED
    BY <1>1, <1>2, <1>3, <2>1, TraceInvSame
<1>6. CollectInv' /\ FieldInv' /\ RowInv'
  BY <1>1 DEF CollectInv, FieldInv, RowInv, OneCollector, FullyDrawnOfItsLaunch,
     RowOfOneLaunch, CollectedIsCold
<1>7. QED
  BY <1>4, <1>5, <1>6

-----------------------------------------------------------------------------
(* The theorems *)

\* Nothing has happened yet.
LEMMA InvInit ==
    ASSUME Init, TypeOK
    PROVE  StateInv
<1>1. /\ launch = 0 /\ last_event_type = "Uninitialized"
      /\ subscriber = 0 /\ observable = 0 /\ recent_history = 0
      /\ ~is_tracing /\ rx_lifetime = 0 /\ read_ahead_task = 0 /\ sessions = {}
      /\ DOMAIN chains = {} /\ DOMAIN traces = {} /\ DOMAIN histories = {}
      /\ raw_traces = {}
      /\ ~UnderWay /\ ~Active
  BY EmptyProperties DEF Init, UnderWay, Active
<1>2. LaunchInv /\ ChainInv /\ CollectInv
  BY <1>1 DEF LaunchInv, ChainInv, CollectInv
<1>3. TraceInv /\ FieldInv /\ RowInv
  BY <1>1 DEF TraceInv, FieldInv, RowInv, OneCollector, FullyDrawnOfItsLaunch,
     RowOfOneLaunch, CollectedIsCold
<1>4. QED
  BY <1>2, <1>3 DEF StateInv

\* An event, as the defender passes it on.
LEMMA InvAppLaunchEvent ==
    ASSUME Aligned, StateInv, TypeOK', NEW type \in EventTypes, OnAppLaunchEvent(type)
    PROVE  StateInv'
<1> DEFINE event == Defend(last_event_type, type)
<1>1. /\ ready /\ ready' = ready /\ last_event_type' = event
      /\ launch' = IF type = "IntentStarted" THEN launch + 1 ELSE launch
      /\ IF event # "Uninitialized" THEN OnNewEvent(event) ELSE UNCHANGED stateVars
  BY DEF OnAppLaunchEvent, Aligned
<1>2. \/ event = "Uninitialized" /\ ~UnderWay /\ type # "IntentStarted"
      \/ event = "IntentStarted" /\ ~UnderWay /\ type = event
      \/ event = "IntentFailed" /\ last_event_type = "IntentStarted"
      \/ event = "ActivityLaunched" /\ last_event_type = "IntentStarted" /\ type = event
      \/ event = "ActivityLaunchFinished" /\ last_event_type = "ActivityLaunched"
           /\ type = event
      \/ event = "ActivityLaunchCancelled" /\ last_event_type = "ActivityLaunched"
      \/ event = "ReportFullyDrawn" /\ last_event_type = "ActivityLaunchFinished"
           /\ type = event
  BY DefendCases DEF StateInv, TypeOK
<1> HIDE DEF event
<1>3. CASE event = "Uninitialized"
  BY <1>1, <1>2, <1>3, InvCarried
<1>4. CASE event = "IntentStarted"
  BY <1>1, <1>2, <1>4, InvIntentStarted DEF OnNewEvent
<1>5. CASE event = "ActivityLaunched"
  <2>1. launch' = launch
    BY <1>1, <1>2, <1>5
  <2>2. CASE launch \in Titled
    BY <1>1, <1>2, <1>5, <2>1, <2>2, InvActivityTitle DEF OnNewEvent
  <2>3. CASE launch \notin Titled
    <3>1. PICK c \in Components, cold \in BOOLEAN :
            /\ <<component_name, c>> \in Redirects \/ component_name = Unset
            /\ OnActivityLaunched(c, cold)
      BY <1>1, <1>5, <2>3 DEF OnNewEvent
    <3>2. QED
      BY <1>1, <1>2, <1>5, <2>1, <3>1, InvActivityLaunched
  <2>4. QED
    BY <2>2, <2>3
<1>6. CASE event = "ActivityLaunchFinished"
  BY <1>1, <1>2, <1>6, InvActivityLaunchFinished DEF OnNewEvent
<1>7. CASE event = "ReportFullyDrawn"
  BY <1>1, <1>2, <1>7, InvReportFullyDrawn DEF OnNewEvent
<1>8. CASE event \in {"IntentFailed", "ActivityLaunchCancelled"}
  <2>1. launch' \in {launch, launch + 1}
    BY <1>1
  <2>2. QED
    BY <1>1, <1>2, <1>8, <2>1, InvIntentFailed, InvActivityLaunchCancelled DEF OnNewEvent
<1>9. QED
  BY <1>2, <1>3, <1>4, <1>5, <1>6, <1>7, <1>8

\* For every aligned launch the inductive invariant always holds.
THEOREM StateInvariant ==
    ASSUME Aligned
    PROVE  Spec => []StateInv
<1>1. Init /\ TypeOK => StateInv
  BY InvInit
<1>2. StateInv /\ TypeOK' /\ [Next]_vars => StateInv'
  <2> SUFFICES ASSUME StateInv, TypeOK', [Next]_vars
               PROVE  StateInv'
    OBVIOUS
  <2>1. ASSUME NEW type \in EventTypes, OnAppLaunchEvent(type)
        PROVE  StateInv'
    BY <2>1, InvAppLaunchEvent
  <2>2. CASE Subscribe
    BY <2>2, InvCarried DEF Subscribe
  <2>3. CASE TraceStep
    BY <2>3, InvTraceStep DEF TraceStep
  <2>4. CASE Restart
    BY <2>4, InvRestart
  <2>5. CASE UNCHANGED vars
    BY <2>5, InvCarried DEF vars, defenderVars
  <2>6. QED
    BY <2>1, <2>2, <2>3, <2>4, <2>5 DEF Next
<1>3. QED
  BY <1>1, <1>2, TypeCorrect, PTL DEF Spec

\* A raw trace belongs to the launch of its history row, which no other raw
\* trace has: both come from one chain, and chains are made once per launch.
LEMMA RawTraces ==
    ASSUME StateInv
    PROVE  RawTraceOfItsLaunch
<1> USE DEF StateInv
<1>1. ASSUME NEW r \in raw_traces
      PROVE  /\ r.trace \in DOMAIN traces
             /\ histories[r.history].launch = traces[r.trace].launch
             /\ histories[r.history].trace_enabled
  <2>1. /\ r.trace \in DOMAIN traces
        /\ Chain(r.trace).status = "id"
        /\ Chain(r.trace).history = r.history
        /\ histories[r.history].trace_enabled
    BY <1>1 DEF TraceInv
  <2>2. /\ traces[r.trace].chain \in DOMAIN chains
        /\ Chain(r.trace).launch = traces[r.trace].launch
    BY <2>1 DEF TraceInv
  <2>3. histories[r.history].launch = Chain(r.trace).launch
    BY <2>1, <2>2 DEF ChainInv, Chain
  <2>4. QED
    BY <2>1, <2>2, <2>3
<1>2. ASSUME NEW r \in raw_traces, NEW q \in raw_traces, r.history = q.history
      PROVE  r = q
  <2>1. /\ r.trace \in DOMAIN traces /\ q.trace \in DOMAIN traces
        /\ traces[r.trace].launch = traces[q.trace].launch
    BY <1>1, <1>2
  <2>2. /\ r.trace \in Nat /\ q.trace \in Nat
        /\ traces[r.trace].launch \in Nat
    BY <2>1, LaunchesAreNumbers, AppendProperties DEF TypeOK, CollectorTypeOK
  <2>3. ~(r.trace < q.trace) /\ ~(q.trace < r.trace)
    BY <2>1, <2>2 DEF TraceInv
  <2>4. r.trace = q.trace
    BY <2>2, <2>3
  <2>5. QED
    BY <1>2, <2>4 DEF TraceInv
<1>3. QED
  BY <1>1, <1>2 DEF RawTraceOfItsLaunch

\* Nothing is collected between aligned launches: the DCHECKs on IsTracing and
\* IsReadAhead of kIntentStarted and StartTracing never fire.
THEOREM Released ==
    ASSUME Aligned
    PROVE  Spec => []CollectorReleased
<1>1. StateInv => CollectorReleased
  BY DEF StateInv, CollectInv, CollectorReleased, Resting, Active, UnderWay
<1>2. QED
  BY <1>1, StateInvariant, PTL

\* Every raw trace of an aligned launch is filed under its own history row.
THEOREM RawTracesFiled ==
    ASSUME Aligned
    PROVE  Spec => []RawTraceOfItsLaunch
<1>1. StateInv => RawTraceOfItsLaunch
  BY RawTraces
<1>2. QED
  BY <1>1, StateInvariant, PTL

\* A history row of an aligned launch mixes in nothing of another launch:
\* neither its collector, nor its times, nor its temperature.
THEOREM RowsOfOneLaunch ==
    ASSUME Aligned
    PROVE  Spec => [](OneCollector /\ FullyDrawnOfItsLaunch /\ RowOfOneLaunch
                        /\ CollectedIsCold)
<1>1. StateInv => OneCollector /\ FullyDrawnOfItsLaunch /\ RowOfOneLaunch /\ CollectedIsCold
  BY DEF StateInv, RowInv
<1>2. QED
  BY <1>1, StateInvariant, PTL

\* RecordDbLaunchHistory of an aligned launch always finds the subscriber that
\* its kIntentStarted left.
THEOREM SubscriberKept ==
    ASSUME Aligned
    PROVE  Spec => AlwaysASubscriber
<1>1. StateInv /\ [Next]_vars =>
        [ready /\ last_event_type' = "ActivityLaunchFinished"
           /\ last_event_type = "ActivityLaunched" /\ ~IsBlacklisted(component_name)
           => subscriber # 0]_vars
  BY DEF StateInv, ChainInv, Active, UnderWay
<1>2. QED
  BY <1>1, StateInvariant, PTL DEF Spec, AlwaysASubscriber

-----------------------------------------------------------------------------
(* Refinement of LaunchProtocol *)

\* The state of the protocol that the refinement mapping gives.
Current == IF UnderWay THEN launch ELSE 0
Collector == IF is_tracing THEN "trace"
             ELSE IF read_ahead_task # 0 THEN "readahead" ELSE "none"
Recorded == {histories[h].launch : h \in DOMAIN histories}
Waiting == LaunchesOf({t \in rx_in_flight : Streaming(t)})
Saved == LaunchesOf({t \in DOMAIN traces : traces[t].status = "saved"})

ProtocolStep ==
    Protocol!Next \/ UNCHANGED <<Current, Collector, Recorded, Waiting, Saved>>

LEMMA ProtocolActions ==
    /\ /\ Current = 0
       /\ Current' \in Nat \ ({0} \cup Recorded \cup Waiting \cup Saved)
       /\ UNCHANGED <<Recorded, Waiting, Saved>>
       => ProtocolStep
    /\ /\ Current # 0
       /\ Collector # "none" => Collector' \in {"none", Collector}
       /\ UNCHANGED <<Current, Recorded, Waiting, Saved>>
       => ProtocolStep
    /\ /\ Current # 0
       /\ Current' = 0
       /\ Collector' = "none"
       /\ Recorded' \in {Recorded, Recorded \cup {Current}}
       /\ Waiting' \in {Waiting, Waiting \cup {Current}}
       /\ Waiting' # Waiting => Collector = "trace"
       /\ UNCHANGED Saved
       => ProtocolStep
    /\ \A l \in Waiting :
          /\ Waiting' = Waiting \ {l}
          /\ \/ Saved' = Saved
             \/ l \in Recorded /\ Saved' = Saved \cup {l}
          /\ UNCHANGED <<Current, Collector, Recorded>>
          => ProtocolStep
    /\ /\ Current' = 0
       /\ Collector' = "none"
       /\ Waiting' = {}
       /\ UNCHANGED <<Recorded, Saved>>
       => ProtocolStep
<1>1. Collector' \in Protocol!Collectors
  BY DEF Collector, Protocol!Collectors
<1>2. ASSUME Current = 0, UNCHANGED <<Recorded, Waiting, Saved>>,
             Current' \in Nat \ ({0} \cup Recorded \cup Waiting \cup Saved)
      PROVE  Protocol!Begin
  BY <1>1, <1>2 DEF Protocol!Begin, Current, Collector, Recorded, Waiting, Saved
<1>3. ASSUME Current # 0, Collector # "none" => Collector' \in {"none", Collector},
             UNCHANGED <<Current, Recorded, Waiting, Saved>>
      PROVE  Protocol!Launched
  BY <1>1, <1>3 DEF Protocol!Launched, Current, Collector, Recorded, Waiting, Saved
<1>4. ASSUME Current # 0, Current' = 0, Collector' = "none",
             Recorded' \in {Recorded, Recorded \cup {Current}},
             Waiting' \in {Waiting, Waiting \cup {Current}},
             Waiting' # Waiting => Collector = "trace", UNCHANGED Saved
      PROVE  Protocol!Finish
  BY <1>4 DEF Protocol!Finish, Current, Collector, Recorded, Waiting, Saved
<1>5. ASSUME NEW l \in Waiting, Waiting' = Waiting \ {l},
             Saved' = Saved \/ (l \in Recorded /\ Saved' = Saved \cup {l}),
             UNCHANGED <<Current, Collector, Recorded>>
      PROVE  Protocol!Save(l) \/ Protocol!Lose(l)
  BY <1>5 DEF Protocol!Save, Protocol!Lose, Current, Collector, Recorded, Waiting, Saved
<1>6. ASSUME Current' = 0, Collector' = "none", Waiting' = {}, UNCHANGED <<Recorded, Saved>>
      PROVE  Protocol!Restart
  BY <1>6 DEF Protocol!Restart, Current, Collector, Recorded, Waiting, Saved
<1>7. (\E l \in Waiting : Protocol!Save(l) \/ Protocol!Lose(l)) => Protocol!Next
  BY DEF Protocol!Next, Waiting
<1>8. Protocol!Begin \/ Protocol!Launched \/ Protocol!Finish \/ Protocol!Restart
        => Protocol!Next
  BY DEF Protocol!Next
<1>9. QED
  BY <1>2, <1>3, <1>4, <1>5, <1>6, <1>7, <1>8 DEF ProtocolStep

\* The number of a launch is that of one stream at most.
LEMMA OneStream ==
    ASSUME TypeOK, TraceInv, NEW t \in DOMAIN traces, NEW u \in DOMAIN traces,
           traces[t].launch = traces[u].launch
    PROVE  t = u
<1>1. t \in Nat /\ u \in Nat /\ traces[t].launch \in Nat /\ traces[u].launch \in Nat
  BY LaunchesAreNumbers, AppendProperties DEF TypeOK, CollectorTypeOK
<1>2. ~(t < u) /\ ~(u < t)
  BY <1>1 DEF TraceInv
<1>3. QED
  BY <1>1, <1>2

\* Streams that keep their launch and are waited for as before.
LEMMA SameWaiting ==
    ASSUME TypeOK,
           \A t \in DOMAIN traces : traces'[t].launch = traces[t].launch,
           \A t : t \in rx_in_flight' /\ Streaming(t)' <=> t \in rx_in_flight /\ Streaming(t)
    PROVE  Waiting' = Waiting
<1>1. rx_in_flight \subseteq DOMAIN traces
  BY DEF TypeOK, CollectorTypeOK
<1>2. {t \in rx_in_flight : Streaming(t)}' = {t \in rx_in_flight : Streaming(t)}
  OBVIOUS
<1>3. QED
  BY <1>1, <1>2 DEF Waiting, LaunchesOf

LEMMA SameSaved ==
    ASSUME \A t \in DOMAIN traces : traces'[t].launch = traces[t].launch,
           \A t : t \in DOMAIN traces' /\ traces'[t].status = "saved"
                     <=> t \in DOMAIN traces /\ traces[t].status = "saved"
    PROVE  Saved' = Saved
<1>1. {t \in DOMAIN traces : traces[t].status = "saved"}'
         = {t \in DOMAIN traces : traces[t].status = "saved"}
  OBVIOUS
<1>2. QED
  BY <1>1 DEF Saved, LaunchesOf

-----------------------------------------------------------------------------
(* What collecting does to the streams that are waited for *)

LEMMA CollectUnchanged ==
    ASSUME IInv, UNCHANGED collectorVars
    PROVE  FlightInv' /\ UNCHANGED <<Collector, Waiting, Saved>>
BY DEF IInv, FlightInv, Streaming, Collector, Waiting, Saved, LaunchesOf, collectorVars

\* A stream that is started is neither waited for nor saved.
LEMMA StartCollects ==
    ASSUME IInv, ~is_tracing, read_ahead_task = 0, launch' \in Nat \ {0},
           NEW c \in Components, NEW chain \in Nat, StartCollecting(c, chain)
    PROVE  FlightInv' /\ UNCHANGED <<Waiting, Saved>>
<1> USE DEF IInv, StateInv
<1>1. rx_in_flight' = rx_in_flight /\ rx_in_flight \subseteq DOMAIN traces
  BY StartCollectingCases DEF TypeOK, CollectorTypeOK
<1>2. CASE traces' = traces /\ is_tracing' = FALSE
  <2>1. FlightInv'
    BY <1>1, <1>2 DEF FlightInv, Streaming
  <2>2. UNCHANGED <<Waiting, Saved>>
    BY <1>1, <1>2 DEF Waiting, Saved, LaunchesOf, Streaming
  <2>3. QED
    BY <2>1, <2>2
<1>3. CASE /\ is_tracing' = TRUE /\ rx_lifetime' = Len(traces) + 1
           /\ traces' = Append(traces, [component |-> c, chain |-> chain,
                                        launch |-> launch', status |-> "collecting"])
  <2> DEFINE stream == [component |-> c, chain |-> chain, launch |-> launch',
                        status |-> "collecting"]
  <2>1. stream \in Trace /\ stream.status = "collecting" /\ traces' = Append(traces, stream)
    BY <1>3 DEF Trace
  <2> HIDE DEF stream
  <2>2. /\ DOMAIN traces' = 1 .. (Len(traces) + 1)
        /\ DOMAIN traces = 1 .. Len(traces) /\ Len(traces) \in Nat
        /\ traces'[Len(traces) + 1] = stream
        /\ \A t \in DOMAIN traces : traces'[t] = traces[t]
    BY <2>1, AppendProperties DEF TypeOK, CollectorTypeOK
  <2>3. /\ Len(traces) + 1 \notin DOMAIN traces
        /\ DOMAIN traces' = DOMAIN traces \cup {Len(traces) + 1}
    BY <2>2
  <2>4. FlightInv'
    BY <1>1, <1>3, <2>2, <2>3 DEF FlightInv, Streaming
  <2>5. Waiting' = Waiting
    <3>1. \A t : t \in rx_in_flight' /\ Streaming(t)' <=> t \in rx_in_flight /\ Streaming(t)
      BY <1>1, <2>2 DEF Streaming
    <3>2. QED
      BY <2>2, <3>1, SameWaiting
  <2>6. Saved' = Saved
    <3>1. \A t : t \in DOMAIN traces' /\ traces'[t].status = "saved"
                    <=> t \in DOMAIN traces /\ traces[t].status = "saved"
      BY <2>1, <2>2, <2>3
    <3>2. QED
      BY <2>2, <3>1, SameSaved
  <2>7. QED
    BY <2>4, <2>5, <2>6
<1>4. QED
  BY <1>2, <1>3, StartCollectingCases

\* A collection that is given up was not waited for.
LEMMA AbortCollects ==
    ASSUME IInv, AbortTrace, FinishReadAhead
    PROVE  FlightInv' /\ Collector' = "none" /\ UNCHANGED <<Waiting, Saved>>
<1> USE DEF IInv, StateInv
<1>1. is_tracing' = FALSE /\ read_ahead_task' = 0 /\ Collector' = "none"
  BY StopCollectingReleases DEF Collector
<1>2. CASE ~is_tracing
  <2>1. traces' = traces /\ rx_in_flight' = rx_in_flight
    BY <1>2 DEF AbortTrace, IsTracing
  <2>2. FlightInv'
    BY <1>1, <1>2, <2>1 DEF FlightInv, Streaming
  <2>3. UNCHANGED <<Waiting, Saved>>
    BY <2>1 DEF Waiting, Saved, LaunchesOf, Streaming
  <2>4. QED
    BY <1>1, <2>2, <2>3
<1>3. CASE is_tracing
  <2> PICK c \in DOMAIN traces : c = rx_lifetime
    BY <1>3 DEF CollectInv, TypeOK, CollectorTypeOK
  <2>1. /\ c \notin rx_in_flight
        /\ rx_in_flight' = rx_in_flight
        /\ rx_in_flight \subseteq DOMAIN traces
        /\ traces' = Unsubscribed(c)
        /\ traces \in Seq(Trace) /\ traces[c] \in Trace
    BY <1>3, ElementProperties
       DEF AbortTrace, IsTracing, FlightInv, TypeOK, CollectorTypeOK
  <2>2. /\ DOMAIN traces' = DOMAIN traces
        /\ \A t \in DOMAIN traces : t # c => traces'[t] = traces[t]
        /\ traces'[c].launch = traces[c].launch
        /\ traces'[c].status \notin {"collecting", "have_proto"}
        /\ traces'[c].status = "saved" <=> traces[c].status = "saved"
    <3>1. CASE ~Streaming(c)
      BY <2>1, <3>1 DEF Unsubscribed, Streaming
    <3>2. CASE Streaming(c)
      <4> DEFINE dropped == [traces[c] EXCEPT !.status = "dropped"]
      <4>1. traces' = [traces EXCEPT ![c] = dropped]
        BY <2>1, <3>2 DEF Unsubscribed, Streaming
      <4>2. /\ dropped \in Trace
            /\ dropped.launch = traces[c].launch
            /\ dropped.status = "dropped"
            /\ traces[c].status # "saved"
        BY <2>1, <3>2 DEF Trace, Streaming
      <4> HIDE DEF dropped
      <4>3. /\ traces'[c] = dropped
            /\ \A t \in DOMAIN traces : t # c => traces'[t] = traces[t]
            /\ DOMAIN traces' = DOMAIN traces
        BY <2>1, <4>1, <4>2, ReplaceProperties
      <4>4. QED
        BY <4>2, <4>3
    <3>3. QED
      BY <3>1, <3>2
  <2>3. FlightInv'
    BY <1>1, <1>3, <2>1, <2>2 DEF FlightInv, Streaming
  <2>4. Waiting' = Waiting
    <3>1. \A t : t \in rx_in_flight' /\ Streaming(t)' <=> t \in rx_in_flight /\ Streaming(t)
      BY <2>1, <2>2 DEF Streaming
    <3>2. \A t \in DOMAIN traces : traces'[t].launch = traces[t].launch
      BY <2>2
    <3>3. QED
      BY <3>1, <3>2, SameWaiting
  <2>5. Saved' = Saved
    <3>1. \A t : t \in DOMAIN traces' /\ traces'[t].status = "saved"
                    <=> t \in DOMAIN traces /\ traces[t].status = "saved"
      BY <2>2
    <3>2. \A t \in DOMAIN traces : traces'[t].launch = traces[t].launch
      BY <2>2
    <3>3. QED
      BY <3>1, <3>2, SameSaved
  <2>6. QED
    BY <1>1, <2>3, <2>4, <2>5
<1>4. QED
  BY <1>2, <1>3

\* The stream of a launch that has finished is waited for, if it still runs.
LEMMA FinishCollects ==
    ASSUME IInv, MarkPendingTrace, FinishReadAhead
    PROVE  /\ FlightInv'
           /\ Collector' = "none"
           /\ Saved' = Saved
           /\ Waiting' \in {Waiting, Waiting \cup {launch}}
           /\ Waiting' # Waiting => Collector = "trace"
<1> USE DEF IInv, StateInv
<1>1. /\ is_tracing' = FALSE /\ read_ahead_task' = 0 /\ Collector' = "none"
      /\ traces' = traces
  BY StopCollectingReleases DEF Collector, MarkPendingTrace
<1>2. Saved' = Saved
  BY <1>1 DEF Saved, LaunchesOf
<1>3. CASE ~is_tracing
  <2>1. rx_in_flight' = rx_in_flight
    BY <1>3 DEF MarkPendingTrace, IsTracing
  <2>2. FlightInv' /\ Waiting' = Waiting
    BY <1>1, <1>3, <2>1 DEF FlightInv, Streaming, Waiting, LaunchesOf
  <2>3. QED
    BY <1>1, <1>2, <2>2
<1>4. CASE is_tracing
  <2> PICK c \in DOMAIN traces : c = rx_lifetime
    BY <1>4 DEF CollectInv, TypeOK, CollectorTypeOK
  <2>1. /\ rx_in_flight' = rx_in_flight \cup {c}
        /\ traces[c].launch = launch
        /\ Collector = "trace"
    BY <1>4 DEF MarkPendingTrace, IsTracing, CollectInv, Collector
  <2>2. FlightInv'
    BY <1>1, <2>1 DEF FlightInv, Streaming
  <2>3. \A t : Streaming(t)' <=> Streaming(t)
    BY <1>1 DEF Streaming
  <2>4. CASE Streaming(c)
    <3>1. {t \in rx_in_flight : Streaming(t)}' = {t \in rx_in_flight : Streaming(t)} \cup {c}
      BY <2>1, <2>3, <2>4
    <3>2. Waiting' = Waiting \cup {launch}
      BY <1>1, <2>1, <3>1 DEF Waiting, LaunchesOf
    <3>3. QED
      BY <1>1, <1>2, <2>1, <2>2, <3>2
  <2>5. CASE ~Streaming(c)
    <3>1. {t \in rx_in_flight : Streaming(t)}' = {t \in rx_in_flight : Streaming(t)}
      BY <2>1, <2>3, <2>5
    <3>2. Waiting' = Waiting
      BY <1>1, <3>1 DEF Waiting, LaunchesOf
    <3>3. QED
      BY <1>1, <1>2, <2>1, <2>2, <3>2
  <2>6. QED
    BY <2>4, <2>5
<1>5. QED
  BY <1>3, <1>4

-----------------------------------------------------------------------------
(* The steps, one lemma per handler *)

\* Nothing but the defender moves, and the launch under way stays it.
LEMMA StepCarried ==
    ASSUME IInv, UNCHANGED stateVars, UNCHANGED Current
    PROVE  FlightInv' /\ ProtocolStep
<1>1. UNCHANGED <<collectorVars, recordVars>>
  BY DEF stateVars
<1>2. Recorded' = Recorded
  BY <1>1 DEF Recorded, recordVars
<1>3. QED
  BY <1>1, <1>2, CollectUnchanged DEF ProtocolStep

\* A new launch begins.
LEMMA StepIntentStarted ==
    ASSUME IInv, ~UnderWay, launch' = launch + 1, last_event_type' = "IntentStarted",
           NEW c \in Components \cup {NoComponent}, OnIntentStarted(c)
    PROVE  FlightInv' /\ ProtocolStep
<1> USE DEF IInv, StateInv
<1>1. /\ ~is_tracing /\ read_ahead_task = 0
      /\ launch \in Nat /\ launch' \in Nat \ {0} /\ launch' > launch
      /\ Current = 0 /\ Current' = launch'
      /\ histories' = histories
  BY DEF OnIntentStarted, CollectInv, Active, UnderWay, TypeOK, DefenderTypeOK, recordVars,
         Current
<1>2. launch' \notin Recorded \cup Waiting \cup Saved
  <2>1. /\ \A h \in DOMAIN histories : histories[h].launch # launch'
        /\ \A t \in DOMAIN traces : traces[t].launch # launch'
    BY <1>1, LaunchesAreNumbers DEF LaunchInv
  <2>2. rx_in_flight \subseteq DOMAIN traces
    BY DEF TypeOK, CollectorTypeOK
  <2>3. QED
    BY <2>1, <2>2 DEF Recorded, Waiting, Saved, LaunchesOf
<1>3. Recorded' = Recorded
  BY <1>1 DEF Recorded
<1>4. FlightInv' /\ UNCHANGED <<Waiting, Saved>>
  <2>1. CASE UNCHANGED collectorVars
    BY <2>1, CollectUnchanged
  <2>2. CASE c # NoComponent /\ StartCollecting(c, Len(chains) + 1)
    <3>1. Len(chains) + 1 \in Nat
      BY DEF TypeOK, RecordTypeOK
    <3>2. QED
      BY <1>1, <2>2, <3>1, StartCollects
  <2>3. QED
    BY <2>1, <2>2 DEF OnIntentStarted
<1>5. QED
  BY <1>1, <1>2, <1>3, <1>4, ProtocolActions

\* A launch that fails or is cancelled finishes without a row.
LEMMA StepAbandoned ==
    ASSUME IInv, UnderWay, ~UnderWay', OnIntentFailed \/ OnActivityLaunchCancelled
    PROVE  FlightInv' /\ ProtocolStep
<1> USE DEF IInv, StateInv
<1>1. /\ launch \in Nat /\ Current # 0 /\ Current' = 0
      /\ histories' = histories
  BY DEF Current, LaunchInv, TypeOK, DefenderTypeOK, OnIntentFailed,
         OnActivityLaunchCancelled, recordVars
<1>2. Recorded' = Recorded
  BY <1>1 DEF Recorded
<1>3. FlightInv' /\ Collector' = "none" /\ UNCHANGED <<Waiting, Saved>>
  <2>1. CASE IsBlacklisted(component_name)
    <3>1. UNCHANGED collectorVars
      BY <2>1 DEF OnIntentFailed, OnActivityLaunchCancelled
    <3>2. Collector = "none"
      BY <2>1 DEF Collector, CollectInv, Active
    <3>3. QED
      BY <3>1, <3>2, CollectUnchanged
  <2>2. CASE ~IsBlacklisted(component_name)
    <3>1. AbortTrace /\ FinishReadAhead
      BY <2>2 DEF OnIntentFailed, OnActivityLaunchCancelled, AbortReadAhead
    <3>2. QED
      BY <3>1, AbortCollects
  <2>3. QED
    BY <2>1, <2>2
<1>4. QED
  BY <1>1, <1>2, <1>3, ProtocolActions

\* A launch whose activity is known starts late, gives up, or goes on.
LEMMA StepActivityLaunched ==
    ASSUME IInv, UnderWay, UnderWay', launch' = launch,
           NEW c \in Components, NEW cold \in BOOLEAN, OnActivityLaunched(c, cold)
    PROVE  FlightInv' /\ ProtocolStep
<1> USE DEF IInv, StateInv
<1>1. /\ launch \in Nat \ {0} /\ Current # 0 /\ Current' = Current
      /\ histories' = histories
  BY DEF Current, LaunchInv, TypeOK, DefenderTypeOK, OnActivityLaunched, recordVars
<1>2. Recorded' = Recorded
  BY <1>1 DEF Recorded
<1>3. /\ FlightInv' /\ UNCHANGED <<Waiting, Saved>>
      /\ Collector # "none" => Collector' \in {"none", Collector}
  <2>1. CASE UNCHANGED collectorVars
    BY <2>1, CollectUnchanged
  <2>2. CASE AbortTrace /\ FinishReadAhead
    BY <2>2, AbortCollects
  <2>3. CASE ~is_tracing /\ read_ahead_task = 0 /\ StartCollecting(c, observable)
    <3>1. observable \in Nat
      BY AppendProperties DEF TypeOK, RecordTypeOK
    <3>2. Collector = "none"
      BY <2>3 DEF Collector
    <3>3. QED
      BY <1>1, <2>3, <3>1, <3>2, StartCollects
  <2>4. QED
    BY <2>1, <2>2, <2>3 DEF OnActivityLaunched, IsTracing, IsReadAhead, AbortReadAhead
<1>4. QED
  BY <1>1, <1>2, <1>3, ProtocolActions

\* A launch that finishes is recorded, or not, and its stream is waited for.
LEMMA StepActivityLaunchFinished ==
    ASSUME IInv, UnderWay, ~UnderWay', launch' = launch, OnActivityLaunchFinished
    PROVE  FlightInv' /\ ProtocolStep
<1> USE DEF IInv, StateInv
<1>1. launch \in Nat /\ Current = launch /\ Current # 0 /\ Current' = 0
  BY DEF Current, LaunchInv, TypeOK, DefenderTypeOK
<1>2. CASE IsBlacklisted(component_name)
  <2>1. UNCHANGED <<collectorVars, recordVars>>
    BY <1>2 DEF OnActivityLaunchFinished
  <2>2. Collector = "none"
    BY <1>2 DEF Collector, CollectInv, Active
  <2>3. Recorded' = Recorded
    BY <2>1 DEF Recorded, recordVars
  <2>4. QED
    BY <1>1, <2>1, <2>2, <2>3, CollectUnchanged, ProtocolActions
<1>3. CASE ~IsBlacklisted(component_name)
  <2>1. RecordDbLaunchHistory /\ MarkPendingTrace /\ FinishReadAhead
    BY <1>3 DEF OnActivityLaunchFinished
  <2>2. Recorded' \in {Recorded, Recorded \cup {launch}}
    <3> DEFINE row == [component |-> component_name, temperature |-> temperature,
                       trace_enabled |-> IsTracing, readahead_enabled |-> IsReadAhead,
                       intent_started |-> intent_started, total_time |-> total_time',
                       fully_drawn |-> 0, launch |-> launch]
    <3>1. histories' = histories \/ histories' = Append(histories, row)
      BY <2>1 DEF RecordDbLaunchHistory, InsertDbLaunchHistory
    <3>2. row.launch = launch
      OBVIOUS
    <3> HIDE DEF row
    <3>3. histories \in Seq(HistoryRow)
      BY DEF TypeOK, RecordTypeOK
    <3>4. ASSUME histories' = Append(histories, row)
          PROVE  Recorded' = Recorded \cup {launch}
      <4>1. /\ DOMAIN histories' = DOMAIN histories \cup {Len(histories) + 1}
            /\ Len(histories) + 1 \notin DOMAIN histories
            /\ \A h \in DOMAIN histories : histories'[h] = histories[h]
            /\ histories'[Len(histories) + 1] = row
        BY <3>3, <3>4
      <4>2. QED
        BY <3>2, <4>1 DEF Recorded
    <3>5. QED
      BY <3>1, <3>4 DEF Recorded
  <2>3. QED
    BY <1>1, <2>1, <2>2, FinishCollects, ProtocolActions
<1>4. QED
  BY <1>2, <1>3

\* The time of a report goes into a row that is there already.
LEMMA StepReportFullyDrawn ==
    ASSUME IInv, ~UnderWay, ~UnderWay', OnReportFullyDrawn
    PROVE  FlightInv' /\ ProtocolStep
<1>1. UNCHANGED collectorVars
  BY DEF OnReportFullyDrawn
<1>2. Current' = Current
  BY DEF Current
<1>3. Recorded' = Recorded
  <2>1. CASE histories' = histories
    BY <2>1 DEF Recorded
  <2>2. CASE /\ recent_history # 0
             /\ histories' = [histories EXCEPT ![recent_history].fully_drawn = launch]
    <3>1. /\ recent_history \in DOMAIN histories
          /\ histories[recent_history] \in HistoryRow
      BY <2>2, ElementProperties DEF IInv, StateInv, TypeOK, RecordTypeOK
    <3>2. /\ DOMAIN histories' = DOMAIN histories
          /\ \A h \in DOMAIN histories : histories'[h].launch = histories[h].launch
      BY <2>2, <3>1 DEF HistoryRow
    <3>3. QED
      BY <3>2 DEF Recorded
  <2>3. QED
    BY <2>1, <2>2 DEF OnReportFullyDrawn
<1>4. QED
  BY <1>1, <1>2, <1>3, CollectUnchanged DEF ProtocolStep

\* A stream moves on: what ends it, if it was waited for, is a save or a loss.
LEMMA StepTraces ==
    ASSUME IInv, NEW t \in DOMAIN traces,
           TraceCollected(t) \/ TraceChainError(t) \/ TraceSaved(t)
    PROVE  FlightInv' /\ ProtocolStep
<1> USE DEF IInv, StateInv
<1>1. /\ UNCHANGED <<defenderVars, fieldVars, recordVars>>
      /\ UNCHANGED <<read_ahead_task, is_tracing, rx_lifetime, rx_in_flight, sessions>>
      /\ Streaming(t)
  BY DEF TraceCollected, TraceChainError, TraceSaved, Streaming
<1>2. PICK status \in {"have_proto", "dropped", "saved"} :
         /\ traces' = [traces EXCEPT ![t].status = status]
         /\ status = "saved" => Chain(t).status = "id"
  BY DEF TraceCollected, TraceChainError, TraceSaved
<1>3. /\ DOMAIN traces' = DOMAIN traces
      /\ traces'[t].status = status
      /\ \A u \in DOMAIN traces : u # t => traces'[u] = traces[u]
      /\ \A u \in DOMAIN traces : traces'[u].launch = traces[u].launch
      /\ rx_in_flight \subseteq DOMAIN traces
      /\ traces[t].status # "saved"
  <2> DEFINE moved == [traces[t] EXCEPT !.status = status]
  <2>1. traces \in Seq(Trace) /\ traces[t] \in Trace /\ rx_in_flight \subseteq DOMAIN traces
    BY ElementProperties DEF TypeOK, CollectorTypeOK
  <2>2. moved \in Trace /\ moved.launch = traces[t].launch /\ moved.status = status
    BY <2>1 DEF Trace
  <2>3. traces' = [traces EXCEPT ![t] = moved]
    BY <1>2
  <2> HIDE DEF moved
  <2>4. /\ traces'[t] = moved
        /\ DOMAIN traces' = DOMAIN traces
        /\ \A u \in DOMAIN traces : u # t => traces'[u] = traces[u]
    BY <2>1, <2>2, <2>3, ReplaceProperties
  <2>5. QED
    BY <1>1, <2>1, <2>2, <2>4 DEF Streaming
<1>4. FlightInv'
  <2>1. \A u \in DOMAIN traces : Streaming(u)' => Streaming(u)
    BY <1>1, <1>3 DEF Streaming
  <2>2. QED
    BY <1>1, <1>3, <2>1 DEF FlightInv
<1>5. UNCHANGED <<Current, Collector, Recorded>>
  BY <1>1 DEF Current, Collector, Recorded, UnderWay, defenderVars, recordVars
<1> DEFINE l == traces[t].launch
<1>6. t \notin rx_in_flight \/ status = "have_proto" => Waiting' = Waiting
  <2>1. SUFFICES ASSUME t \notin rx_in_flight \/ status = "have_proto"
                 PROVE  Waiting' = Waiting
    OBVIOUS
  <2>2. \A u : u \in rx_in_flight' /\ Streaming(u)' <=> u \in rx_in_flight /\ Streaming(u)
    BY <1>1, <1>3, <2>1 DEF Streaming
  <2>3. QED
    BY <1>3, <2>2, SameWaiting
<1>7. t \in rx_in_flight /\ status # "have_proto" =>
         l \in Waiting /\ Waiting' = Waiting \ {l}
  <2>1. SUFFICES ASSUME t \in rx_in_flight, status # "have_proto"
                 PROVE  l \in Waiting /\ Waiting' = Waiting \ {l}
    OBVIOUS
  <2> DEFINE W == {u \in rx_in_flight : Streaming(u)}
  <2>2. {u \in rx_in_flight : Streaming(u)}' = W \ {t}
    BY <1>1, <1>3, <2>1 DEF Streaming
  <2>3. t \in W /\ W \subseteq DOMAIN traces
    BY <1>1, <1>3, <2>1
  <2>4. Waiting = {traces[u].launch : u \in W}
    BY DEF Waiting, LaunchesOf
  <2> HIDE DEF W
  <2>5. Waiting' = {traces[u].launch : u \in W \ {t}}
    BY <1>3, <2>2, <2>3 DEF Waiting, LaunchesOf
  <2>6. \A u \in W : traces[u].launch = l => u = t
    BY <2>3, OneStream
  <2>7. QED
    BY <2>3, <2>4, <2>5, <2>6
<1>8. CASE status # "saved"
  <2>1. \A u : u \in DOMAIN traces' /\ traces'[u].status = "saved"
                  <=> u \in DOMAIN traces /\ traces[u].status = "saved"
    BY <1>3, <1>8
  <2>2. Saved' = Saved
    BY <1>3, <2>1, SameSaved
  <2>3. QED
    BY <1>4, <1>5, <1>6, <1>7, <2>2, ProtocolActions DEF ProtocolStep
<1>9. CASE status = "saved"
  <2>1. /\ Chain(t).status = "id" /\ Chain(t).launch = l
        /\ traces[t].chain \in DOMAIN chains
    BY <1>2, <1>9 DEF TraceInv
  <2>2. Chain(t).history \in DOMAIN histories /\ histories[Chain(t).history].launch = l
    BY <2>1 DEF ChainInv, Chain
  <2>3. l \in Recorded
    BY <2>2 DEF Recorded
  <2>4. t \in rx_in_flight
    <3>1. SUFFICES ASSUME is_tracing, t = rx_lifetime
                   PROVE  FALSE
      BY <1>1 DEF FlightInv
    <3>2. Active /\ l = launch
      BY <3>1 DEF CollectInv
    <3>3. histories[Chain(t).history].launch < launch /\ launch \in Nat
      BY <2>2, <3>2 DEF LaunchInv, Active, TypeOK, DefenderTypeOK
    <3>4. QED
      BY <2>2, <3>2, <3>3
  <2>5. Saved' = Saved \cup {l}
    <3>1. {u \in DOMAIN traces : traces[u].status = "saved"}'
            = {u \in DOMAIN traces : traces[u].status = "saved"} \cup {t}
      BY <1>3, <1>9
    <3>2. QED
      BY <1>3, <3>1 DEF Saved, LaunchesOf
  <2>6. QED
    BY <1>4, <1>5, <1>7, <1>9, <2>3, <2>4, <2>5, ProtocolActions
<1>10. QED
  BY <1>8, <1>9

\* A restart gives up what is collected and what is waited for.
LEMMA StepRestart ==
    ASSUME IInv, Restart
    PROVE  FlightInv' /\ ProtocolStep
<1>1. /\ DOMAIN traces' = DOMAIN traces
      /\ \A t \in DOMAIN traces :
           /\ traces'[t].launch = traces[t].launch
           /\ traces'[t].status = IF traces[t].status = "saved" THEN "saved" ELSE "dropped"
  <2>1. \A t \in DOMAIN traces : traces[t] \in Trace
    BY ElementProperties DEF IInv, StateInv, TypeOK, CollectorTypeOK
  <2>2. QED
    BY <2>1 DEF Restart, Trace
<1>2. FlightInv'
  BY <1>1 DEF FlightInv, Streaming, Restart
<1>3. Current' = 0 /\ Collector' = "none" /\ Recorded' = Recorded
  BY DEF Restart, Current, UnderWay, Collector, Recorded
<1>4. Waiting' = {}
  BY DEF Restart, Waiting, LaunchesOf
<1>5. Saved' = Saved
  BY <1>1, SameSaved
<1>6. QED
  BY <1>2, <1>3, <1>4, <1>5, ProtocolActions

\* Every event that the defender lets through is a step of the protocol.
LEMMA StepAppLaunchEvent ==
    ASSUME Aligned, IInv, NEW type \in EventTypes, OnAppLaunchEvent(type)
    PROVE  FlightInv' /\ ProtocolStep
<1> DEFINE event == Defend(last_event_type, type)
<1>1. /\ last_event_type' = event
      /\ launch' = IF type = "IntentStarted" THEN launch + 1 ELSE launch
      /\ IF event # "Uninitialized" THEN OnNewEvent(event) ELSE UNCHANGED stateVars
  BY DEF OnAppLaunchEvent, Aligned
<1>2. \/ event = "Uninitialized" /\ ~UnderWay /\ type # "IntentStarted"
      \/ event = "IntentStarted" /\ ~UnderWay /\ type = event
      \/ event = "IntentFailed" /\ last_event_type = "IntentStarted"
      \/ event = "ActivityLaunched" /\ last_event_type = "IntentStarted" /\ type = event
      \/ event = "ActivityLaunchFinished" /\ last_event_type = "ActivityLaunched"
           /\ type = event
      \/ event = "ActivityLaunchCancelled" /\ last_event_type = "ActivityLaunched"
      \/ event = "ReportFullyDrawn" /\ last_event_type = "ActivityLaunchFinished"
           /\ type = event
  BY DefendCases DEF IInv, StateInv, TypeOK
<1> HIDE DEF event
<1>3. CASE event = "Uninitialized"
  <2>1. UNCHANGED Current
    BY <1>1, <1>2, <1>3 DEF Current, UnderWay
  <2>2. QED
    BY <1>1, <1>3, <2>1, StepCarried
<1>4. CASE event = "IntentStarted"
  BY <1>1, <1>2, <1>4, StepIntentStarted DEF OnNewEvent
<1>5. CASE event = "ActivityLaunched"
  <2>1. launch' = launch /\ UnderWay /\ UnderWay'
    BY <1>1, <1>2, <1>5 DEF UnderWay
  <2>2. CASE launch \in Titled
    <3>1. UNCHANGED Current
      BY <2>1 DEF Current
    <3>2. UNCHANGED stateVars
      BY <1>1, <1>5, <2>2 DEF OnNewEvent, OnActivityTitle
    <3>3. QED
      BY <3>1, <3>2, StepCarried
  <2>3. CASE launch \notin Titled
    BY <1>1, <1>5, <2>1, <2>3, StepActivityLaunched DEF OnNewEvent
  <2>4. QED
    BY <2>2, <2>3
<1>6. CASE event = "ActivityLaunchFinished"
  <2>1. launch' = launch /\ UnderWay /\ ~UnderWay'
    BY <1>1, <1>2, <1>6 DEF UnderWay
  <2>2. QED
    BY <1>1, <1>6, <2>1, StepActivityLaunchFinished DEF OnNewEvent
<1>7. CASE event = "ReportFullyDrawn"
  <2>1. ~UnderWay /\ ~UnderWay'
    BY <1>1, <1>2, <1>7 DEF UnderWay
  <2>2. QED
    BY <1>1, <1>7, <2>1, StepReportFullyDrawn DEF OnNewEvent
<1>8. CASE event \in {"IntentFailed", "ActivityLaunchCancelled"}
  <2>1. UnderWay /\ ~UnderWay'
    BY <1>1, <1>2, <1>8 DEF UnderWay
  <2>2. QED
    BY <1>1, <1>8, <2>1, StepAbandoned DEF OnNewEvent
<1>9. QED
  BY <1>2, <1>3, <1>4, <1>5, <1>6, <1>7, <1>8

\* Every step of aligned launches is a step of the protocol, or none.
LEMMA StepProtocol ==
    ASSUME Aligned, IInv, [Next]_vars
    PROVE  FlightInv' /\ ProtocolStep
<1>1. ASSUME NEW type \in EventTypes, OnAppLaunchEvent(type)
      PROVE  FlightInv' /\ ProtocolStep
  BY <1>1, StepAppLaunchEvent
<1>2. CASE Subscribe
  BY <1>2, StepCarried DEF Subscribe, Current, UnderWay
<1>3. CASE TraceStep
  BY <1>3, StepTraces DEF TraceStep
<1>4. CASE Restart
  BY <1>4, StepRestart
<1>5. CASE UNCHANGED vars
  BY <1>5, StepCarried DEF vars, defenderVars, Current, UnderWay
<1>6. QED
  BY <1>1, <1>2, <1>3, <1>4, <1>5 DEF Next

\* For every aligned launch the inductive invariant always holds: above all a
\* stream that still runs is the current one or was left in flight, so that
\* none runs whose launch has forgotten it.
THEOREM Invariant ==
    ASSUME Aligned
    PROVE  Spec => []IInv
<1>1. Init => FlightInv
  BY EmptyProperties DEF Init, FlightInv
<1>2. StateInv /\ FlightInv /\ [Next]_vars => FlightInv'
  BY StepProtocol DEF IInv
<1>3. StateInv /\ FlightInv => IInv
  BY DEF IInv
<1>4. QED
  BY <1>1, <1>2, <1>3, StateInvariant, PTL DEF Spec

\* The event manager implements LaunchProtocol for aligned launches: they come
\* one at a time, each is collected by at most one means, which is only ever
\* given up, and a trace is saved only after its launch was traced to its end
\* and recorded.
THEOREM ProtocolImplemented ==
    ASSUME Aligned
    PROVE  Spec => ImplementsProtocol
<1>1. Init => Protocol!Init
  BY EmptyProperties DEF Init, Protocol!Init, UnderWay, LaunchesOf
<1>2. IInv /\ [Next]_vars => [Protocol!Next]_(Protocol!pvars)
  BY StepProtocol
     DEF ProtocolStep, Protocol!pvars, Current, Collector, Recorded, Waiting, Saved
<1>3. QED
  BY <1>1, <1>2, Invariant, PTL DEF Spec, ImplementsProtocol, Protocol!Spec
=============================================================================
