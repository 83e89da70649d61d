------------------------ MODULE PerfettoStreamsProofs ------------------------
(***************************************************************************)
(* Proofs about PerfettoStreams, for any number of handles: type           *)
(* correctness, the validity of handles, the delivery of traces, and the   *)
(* safety part of the promise that LaunchEvents relies on.                 *)
(***************************************************************************)
EXTENDS PerfettoStreams, TLAPS

-----------------------------------------------------------------------------
(* Type correctness *)

\* The kinds of handles stay kinds when a reference is dropped.
LEMMA ReleaseType ==
    ASSUME NEW h \in Handles, NEW k \in [Handles -> Kinds \cup {"untracked"}],
           ReleaseHandle(h, k)
    PROVE  kind' \in [Handles -> Kinds \cup {"untracked"}]
  BY DEF ReleaseHandle

\* Sequences of state changes, as the zip builds and takes them apart.
LEMMA Queues ==
    /\ <<>> \in Notifications
    /\ <<>> \in Seq(States)
    /\ \A q \in Notifications :
          /\ \A s \in States \cup {"Error"} : Append(q, s) \in Notifications
          /\ q # <<>> => /\ Tail(q) \in Notifications
                         /\ Head(q) \in States \cup {"Error"}
    /\ \A q \in Seq(States), s \in States : Append(q, s) \in Seq(States)
  BY DEF Notifications

\* A callback leaves well-typed subjects and state changes.
LEMMA CallbackType ==
    ASSUME TypeOK, NEW h \in Handles, NEW s \in States, CallbackOnStateChanged(h, s)
    PROVE  /\ kind' \in [Handles -> Kinds \cup {"untracked"}]
           /\ SubjectTypeOK'
           /\ ZipTypeOK'
  <1> USE DEF TypeOK
  <1>1. kind' \in [Handles -> Kinds \cup {"untracked"}]
    BY ReleaseType DEF ConsumerTypeOK, CallbackOnStateChanged
  <1>2. CASE subject[h] = "bound"
    <2>1. OnStateChanged(h, s)
      BY <1>2 DEF CallbackOnStateChanged
    <2>2. inbox' \in [Handles -> Notifications]
      <3>1. /\ Append(inbox[h], s) \in Notifications
            /\ Append(inbox[h], "Error") \in Notifications
        BY Queues DEF ZipTypeOK
      <3> QED BY <2>1, <3>1 DEF OnStateChanged, EmitError, EmitNext, ZipTypeOK
    <2>3. SubjectTypeOK'
      BY <2>1 DEF OnStateChanged, SubjectTypeOK, CallbackOnStateChanged
    <2> QED
      BY <1>1, <2>2, <2>3 DEF ZipTypeOK, CallbackOnStateChanged
  <1>3. CASE subject[h] # "bound"
    BY <1>1, <1>3 DEF CallbackOnStateChanged, SubjectTypeOK, ZipTypeOK, subjectVars
  <1> QED BY <1>2, <1>3

\* What a command does in a state.
LEMMA ExecuteType ==
    ASSUME TypeOK, NEW h \in Handles, NEW n, NEW s, Execute(h, n, s)
    PROVE  /\ kind' \in [Handles -> Kinds \cup {"untracked"}]
           /\ session' \in [Handles -> Sessions]
           /\ timers' \subseteq Handles
           /\ proto' \in [Handles -> {"none", "trace", "empty"}]
  <1> USE DEF TypeOK, PerfettoTypeOK, ConsumerTypeOK, ZipTypeOK
  <1>1. CASE Destroy(h)
    BY <1>1 DEF Destroy
  <1>2. CASE StartTracing(h)
    <2>1. [kind EXCEPT ![h] = "started"] \in [Handles -> Kinds \cup {"untracked"}]
      BY DEF Kinds
    <2> QED BY <1>2, <2>1, ReleaseType DEF StartTracing, Sessions
  <1>3. CASE ReadTrace(h)
    <2>1. [kind EXCEPT ![h] = "read"] \in [Handles -> Kinds \cup {"untracked"}]
      BY DEF Kinds
    <2> QED BY <1>3, <2>1, ReleaseType DEF ReadTrace
  <1>4. CASE ReleaseHandle(h, kind) /\ UNCHANGED <<session, timers, proto>>
    BY <1>4, ReleaseType
  <1> QED BY <1>1, <1>2, <1>3, <1>4 DEF Execute

\* The zip after a command or a state change.
LEMMA SettleType ==
    ASSUME ZipTypeOK, NEW h \in Handles, NEW seen \in Seq(States), NEW sent,
           Len(seen) > Len(arrived[h]) => inbox[h] # <<>>,
           Settle(h, seen, sent)
    PROVE  /\ inbox' \in [Handles -> Notifications]
           /\ arrived' \in [Handles -> Seq(States)]
           /\ out' \in [Handles -> {"none", "open", "completed", "error", "unsubscribed"}]
  <1>1. CASE ZipCompleted(seen, sent)
    BY <1>1, Queues DEF Settle, ZipTypeOK
  <1>2. CASE ~ZipCompleted(seen, sent)
    <2>1. inbox[h] # <<>> => Tail(inbox[h]) \in Notifications
      BY Queues DEF ZipTypeOK
    <2>2. inbox' = [inbox EXCEPT ![h] =
                      IF Len(seen) > Len(arrived[h]) THEN Tail(@) ELSE @]
      BY <1>2 DEF Settle
    <2>3. inbox' \in [Handles -> Notifications]
      BY <2>1, <2>2 DEF ZipTypeOK
    <2> QED BY <1>2, <2>3 DEF Settle, ZipTypeOK
  <1> QED BY <1>1, <1>2

LEMMA InitType == Init => TypeOK
  BY PerfettoAssumption, Queues
  DEF Init, TypeOK, PerfettoTypeOK, ConsumerTypeOK, WatchdogTypeOK, SubjectTypeOK,
      ZipTypeOK, Handles, Idle, Kinds, Sessions

LEMMA NextType == TypeOK /\ [Next]_vars => TypeOK'
  <1> SUFFICES ASSUME TypeOK, [Next]_vars
               PROVE  TypeOK'
    OBVIOUS
  <1> USE PerfettoAssumption DEF TypeOK
  <1>1. CASE CreateRaw
    <2>1. PerfettoTypeOK'
      BY <1>1 DEF CreateRaw, PerfettoTypeOK, Sessions
    <2>2. SubjectTypeOK'
      BY <1>1 DEF CreateRaw, SubjectTypeOK, subjectVars, Handles
    <2> QED
      BY <1>1, <2>1, <2>2
      DEF CreateRaw, ConsumerTypeOK, WatchdogTypeOK, ZipTypeOK, consumerVars
  <1>2. CASE TrackHandle
    <2>1. ConsumerTypeOK'
      BY <1>2 DEF TrackHandle, ConsumerTypeOK, SubjectTypeOK, Kinds
    <2> QED
      BY <1>2, <2>1
      DEF TrackHandle, PerfettoTypeOK, WatchdogTypeOK, SubjectTypeOK, ZipTypeOK,
          perfettoVars, subjectVars, zipVars
  <1>3. CASE MapSubject \/ BindHandle
    <2>1. SubjectTypeOK'
      BY <1>3 DEF MapSubject, BindHandle, SubjectTypeOK
    <2> QED
      BY <1>3, <2>1
      DEF MapSubject, BindHandle, PerfettoTypeOK, ConsumerTypeOK, WatchdogTypeOK,
          ZipTypeOK, perfettoVars, consumerVars, zipVars
  <1>4. ASSUME NEW h \in Handles, Report(h)
        PROVE  TypeOK'
    <2>1. PICK r \in Reportable(h) :
             /\ session' = [session EXCEPT ![h] = r[3]]
             /\ CallbackOnStateChanged(h, r[2])
      BY <1>4 DEF Report
    <2>2. /\ r[2] \in States
          /\ r[3] \in Sessions
      BY DEF Reportable, StateDiagram, States, Sessions
    <2>3. PerfettoTypeOK'
      BY <1>4, <2>1, <2>2 DEF Report, PerfettoTypeOK
    <2>4. /\ kind' \in [Handles -> Kinds \cup {"untracked"}]
          /\ SubjectTypeOK'
          /\ ZipTypeOK'
      BY <2>1, <2>2, CallbackType
    <2> QED BY <1>4, <2>3, <2>4 DEF Report, ConsumerTypeOK, WatchdogTypeOK
  <1>5. ASSUME NEW h \in Handles, SendCommand(h) \/ ZipState(h)
        PROVE  TypeOK'
    <2>1. commands' \in [Handles -> 0 .. 3]
      <3>1. CASE SendCommand(h)
        <4>1. commands[h] \in 0 .. 3 /\ commands[h] + 1 <= 3
          BY <3>1 DEF SendCommand, ZipTypeOK
        <4>2. commands' = [commands EXCEPT ![h] = commands[h] + 1]
          BY <3>1 DEF SendCommand
        <4> QED BY <4>1, <4>2 DEF ZipTypeOK
      <3>2. CASE ZipState(h)
        BY <3>2 DEF ZipState, ZipTypeOK
      <3> QED BY <1>5, <3>1, <3>2
    <2>2. PICK seen \in Seq(States), sent \in 0 .. 3 :
             /\ Settle(h, seen, sent)
             /\ Len(seen) > Len(arrived[h]) => inbox[h] # <<>>
      <3>1. CASE SendCommand(h)
        <4>1. commands[h] \in 0 .. 3 /\ arrived[h] \in Seq(States)
          BY DEF ZipTypeOK
        <4>3. commands[h] + 1 <= 3
          BY <3>1 DEF SendCommand
        <4>2. Settle(h, arrived[h], commands[h] + 1)
          BY <3>1 DEF SendCommand
        <4> QED BY <4>1, <4>2, <4>3
      <3>2. CASE ZipState(h)
        BY <3>2, Queues DEF ZipState, ZipTypeOK
      <3> QED BY <1>5, <3>1, <3>2
    <2>3. /\ inbox' \in [Handles -> Notifications]
          /\ arrived' \in [Handles -> Seq(States)]
          /\ out' \in [Handles -> {"none", "open", "completed", "error", "unsubscribed"}]
      BY <2>2, SettleType
    <2>4. \/ \E n, s : Execute(h, n, s)
          \/ UNCHANGED <<session, kind, timers, proto>>
      BY <1>5 DEF SendCommand, ZipState
    <2>5. /\ kind' \in [Handles -> Kinds \cup {"untracked"}]
          /\ session' \in [Handles -> Sessions]
          /\ timers' \subseteq Handles
          /\ proto' \in [Handles -> {"none", "trace", "empty"}]
      BY <2>4, ExecuteType DEF PerfettoTypeOK, ConsumerTypeOK, ZipTypeOK
    <2>6. UNCHANGED <<deferred, created, watchdog, creator, subjectVars>>
      BY <1>5 DEF SendCommand, ZipState
    <2> QED
      BY <2>1, <2>3, <2>5, <2>6
      DEF PerfettoTypeOK, ConsumerTypeOK, WatchdogTypeOK, SubjectTypeOK, ZipTypeOK,
          subjectVars
  <1>6. ASSUME NEW h \in Handles, ZipError(h) \/ Unsubscribe(h)
        PROVE  TypeOK'
    <2>1. PICK how \in {"error", "unsubscribed"} : EndStream(h, how)
      BY <1>6 DEF ZipError, Unsubscribe
    <2>2. kind' \in [Handles -> Kinds \cup {"untracked"}]
      BY <2>1, ReleaseType DEF EndStream, ConsumerTypeOK
    <2>3. ZipTypeOK'
      BY <2>1, Queues DEF EndStream, ZipTypeOK
    <2> QED
      BY <2>1, <2>2, <2>3
      DEF EndStream, PerfettoTypeOK, ConsumerTypeOK, WatchdogTypeOK, SubjectTypeOK,
          perfettoVars, subjectVars
  <1>7. ASSUME NEW h \in Handles, OnTraceMessage(h)
        PROVE  TypeOK'
    <2>1. WatchdogTypeOK'
      <3>1. CASE kind[h] = "untracked"
        BY <1>7, <3>1 DEF OnTraceMessage, WatchdogTypeOK
      <3>2. CASE kind[h] # "untracked"
        <4>1. kind[h] \in Kinds /\ h \in 0 .. MaxHandles
          BY <3>2 DEF ConsumerTypeOK, Handles
        <4> QED BY <1>7, <3>2, <4>1 DEF OnTraceMessage, WatchdogTypeOK
      <3> QED BY <3>1, <3>2
    <2> QED
      BY <1>7, <2>1
      DEF OnTraceMessage, PerfettoTypeOK, ConsumerTypeOK, SubjectTypeOK, ZipTypeOK,
          perfettoVars, subjectVars, zipVars
  <1>8. ASSUME NEW h \in Handles, CheckTimeout(h) \/ PruneTrace(h)
        PROVE  TypeOK'
    <2>1. WatchdogTypeOK'
      BY <1>8 DEF CheckTimeout, PruneTrace, WatchdogTypeOK, Idle, Kinds
    <2>2. /\ kind' \in [Handles -> Kinds \cup {"untracked"}]
          /\ SubjectTypeOK'
          /\ ZipTypeOK'
      <3>1. CASE CallbackOnStateChanged(h, "TraceFailed")
        BY <3>1, CallbackType DEF States
      <3>2. CASE UNCHANGED <<kind, creator, subjectVars, zipVars>>
        BY <3>2 DEF ConsumerTypeOK, SubjectTypeOK, ZipTypeOK, subjectVars, zipVars
      <3> QED BY <1>8, <3>1, <3>2 DEF CheckTimeout, PruneTrace
    <2> QED
      BY <1>8, <2>1, <2>2
      DEF CheckTimeout, PruneTrace, PerfettoTypeOK, ConsumerTypeOK, perfettoVars
  <1>9. CASE CullTraces
    <2>1. WatchdogTypeOK'
      <3>1. {g \in Tracked : Cardinality({f \in Tracked : f < g})
                                \in 1 .. (Cardinality(Tracked) - MaxTraces)}
              \subseteq Handles
        BY DEF Tracked
      <3>2. CASE watchdog' = Idle
        BY <3>2 DEF WatchdogTypeOK, Idle, Kinds
      <3>3. CASE watchdog' # Idle
        BY <1>9, <3>1, <3>3 DEF CullTraces, WatchdogTypeOK
      <3> QED BY <3>2, <3>3
    <2> QED
      BY <1>9, <2>1
      DEF CullTraces, PerfettoTypeOK, ConsumerTypeOK, SubjectTypeOK, ZipTypeOK,
          perfettoVars, subjectVars, zipVars
  <1>10. CASE UNCHANGED vars
    BY <1>10
    DEF vars, perfettoVars, consumerVars, subjectVars, zipVars, PerfettoTypeOK,
        ConsumerTypeOK, WatchdogTypeOK, SubjectTypeOK, ZipTypeOK
  <1> QED
    BY <1>1, <1>2, <1>3, <1>4, <1>5, <1>6, <1>7, <1>8, <1>9, <1>10
    DEF Next, Creator, Coordinator, Watchdog

\* The state of the consumer, the subjects, the zips and the watchdog is always
\* well typed, for every configuration of the streams.
THEOREM TypeCorrect == Spec => []TypeOK
  BY InitType, NextType, PTL DEF Spec

-----------------------------------------------------------------------------
(* The validity of handles: its inductive invariant, one handle at a time *)

CreatorSteps ==
    /\ creator.step = "idle" <=> creator.handle = 0
    /\ creator.step = "created" => creator.handle = created + 1
    /\ creator.step \in {"tracked", "mapped"} => creator.handle = created

\* A reference exists and the consumer has had the chance to track the handle.
Referenced(h) == Held(h) /\ ~(creator.step = "created" /\ creator.handle = h)

HandleInv(h) ==
    /\ h > created /\ creator.handle # h => Pristine(h)
    /\ h > created => Silent(h)
    /\ creator.handle = h => /\ Silent(h)
                            /\ session[h] = "created"
                            /\ subject[h] = IF creator.step = "mapped"
                                            THEN "mapped" ELSE "none"
    /\ subject[h] = "mapped" => creator.handle = h
    /\ SubjectInv(h)
    /\ Referenced(h) => kind[h] # "untracked"
    /\ proto[h] # "empty"

LEMMA Split == HandlesInv <=> TypeOK /\ CreatorSteps /\ \A h \in Handles : HandleInv(h)
  BY DEF HandlesInv, CreatorInv, HandleValid, CreatorSteps, HandleInv, Referenced

\* A step that leaves the state of a handle alone keeps its invariant.
LEMMA Frame ==
    ASSUME NEW g, HandleInv(g), UNCHANGED <<creator, created>>,
           session'[g] = session[g], kind'[g] = kind[g], subject'[g] = subject[g],
           last_state'[g] = last_state[g], dest'[g] = dest[g], inbox'[g] = inbox[g],
           arrived'[g] = arrived[g], commands'[g] = commands[g], out'[g] = out[g],
           proto'[g] = proto[g]
    PROVE  HandleInv(g)'
  BY DEF HandleInv, Pristine, Silent, SubjectInv, Emitted, Referenced, Held, Unpaired

\* Dropping a reference destroys the handle only when none is left.
LEMMA ReleaseKeeps ==
    ASSUME NEW h \in Handles, NEW k \in [Handles -> Kinds \cup {"untracked"}],
           ReleaseHandle(h, k), k[h] # "untracked"
    PROVE  Referenced(h)' => kind'[h] # "untracked"
  BY DEF ReleaseHandle, Referenced

\* A handle with a subject in the map is no longer the creator's.
LEMMA BoundHandle ==
    ASSUME NEW h \in Handles, TypeOK, CreatorSteps, HandleInv(h), subject[h] = "bound"
    PROVE  /\ creator.handle # h
           /\ ~(h > created)
           /\ kind[h] # "untracked"
  BY DEF HandleInv, Pristine, Referenced, Held

\* Each notification adds at most one element to what is in flight.
LEMMA EmittedBy ==
    ASSUME TypeOK, NEW h \in Handles, NEW s \in States, OnStateChanged(h, s),
           UNCHANGED arrived
    PROVE  /\ Emitted(h) \in Nat
           /\ Emitted(h)' \in Nat
           /\ Emitted(h)' <= Emitted(h) + 1
  <1>1. /\ inbox[h] \in Notifications
        /\ arrived[h] \in Seq(States)
        /\ inbox \in [Handles -> Notifications]
    BY DEF TypeOK, ZipTypeOK
  <1>2. inbox'[h] = inbox[h] \/ \E x \in States \cup {"Error"} :
                                    inbox'[h] = Append(inbox[h], x)
    BY <1>1 DEF OnStateChanged, EmitError, EmitNext
  <1>3. \A x \in States \cup {"Error"} :
           Len(Append(inbox[h], x)) = Len(inbox[h]) + 1
    BY <1>1 DEF Notifications
  <1>4. Len(inbox[h]) \in Nat /\ Len(arrived[h]) \in Nat
    BY <1>1 DEF Notifications
  <1>5. /\ Len(inbox'[h]) \in Nat
        /\ Len(inbox'[h]) <= Len(inbox[h]) + 1
    BY <1>2, <1>3, <1>4
  <1>6. Emitted(h)' = Len(arrived[h]) + Len(inbox'[h])
    BY DEF Emitted
  <1>7. Emitted(h) = Len(arrived[h]) + Len(inbox[h])
    BY DEF Emitted
  <1>8. \A a, b, c \in Nat : c <= b + 1 =>
           /\ a + b \in Nat
           /\ a + c \in Nat
           /\ a + c <= (a + b) + 1
    OBVIOUS
  <1>9. /\ Len(arrived[h]) + Len(inbox[h]) \in Nat
        /\ Len(arrived[h]) + Len(inbox'[h]) \in Nat
        /\ Len(arrived[h]) + Len(inbox'[h]) <= (Len(arrived[h]) + Len(inbox[h])) + 1
    BY <1>4, <1>5, <1>8
  <1> QED BY <1>6, <1>7, <1>9

\* A callback: perfetto's, or the watchdog's failure.
LEMMA CallbackInv ==
    ASSUME Orderly, TypeOK, CreatorSteps, NEW h \in Handles, HandleInv(h),
           NEW s \in States, CallbackOnStateChanged(h, s), UNCHANGED created,
           \/ s = "TraceFailed" /\ session'[h] = session[h]
           \/ /\ subject[h] # "none"
              /\ \E r \in Reportable(h) : s = r[2] /\ session'[h] = r[3]
    PROVE  HandleInv(h)'
  <1> USE DEF TypeOK
  <1>1. CASE subject[h] # "bound"
    <2>1. UNCHANGED <<creator, created, subject, last_state, dest, inbox, arrived,
                      commands, out, proto>>
      BY <1>1 DEF CallbackOnStateChanged, subjectVars
    <2>2. subject[h] = "none" => session'[h] = session[h]
      OBVIOUS
    <2>3. subject[h] # "mapped"
      BY DEF CallbackOnStateChanged
    <2>4. Referenced(h)' => kind'[h] # "untracked"
      <3>1. Held(h)' <=> Held(h)
        BY <2>1 DEF Held, Unpaired
      <3>2. Referenced(h)' <=> Referenced(h)
        BY <2>1, <3>1 DEF Referenced
      <3> QED
        BY <3>1, <3>2 DEF CallbackOnStateChanged, ReleaseHandle, HandleInv, Referenced
    <2>5. h > created /\ creator.handle # h => kind'[h] = "untracked"
      BY DEF HandleInv, Pristine, CallbackOnStateChanged, ReleaseHandle, ConsumerTypeOK
    <2> QED
      BY <1>1, <2>1, <2>2, <2>3, <2>4, <2>5
      DEF HandleInv, Pristine, Silent, SubjectInv, Emitted
  <1>2. CASE subject[h] = "bound"
    <2>1. /\ creator.handle # h
          /\ ~(h > created)
          /\ kind[h] # "untracked"
      BY <1>2, BoundHandle
    <2>2. /\ UNCHANGED <<creator, created, arrived, commands, out, proto>>
          /\ OnStateChanged(h, s)
          /\ ReleaseHandle(h, kind)
      BY <1>2 DEF CallbackOnStateChanged
    <2>3. Referenced(h)' => kind'[h] # "untracked"
      BY <2>1, <2>2, ReleaseKeeps DEF ConsumerTypeOK
    <2>4. /\ Emitted(h) \in Nat
          /\ Emitted(h)' \in Nat
          /\ Emitted(h)' <= Emitted(h) + 1
      BY <2>2, EmittedBy
    <2>5. /\ last_state'[h] = s
          /\ dest'[h] = IF s \in Terminal THEN "done" ELSE dest[h]
          /\ subject'[h] = IF IsTerminalState(h, s) THEN "deleted" ELSE "bound"
      BY <1>2, <2>2 DEF OnStateChanged, SubjectTypeOK
    <2>6. SubjectInv(h)'
      <3>1. CASE s = "TraceFailed"
        BY <2>5, <3>1 DEF SubjectInv, IsTerminalState, Terminal, Errors
      <3>2. ASSUME s # "TraceFailed", NEW r \in Reportable(h), s = r[2],
                   session'[h] = r[3]
            PROVE  SubjectInv(h)'
        <4>1. deferred[h] \in BOOLEAN /\ r \in StateDiagram(deferred[h]) /\ r[1] = session[h]
          BY <3>2 DEF Reportable, PerfettoTypeOK
        <4>2. CASE session[h] = "created"
          <5>3. \/ ReportsConnecting = (s = "Connecting")
                \/ s = "ConnectionError"
            BY <3>2, <4>2 DEF Reportable
          <5>4. s # "Connecting"
            BY <5>3 DEF Orderly
          <5>1. s \in {"Configured", "Tracing", "ConnectionError"}
                /\ session'[h] = IF s = "ConnectionError" THEN "over" ELSE s
            BY <3>2, <4>1, <4>2, <5>4 DEF StateDiagram
          <5>2. dest[h] = "open" /\ last_state[h] = "Idle" /\ Emitted(h) = 0
            BY <1>2, <4>2 DEF HandleInv, SubjectInv
          <5> QED
            BY <2>4, <2>5, <5>1, <5>2
            DEF SubjectInv, IsTerminalState, Terminal, Errors
        <4>3. CASE session[h] \in {"Configured", "Started"}
          <5>1. \/ s = "ConnectionError" /\ session'[h] = "refused"
                \/ s = "Tracing" /\ session'[h] = "Tracing"
                \/ s = "TraceEnded"
            BY <3>2, <4>1, <4>3 DEF StateDiagram
          <5>2. dest[h] = "open" /\ last_state[h] = "Configured" /\ Emitted(h) <= 1
            BY <1>2, <4>3 DEF HandleInv, SubjectInv
          <5> QED
            BY <2>4, <2>5, <5>1, <5>2
            DEF SubjectInv, IsTerminalState, Terminal, Errors
        <4>4. CASE session[h] = "Tracing"
          <5>1. s = "TraceEnded"
            BY <3>2, <4>1, <4>4 DEF StateDiagram
          <5> QED BY <2>5, <5>1 DEF SubjectInv, IsTerminalState, Terminal, Errors
        <4>5. CASE session[h] = "refused"
          BY <3>2, <4>1, <4>5 DEF StateDiagram
        <4> QED BY <1>2, <4>2, <4>3, <4>4, <4>5 DEF HandleInv, SubjectInv
      <3> QED BY <3>1, <3>2
    <2>7. subject'[h] \in {"bound", "deleted"}
      BY <2>5
    <2> QED BY <2>1, <2>2, <2>3, <2>6, <2>7 DEF HandleInv
  <1> QED BY <1>1, <1>2

-----------------------------------------------------------------------------
(* The zip: a command or a state change, and what the pair of them does *)

\* The two steps of the zip have one shape: afterwards seen and sent are on its
\* two sides, and the n-th pair is executed if it is complete.
Paired(h, seen, sent, n) ==
    /\ Settle(h, seen, sent)
    /\ commands' = [commands EXCEPT ![h] = sent]
    /\ \/ /\ seen = arrived[h]
          /\ sent = commands[h] + 1
          /\ n = sent
       \/ /\ inbox[h] # <<>>
          /\ seen = Append(arrived[h], Head(inbox[h]))
          /\ sent = commands[h]
          /\ n = Len(seen)
    /\ IF Len(seen) >= n /\ sent >= n
       THEN Execute(h, n, seen[n])
       ELSE UNCHANGED <<session, kind, timers, proto>>

LEMMA PairedStep ==
    ASSUME TypeOK, NEW h \in Handles, SendCommand(h) \/ ZipState(h)
    PROVE  /\ out[h] = "open"
           /\ UNCHANGED <<deferred, created, watchdog, creator, subjectVars>>
           /\ \E seen \in Seq(States), sent \in 0 .. 3, n \in Nat :
                 Paired(h, seen, sent, n)
  <1>1. /\ out[h] = "open"
        /\ UNCHANGED <<deferred, created, watchdog, creator, subjectVars>>
    BY DEF SendCommand, ZipState
  <1>2. /\ arrived[h] \in Seq(States)
        /\ commands[h] \in 0 .. 3
        /\ inbox[h] \in Notifications
        /\ commands \in [Handles -> 0 .. 3]
    BY DEF TypeOK, ZipTypeOK
  <1>3. CASE SendCommand(h)
    <2>1. commands[h] + 1 \in 0 .. 3
      BY <1>2, <1>3 DEF SendCommand
    <2>2. Paired(h, arrived[h], commands[h] + 1, commands[h] + 1)
      BY <1>3, <2>1 DEF SendCommand, Paired
    <2> QED BY <1>1, <1>2, <2>1, <2>2
  <1>4. CASE ZipState(h)
    <2> DEFINE seen == Append(arrived[h], Head(inbox[h]))
    <2>1. inbox[h] # <<>> /\ Head(inbox[h]) \in States
      BY <1>2, <1>4, Queues DEF ZipState
    <2>2. /\ seen \in Seq(States)
          /\ Len(seen) \in Nat
          /\ seen[Len(seen)] = Head(inbox[h])
      BY <1>2, <2>1
    <2>3. commands' = [commands EXCEPT ![h] = commands[h]]
      BY <1>2, <1>4 DEF ZipState
    <2>4. /\ Settle(h, seen, commands[h])
          /\ IF commands[h] >= Len(seen)
             THEN Execute(h, Len(seen), Head(inbox[h]))
             ELSE UNCHANGED <<session, kind, timers, proto>>
      BY <1>4 DEF ZipState
    <2>5. Paired(h, seen, commands[h], Len(seen))
      BY <2>1, <2>2, <2>3, <2>4 DEF Paired
    <2> QED BY <1>1, <1>2, <2>2, <2>5
  <1> QED BY <1>3, <1>4

\* Nothing is created in the zip: what is on its way or waiting gets no longer,
\* a pair that is executed was waiting, and three pairs end the stream.
LEMMA PairedCounts ==
    ASSUME TypeOK, NEW h \in Handles, NEW seen \in Seq(States), NEW sent \in 0 .. 3,
           NEW n \in Nat, Paired(h, seen, sent, n)
    PROVE  /\ Emitted(h) \in Nat /\ Emitted(h)' \in Nat
           /\ Emitted(h)' <= Emitted(h)
           /\ Len(seen) <= Emitted(h)
           /\ n > 0
           /\ Len(seen) >= n => inbox[h] # <<>> \/ Unpaired(h)
           /\ inbox'[h] # <<>> \/ Unpaired(h)' => inbox[h] # <<>> \/ Unpaired(h)
           /\ n = 3 /\ Len(seen) >= n /\ sent >= n
                => inbox'[h] = <<>> /\ ~Unpaired(h)'
           /\ inbox[h] = <<>> /\ arrived[h] = <<>>
                => inbox'[h] = <<>> /\ arrived'[h] = <<>> /\ ~(Len(seen) >= n)
  <1>1. /\ arrived \in [Handles -> Seq(States)] /\ arrived[h] \in Seq(States)
        /\ commands \in [Handles -> 0 .. 3] /\ commands[h] \in 0 .. 3
        /\ inbox \in [Handles -> Notifications] /\ inbox[h] \in Notifications
        /\ Len(arrived[h]) \in Nat /\ Len(inbox[h]) \in Nat /\ Len(seen) \in Nat
        /\ Len(<<>>) = 0
        /\ arrived[h] = <<>> => Len(arrived[h]) = 0
        /\ inbox[h] # <<>> => /\ Len(inbox[h]) > 0
                              /\ Len(Tail(inbox[h])) = Len(inbox[h]) - 1
    BY DEF TypeOK, ZipTypeOK, Notifications
  <1>2. commands'[h] = sent
    BY <1>1 DEF Paired
  <1>3. \/ /\ seen = arrived[h] /\ sent = commands[h] + 1 /\ n = sent
           /\ Len(seen) = Len(arrived[h])
        \/ /\ inbox[h] # <<>> /\ sent = commands[h] /\ n = Len(seen)
           /\ Len(seen) = Len(arrived[h]) + 1
    BY <1>1 DEF Paired, Notifications
  <1>4. /\ ZipCompleted(seen, sent) => inbox'[h] = <<>> /\ arrived'[h] = <<>>
        /\ ~ZipCompleted(seen, sent) =>
              /\ arrived'[h] = seen
              /\ inbox'[h] = IF Len(seen) > Len(arrived[h]) THEN Tail(inbox[h])
                                                            ELSE inbox[h]
    BY <1>1 DEF Paired, Settle
  <1>5. sent = 3 /\ Len(seen) >= sent => ZipCompleted(seen, sent)
    BY DEF ZipCompleted
  <1>6. /\ Emitted(h) = Len(arrived[h]) + Len(inbox[h])
        /\ Emitted(h)' = Len(arrived'[h]) + Len(inbox'[h])
        /\ Unpaired(h) <=> Len(arrived[h]) > commands[h]
        /\ Unpaired(h)' <=> Len(arrived'[h]) > sent
    BY <1>2 DEF Emitted, Unpaired
  <1>7. \/ arrived'[h] = <<>> /\ inbox'[h] = <<>>
           /\ Len(arrived'[h]) = 0 /\ Len(inbox'[h]) = 0
        \/ /\ Len(arrived'[h]) = Len(seen)
           /\ ~(sent = 3 /\ Len(seen) >= sent)
           /\ \/ Len(seen) = Len(arrived[h]) /\ inbox'[h] = inbox[h]
                 /\ Len(inbox'[h]) = Len(inbox[h]) /\ arrived'[h] = arrived[h]
              \/ Len(seen) > Len(arrived[h]) /\ Len(inbox'[h]) = Len(inbox[h]) - 1
    <2>1. CASE ZipCompleted(seen, sent)
      <3>1. arrived'[h] = <<>> /\ inbox'[h] = <<>>
        BY <1>4, <2>1
      <3>2. Len(arrived'[h]) = 0 /\ Len(inbox'[h]) = 0
        BY <1>1, <3>1
      <3> QED BY <3>1, <3>2
    <2>2. CASE ~ZipCompleted(seen, sent)
      <3>1. ~(sent = 3 /\ Len(seen) >= sent) /\ Len(arrived'[h]) = Len(seen)
        BY <1>4, <1>5, <2>2
      <3>2. CASE inbox[h] # <<>> /\ Len(seen) = Len(arrived[h]) + 1
        <4>1. Len(seen) > Len(arrived[h])
          BY <1>1, <3>2
        <4>2. inbox'[h] = Tail(inbox[h])
          BY <1>4, <2>2, <4>1
        <4>3. Len(inbox'[h]) = Len(inbox[h]) - 1
          BY <1>1, <3>2, <4>2
        <4> QED BY <3>1, <4>1, <4>3
      <3>3. CASE seen = arrived[h] /\ Len(seen) = Len(arrived[h])
        <4>1. inbox'[h] = inbox[h] /\ arrived'[h] = arrived[h]
          BY <1>1, <1>4, <2>2, <3>3
        <4> QED BY <3>1, <3>3, <4>1
      <3> QED BY <1>3, <3>2, <3>3
    <2> QED BY <2>1, <2>2
  <1>8. Len(arrived'[h]) \in Nat /\ Len(inbox'[h]) \in Nat
    BY <1>1, <1>3, <1>7
  <1>9. /\ Emitted(h) \in Nat /\ Emitted(h)' \in Nat
        /\ Emitted(h)' <= Emitted(h)
        /\ Len(seen) <= Emitted(h)
    <2> DEFINE a == Len(arrived[h])   b == Len(inbox[h])   c == Len(seen)
               d == Len(arrived'[h])  e == Len(inbox'[h])
    <2>1. /\ a \in Nat /\ b \in Nat /\ c \in Nat /\ d \in Nat /\ e \in Nat
          /\ c = a \/ (c = a + 1 /\ b > 0)
      BY <1>1, <1>3, <1>8
    <2>2. \/ d = 0 /\ e = 0
          \/ d = c /\ ((c = a /\ e = b) \/ (c > a /\ e = b - 1))
      BY <1>7, <2>1
    <2>3. Emitted(h) = a + b /\ Emitted(h)' = d + e
      BY <1>6
    <2> HIDE DEF a, b, c, d, e
    <2>4. a + b \in Nat /\ d + e \in Nat /\ d + e <= a + b /\ c <= a + b
      BY <2>1, <2>2
    <2> QED BY <2>3, <2>4 DEF a, b, c, d, e
  <1>10. n > 0 /\ (Len(seen) >= n => inbox[h] # <<>> \/ Unpaired(h))
    BY <1>1, <1>3, <1>6
  <1>11. inbox'[h] # <<>> \/ Unpaired(h)' => inbox[h] # <<>> \/ Unpaired(h)
    BY <1>1, <1>3, <1>6, <1>7
  <1>12. n = 3 /\ Len(seen) >= n /\ sent >= n => inbox'[h] = <<>> /\ ~Unpaired(h)'
    BY <1>1, <1>3, <1>6, <1>7
  <1>13. inbox[h] = <<>> /\ arrived[h] = <<>>
           => inbox'[h] = <<>> /\ arrived'[h] = <<>> /\ ~(Len(seen) >= n)
    BY <1>1, <1>3, <1>7, <1>10
  <1> QED BY <1>9, <1>10, <1>11, <1>12, <1>13

\* A pair executed on a tracked handle.
LEMMA ExecuteInv ==
    ASSUME TypeOK, NEW h \in Handles, NEW n, NEW s, Execute(h, n, s),
           kind[h] # "untracked", proto[h] # "empty"
    PROVE  /\ \/ session'[h] = session[h]
              \/ session[h] = "Configured" /\ session'[h] = "Started"
           /\ proto'[h] # "empty"
           /\ n # 3 => (Referenced(h)' => kind'[h] # "untracked")
  <1> USE DEF TypeOK, PerfettoTypeOK, ConsumerTypeOK, ZipTypeOK
  <1>1. CASE n = 3 /\ Destroy(h)
    BY <1>1 DEF Destroy
  <1>2. CASE StartTracing(h)
    <2> DEFINE k == [kind EXCEPT ![h] = "started"]
    <2>1. k \in [Handles -> Kinds \cup {"untracked"}] /\ k[h] # "untracked"
      BY DEF Kinds
    <2>2. ReleaseHandle(h, k)
      BY <1>2 DEF StartTracing
    <2>3. Referenced(h)' => kind'[h] # "untracked"
      BY <2>1, <2>2, ReleaseKeeps
    <2> QED BY <1>2, <2>3 DEF StartTracing
  <1>3. CASE ReadTrace(h)
    <2> DEFINE k == [kind EXCEPT ![h] = "read"]
    <2>1. k \in [Handles -> Kinds \cup {"untracked"}] /\ k[h] # "untracked"
      BY DEF Kinds
    <2>2. ReleaseHandle(h, k)
      BY <1>3 DEF ReadTrace
    <2>3. Referenced(h)' => kind'[h] # "untracked"
      BY <2>1, <2>2, ReleaseKeeps
    <2> QED BY <1>3, <2>3 DEF ReadTrace
  <1>4. CASE ReleaseHandle(h, kind) /\ UNCHANGED <<session, timers, proto>>
    BY <1>4, ReleaseKeeps
  <1> QED BY <1>1, <1>2, <1>3, <1>4 DEF Execute

LEMMA PairInv ==
    ASSUME TypeOK, CreatorSteps, NEW h \in Handles, HandleInv(h),
           SendCommand(h) \/ ZipState(h)
    PROVE  HandleInv(h)'
  <1>1. /\ out[h] = "open"
        /\ UNCHANGED <<created, creator, subject, last_state, dest>>
    BY PairedStep DEF subjectVars
  <1>2. PICK seen \in Seq(States), sent \in 0 .. 3, n \in Nat : Paired(h, seen, sent, n)
    BY PairedStep
  <1>3. /\ Emitted(h) \in Nat /\ Emitted(h)' \in Nat
        /\ Emitted(h)' <= Emitted(h)
        /\ Len(seen) <= Emitted(h)
        /\ Len(seen) >= n => inbox[h] # <<>> \/ Unpaired(h)
        /\ inbox'[h] # <<>> \/ Unpaired(h)' => inbox[h] # <<>> \/ Unpaired(h)
        /\ n = 3 /\ Len(seen) >= n /\ sent >= n
             => inbox'[h] = <<>> /\ ~Unpaired(h)'
        /\ inbox[h] = <<>> /\ arrived[h] = <<>>
             => inbox'[h] = <<>> /\ arrived'[h] = <<>> /\ ~(Len(seen) >= n)
    BY <1>2, PairedCounts
  <1>4. ~(h > created /\ creator.handle # h)
    BY <1>1 DEF HandleInv, Pristine
  <1>5. Silent(h) => /\ Silent(h)'
                     /\ ~(Len(seen) >= n)
    BY <1>1, <1>3 DEF Silent
  <1>6. ~(Len(seen) >= n /\ sent >= n) =>
           session'[h] = session[h] /\ kind'[h] = kind[h] /\ proto'[h] = proto[h]
    BY <1>2 DEF Paired
  <1>7. Len(seen) >= n /\ sent >= n =>
           /\ Held(h)
           /\ creator.handle # h
           /\ kind[h] # "untracked"
           /\ Execute(h, n, seen[n])
    BY <1>2, <1>3, <1>5 DEF Paired, Held, HandleInv, Referenced
  <1>8. Referenced(h)' => kind'[h] # "untracked"
    <2>1. CASE ~(Len(seen) >= n /\ sent >= n)
      <3>1. Referenced(h)' => Referenced(h)
        BY <1>1, <1>3 DEF Referenced, Held
      <3> QED BY <1>6, <2>1, <3>1 DEF HandleInv
    <2>2. CASE Len(seen) >= n /\ sent >= n /\ n # 3
      BY <1>7, <2>2, ExecuteInv DEF HandleInv
    <2>3. CASE Len(seen) >= n /\ sent >= n /\ n = 3
      <3>1. subject[h] # "bound"
        <4>1. Emitted(h) >= 3
          BY <1>3, <2>3
        <4> QED BY <1>3, <4>1 DEF HandleInv, SubjectInv
      <3>2. ~Held(h)'
        BY <1>1, <1>3, <1>7, <2>3, <3>1 DEF Held
      <3> QED BY <3>2 DEF Referenced
    <2> QED BY <2>1, <2>2, <2>3
  <1>9. /\ \/ session'[h] = session[h]
           \/ session[h] = "Configured" /\ session'[h] = "Started"
        /\ proto'[h] # "empty"
    BY <1>6, <1>7, ExecuteInv DEF HandleInv
  <1>10. SubjectInv(h)'
    BY <1>1, <1>3, <1>9 DEF HandleInv, SubjectInv
  <1>11. creator.handle = h => session'[h] = session[h]
    BY <1>5, <1>6 DEF HandleInv
  <1> QED
    BY <1>1, <1>4, <1>5, <1>8, <1>9, <1>10, <1>11 DEF HandleInv

\* The stream fails or is unsubscribed.
LEMMA EndInv ==
    ASSUME TypeOK, CreatorSteps, NEW h \in Handles, HandleInv(h),
           out[h] = "open", NEW how, EndStream(h, how)
    PROVE  HandleInv(h)'
  <1>1. UNCHANGED <<session, created, creator, subject, last_state, dest, proto>>
    BY DEF EndStream, perfettoVars, subjectVars
  <1>2. inbox'[h] = <<>> /\ arrived'[h] = <<>> /\ commands'[h] = 0
    BY DEF EndStream, TypeOK, ZipTypeOK
  <1>3. Emitted(h)' = 0 /\ Emitted(h) \in Nat
    BY <1>2 DEF Emitted, TypeOK, ZipTypeOK, Notifications
  <1>4. ~Unpaired(h)'
    BY <1>2 DEF Unpaired
  <1>5. Referenced(h)' => kind'[h] # "untracked"
    <2>1. Referenced(h)' => kind[h] # "untracked"
      BY <1>1, <1>2, <1>4 DEF HandleInv, Referenced, Held
    <2> QED
      BY <2>1 DEF EndStream, ReleaseHandle, Referenced
  <1>6. ~(h > created /\ creator.handle # h)
    BY DEF HandleInv, Pristine
  <1>7. SubjectInv(h)'
    BY <1>1, <1>3 DEF HandleInv, SubjectInv
  <1> QED BY <1>1, <1>2, <1>5, <1>6, <1>7 DEF HandleInv, Silent

-----------------------------------------------------------------------------
(* The steps of the creating worker *)

LEMMA CreatorStepsInv ==
    ASSUME TypeOK, TypeOK', CreatorSteps, \A h \in Handles : HandleInv(h), Creator
    PROVE  CreatorSteps' /\ \A h \in Handles : HandleInv(h)'
  <1> USE DEF TypeOK, ConsumerTypeOK, SubjectTypeOK, PerfettoTypeOK, ZipTypeOK
  <1>1. CASE CreateRaw
    <2> PICK c \in Handles : c = created + 1
      BY <1>1 DEF CreateRaw
    <2>1. /\ creator.handle = 0
          /\ creator' = [step |-> "created", handle |-> c]
          /\ c > created
      BY <1>1 DEF CreateRaw, CreatorSteps
    <2>2. Pristine(c) /\ Silent(c)
      BY <2>1 DEF HandleInv, Handles
    <2>3. CreatorSteps'
      BY <1>1, <2>1 DEF CreateRaw, consumerVars, CreatorSteps, Handles
    <2>4. HandleInv(c)'
      BY <1>1, <2>1, <2>2
      DEF CreateRaw, consumerVars, subjectVars, HandleInv, Pristine, Silent,
          SubjectInv, Referenced
    <2>5. ASSUME NEW g \in Handles, g # c
          PROVE  HandleInv(g)'
      <3>1. creator.handle # g /\ creator'.handle # g
        BY <2>1, <2>5 DEF Handles
      <3>2. /\ UNCHANGED <<created, kind, subject, last_state, dest, inbox, arrived,
                            commands, proto>>
            /\ session'[g] = session[g]
            /\ out'[g] = out[g]
        BY <1>1, <2>1, <2>5 DEF CreateRaw, consumerVars, subjectVars
      <3>3. /\ SubjectInv(g)' <=> SubjectInv(g)
            /\ Pristine(g)' <=> Pristine(g)
            /\ Silent(g)' <=> Silent(g)
        BY <3>2 DEF SubjectInv, Emitted, Pristine, Silent
      <3>4. Referenced(g)' => Referenced(g)
        <4>1. Unpaired(g)' <=> Unpaired(g)
          BY <3>2 DEF Unpaired
        <4>2. Held(g)' => Held(g)
          BY <3>1, <3>2, <4>1 DEF Held
        <4> QED BY <3>1, <4>2 DEF Referenced
      <3> QED
        BY <3>1, <3>2, <3>3, <3>4 DEF HandleInv
    <2> QED BY <2>3, <2>4, <2>5
  <1>2. CASE TrackHandle
    <2> PICK c \in Handles : c = creator.handle
      BY <1>2 DEF TrackHandle, CreatorSteps, Handles
    <2>1. /\ creator.step = "created" /\ creator'.step = "tracked"
          /\ c = created + 1 /\ created' = c /\ creator'.handle = c
      BY <1>2 DEF TrackHandle, CreatorSteps, Handles
    <2>2. CreatorSteps'
      BY <2>1 DEF CreatorSteps, Handles
    <2>3. ASSUME NEW g \in Handles
          PROVE  HandleInv(g)'
      <3>1. kind'[g] = IF g = c THEN "created" ELSE kind[g]
        BY <1>2, <2>1 DEF TrackHandle
      <3>2. g > created' => g > created /\ g # c
        BY <2>1 DEF Handles
      <3>3. UNCHANGED <<session, subject, last_state, dest, inbox, arrived, commands,
                        out, proto>>
        BY <1>2 DEF TrackHandle, perfettoVars, subjectVars, zipVars
      <3>4. SubjectInv(g)' <=> SubjectInv(g)
        BY <3>3 DEF SubjectInv, Emitted
      <3>5. Pristine(g) /\ g # c => Pristine(g)'
        BY <3>1, <3>3 DEF Pristine
      <3>6. Silent(g) => Silent(g)'
        BY <3>3 DEF Silent
      <3>7. Referenced(g)' => kind'[g] # "untracked"
        BY <2>1, <3>1, <3>3 DEF HandleInv, Referenced, Held, Unpaired
      <3> QED BY <2>1, <3>2, <3>3, <3>4, <3>5, <3>6, <3>7 DEF HandleInv
    <2> QED BY <2>2, <2>3
  <1>3. CASE MapSubject
    <2> PICK c \in Handles : c = creator.handle
      BY <1>3 DEF MapSubject, CreatorSteps, Handles
    <2>1. /\ creator.step = "tracked" /\ creator'.step = "mapped"
          /\ c = created /\ creator'.handle = c
          /\ subject' = [subject EXCEPT ![c] = "mapped"]
      BY <1>3 DEF MapSubject, CreatorSteps, Handles
    <2>2. UNCHANGED <<session, kind, created, last_state, dest, inbox, arrived,
                      commands, out, proto>>
      BY <1>3 DEF MapSubject, perfettoVars, consumerVars, zipVars
    <2>3. CreatorSteps'
      BY <2>1, <2>2 DEF CreatorSteps, Handles
    <2>4. ASSUME NEW g \in Handles
          PROVE  HandleInv(g)'
      <3>1. subject'[g] = IF g = c THEN "mapped" ELSE subject[g]
        BY <2>1
      <3>2. Silent(g)' <=> Silent(g)
        BY <2>2 DEF Silent
      <3>3. Referenced(g)' => Referenced(g)
        BY <2>1, <2>2, <3>1 DEF Referenced, Held, Unpaired
      <3>4. SubjectInv(g)'
        BY <2>2, <3>1 DEF HandleInv, SubjectInv, Emitted
      <3> QED
        BY <2>1, <2>2, <3>1, <3>2, <3>3, <3>4 DEF HandleInv, Pristine, Handles
    <2> QED BY <2>3, <2>4
  <1>4. CASE BindHandle
    <2> PICK c \in Handles : c = creator.handle
      BY <1>4 DEF BindHandle, CreatorSteps, Handles
    <2>1. /\ creator.step = "mapped"
          /\ creator' = [step |-> "idle", handle |-> 0]
          /\ c = created
          /\ subject' = [subject EXCEPT ![c] = "bound"]
      BY <1>4 DEF BindHandle, CreatorSteps, Handles
    <2>2. UNCHANGED <<session, kind, created, last_state, dest, inbox, arrived,
                      commands, out, proto>>
      BY <1>4 DEF BindHandle, perfettoVars, consumerVars, zipVars
    <2>3. CreatorSteps'
      BY <2>1 DEF CreatorSteps
    <2>4. ASSUME NEW g \in Handles
          PROVE  HandleInv(g)'
      <3>1. subject'[g] = IF g = c THEN "bound" ELSE subject[g]
        BY <2>1
      <3>2. Silent(g)' <=> Silent(g)
        BY <2>2 DEF Silent
      <3>3. Referenced(g)' => Referenced(g)
        <4>1. CASE g = c
          BY <2>1, <4>1 DEF Referenced, Held
        <4>2. CASE g # c
          <5>1. creator'.handle # g
            BY <2>1 DEF Handles
          <5>2. Held(g)' => Held(g)
            BY <2>2, <3>1, <4>2, <5>1 DEF Held, Unpaired
          <5> QED BY <2>1, <5>2 DEF Referenced
        <4> QED BY <4>1, <4>2
      <3>4. SubjectInv(g)'
        <4>1. CASE g = c
          BY <2>1, <2>2, <3>1, <4>1 DEF HandleInv, SubjectInv, Emitted, Silent
        <4>2. CASE g # c
          BY <2>2, <3>1, <4>2 DEF HandleInv, SubjectInv, Emitted
        <4> QED BY <4>1, <4>2
      <3>5. g > created => g # c
        BY <2>1 DEF Handles
      <3>6. creator'.handle # g
        BY <2>1 DEF Handles
      <3> QED
        BY <2>1, <2>2, <3>1, <3>2, <3>3, <3>4, <3>5, <3>6 DEF HandleInv, Pristine
    <2> QED BY <2>3, <2>4
  <1> QED BY <1>1, <1>2, <1>3, <1>4 DEF Creator

-----------------------------------------------------------------------------
(* The invariant theorem *)

\* The state of a handle, apart from perfetto's.
SameHandle(g) ==
    /\ kind'[g] = kind[g]
    /\ subject'[g] = subject[g]
    /\ last_state'[g] = last_state[g]
    /\ dest'[g] = dest[g]
    /\ inbox'[g] = inbox[g]
    /\ arrived'[g] = arrived[g]
    /\ commands'[g] = commands[g]
    /\ out'[g] = out[g]
    /\ proto'[g] = proto[g]

\* A callback and a pair concern one handle.
LEMMA CallbackFrame ==
    ASSUME TypeOK, NEW h \in Handles, NEW s, CallbackOnStateChanged(h, s),
           NEW g \in Handles, g # h
    PROVE  SameHandle(g)
  <1>1. kind'[g] = kind[g]
    BY DEF CallbackOnStateChanged, ReleaseHandle, TypeOK, ConsumerTypeOK
  <1>2. CASE subject[h] = "bound"
    BY <1>1, <1>2
    DEF CallbackOnStateChanged, OnStateChanged, EmitError, EmitNext, SameHandle,
        TypeOK, SubjectTypeOK, ZipTypeOK
  <1>3. CASE subject[h] # "bound"
    BY <1>1, <1>3 DEF CallbackOnStateChanged, subjectVars, SameHandle
  <1> QED BY <1>2, <1>3

LEMMA PairFrame ==
    ASSUME TypeOK, NEW h \in Handles, SendCommand(h) \/ ZipState(h),
           NEW g \in Handles, g # h
    PROVE  session'[g] = session[g] /\ SameHandle(g)
  <1>1. PICK seen \in Seq(States), sent \in 0 .. 3, n \in Nat : Paired(h, seen, sent, n)
    BY PairedStep
  <1>2. UNCHANGED <<subject, last_state, dest>>
    BY PairedStep DEF subjectVars
  <1>3. /\ inbox'[g] = inbox[g]
        /\ arrived'[g] = arrived[g]
        /\ out'[g] = out[g]
        /\ commands'[g] = commands[g]
    BY <1>1 DEF Paired, Settle, TypeOK, ZipTypeOK
  <1>4. /\ session'[g] = session[g]
        /\ kind'[g] = kind[g]
        /\ proto'[g] = proto[g]
    <2>1. CASE UNCHANGED <<session, kind, timers, proto>>
      BY <2>1
    <2>2. ASSUME NEW m, NEW s, Execute(h, m, s)
          PROVE  /\ session'[g] = session[g]
                 /\ kind'[g] = kind[g]
                 /\ proto'[g] = proto[g]
      <3> USE DEF TypeOK, PerfettoTypeOK, ConsumerTypeOK, ZipTypeOK
      <3>1. CASE Destroy(h)
        BY <3>1 DEF Destroy
      <3>2. CASE StartTracing(h)
        BY <3>2 DEF StartTracing, ReleaseHandle
      <3>3. CASE ReadTrace(h)
        BY <3>3 DEF ReadTrace, ReleaseHandle
      <3>4. CASE ReleaseHandle(h, kind) /\ UNCHANGED <<session, timers, proto>>
        BY <3>4 DEF ReleaseHandle
      <3> QED BY <2>2, <3>1, <3>2, <3>3, <3>4 DEF Execute
    <2> QED BY <1>1, <2>1, <2>2 DEF Paired
  <1> QED BY <1>2, <1>3, <1>4 DEF SameHandle

LEMMA InvInit == Init => HandlesInv
  <1> SUFFICES ASSUME Init
               PROVE  HandlesInv
    OBVIOUS
  <1>1. TypeOK
    BY InitType
  <1>2. CreatorSteps
    BY DEF Init, CreatorSteps
  <1>3. ASSUME NEW h \in Handles
        PROVE  HandleInv(h)
    <2>1. creator.handle # h
      BY DEF Init, Handles
    <2>2. Pristine(h) /\ Silent(h)
      BY DEF Init, Pristine, Silent
    <2>3. ~Held(h)
      BY <2>1 DEF Init, Held, Unpaired
    <2> QED BY <2>1, <2>2, <2>3 DEF HandleInv, SubjectInv, Referenced, Pristine, Init
  <1> QED BY <1>1, <1>2, <1>3, Split

LEMMA InvNext ==
    ASSUME Orderly, HandlesInv, TypeOK', [Next]_vars
    PROVE  HandlesInv'
  <1>1. /\ TypeOK
        /\ CreatorSteps
        /\ \A h \in Handles : HandleInv(h)
    BY Split
  <1>2. SUFFICES CreatorSteps' /\ \A g \in Handles : HandleInv(g)'
    BY DEF HandlesInv, CreatorInv, HandleValid, CreatorSteps, HandleInv, Referenced
  <1>3. CASE Creator
    BY <1>1, <1>3, CreatorStepsInv
  <1>4. ASSUME UNCHANGED <<creator, created>>, NEW h \in Handles, HandleInv(h)',
               \A g \in Handles \ {h} : session'[g] = session[g] /\ SameHandle(g)
        PROVE  CreatorSteps' /\ \A g \in Handles : HandleInv(g)'
    <2>1. CreatorSteps'
      BY <1>1, <1>4 DEF CreatorSteps
    <2>2. ASSUME NEW g \in Handles, g # h
          PROVE  HandleInv(g)'
      BY <1>1, <1>4, <2>2, Frame DEF SameHandle
    <2> QED BY <1>4, <2>1, <2>2
  <1>5. ASSUME NEW h \in Handles, Report(h)
        PROVE  CreatorSteps' /\ \A g \in Handles : HandleInv(g)'
    <2>1. PICK r \in Reportable(h) :
             /\ session' = [session EXCEPT ![h] = r[3]]
             /\ CallbackOnStateChanged(h, r[2])
      BY <1>5 DEF Report
    <2>2. /\ r[2] \in States
          /\ subject[h] # "none"
          /\ session'[h] = r[3]
          /\ UNCHANGED <<creator, created>>
      BY <1>1, <1>5, <2>1
      DEF Report, Reportable, StateDiagram, States, Orderly, TypeOK, PerfettoTypeOK,
          CallbackOnStateChanged
    <2>3. HandleInv(h)'
      BY <1>1, <2>1, <2>2, CallbackInv
    <2>4. \A g \in Handles \ {h} : session'[g] = session[g] /\ SameHandle(g)
      BY <1>1, <2>1, CallbackFrame DEF TypeOK, PerfettoTypeOK
    <2> QED BY <1>4, <2>2, <2>3, <2>4
  <1>6. ASSUME NEW h \in Handles, SendCommand(h) \/ ZipState(h)
        PROVE  CreatorSteps' /\ \A g \in Handles : HandleInv(g)'
    <2>1. UNCHANGED <<creator, created>>
      BY <1>1, <1>6, PairedStep
    <2>2. HandleInv(h)'
      BY <1>1, <1>6, PairInv
    <2>3. \A g \in Handles \ {h} : session'[g] = session[g] /\ SameHandle(g)
      BY <1>1, <1>6, PairFrame
    <2> QED BY <1>4, <2>1, <2>2, <2>3
  <1>7. ASSUME NEW h \in Handles, ZipError(h) \/ Unsubscribe(h)
        PROVE  CreatorSteps' /\ \A g \in Handles : HandleInv(g)'
    <2>1. PICK how : EndStream(h, how)
      BY <1>7 DEF ZipError, Unsubscribe
    <2>2. out[h] = "open"
      BY <1>7 DEF ZipError, Unsubscribe
    <2>3. HandleInv(h)'
      BY <1>1, <2>1, <2>2, EndInv
    <2>4. \A g \in Handles \ {h} : session'[g] = session[g] /\ SameHandle(g)
      BY <1>1, <2>1
      DEF EndStream, perfettoVars, subjectVars, SameHandle, ReleaseHandle, TypeOK,
          ConsumerTypeOK, ZipTypeOK
    <2>5. UNCHANGED <<creator, created>>
      BY <2>1 DEF EndStream
    <2> QED BY <1>4, <2>3, <2>4, <2>5
  <1>8. CASE (\E h \in Handles : OnTraceMessage(h)) \/ CullTraces \/ UNCHANGED vars
    <2>1. UNCHANGED <<session, created, kind, creator, subjectVars, zipVars>>
      BY <1>8 DEF OnTraceMessage, CullTraces, vars, perfettoVars, consumerVars
    <2>2. CreatorSteps'
      BY <1>1, <2>1 DEF CreatorSteps
    <2>3. ASSUME NEW g \in Handles
          PROVE  HandleInv(g)'
      BY <1>1, <2>1, <2>3, Frame DEF subjectVars, zipVars
    <2> QED BY <2>2, <2>3
  <1>9. ASSUME NEW h \in Handles, CheckTimeout(h) \/ PruneTrace(h)
        PROVE  CreatorSteps' /\ \A g \in Handles : HandleInv(g)'
    <2>1. UNCHANGED <<session, created>>
      BY <1>9 DEF CheckTimeout, PruneTrace, perfettoVars
    <2>2. CASE CallbackOnStateChanged(h, "TraceFailed")
      <3>1. HandleInv(h)'
        BY <1>1, <2>1, <2>2, CallbackInv DEF States
      <3>2. \A g \in Handles \ {h} : session'[g] = session[g] /\ SameHandle(g)
        BY <1>1, <2>1, <2>2, CallbackFrame
      <3>3. UNCHANGED creator
        BY <2>2 DEF CallbackOnStateChanged
      <3> QED BY <1>4, <2>1, <3>1, <3>2, <3>3
    <2>3. CASE UNCHANGED <<kind, creator, subjectVars, zipVars>>
      <3>1. CreatorSteps'
        BY <1>1, <2>1, <2>3 DEF CreatorSteps
      <3>2. ASSUME NEW g \in Handles
            PROVE  HandleInv(g)'
        BY <1>1, <2>1, <2>3, <3>2, Frame DEF subjectVars, zipVars
      <3> QED BY <3>1, <3>2
    <2> QED BY <1>9, <2>2, <2>3 DEF CheckTimeout, PruneTrace
  <1> QED
    BY <1>3, <1>5, <1>6, <1>7, <1>8, <1>9 DEF Next, Coordinator, Watchdog

\* As long as perfetto calls back in order, the state of every subject follows
\* perfetto's session, and the consumer tracks what is referenced.
THEOREM HandlesInvariant ==
    ASSUME Orderly
    PROVE  Spec => []HandlesInv
<1>1. TypeOK /\ TypeOK' /\ HandlesInv /\ [Next]_vars => HandlesInv'
  BY InvNext
<1>2. QED
  BY <1>1, InvInit, TypeCorrect, PTL DEF Spec

\* A handle stays valid as long as anything refers to it, for any number of
\* streams, however the watchdog and the callbacks interleave.
THEOREM HandlesValid ==
    ASSUME Orderly
    PROVE  Spec => []HandleValid
<1>1. HandlesInv => HandleValid
  BY DEF HandlesInv
<1>2. QED
  BY <1>1, HandlesInvariant, PTL

-----------------------------------------------------------------------------
(* What is delivered: the course of a session through the zip *)

\* What holds of each handle, besides HandleInv.
DeliveryInv(h) ==
    /\ ErrorsReported(h)
    /\ deferred[h] \/ OnCourse(h)
    /\ out[h] = "completed" /\ ~deferred[h] => proto[h] = "trace"

LEMMA SplitDelivery == IInv <=> HandlesInv /\ \A h \in Handles : DeliveryInv(h)
  BY DEF IInv, DeliveryInv, TraceDelivered

\* A step that leaves the state of a handle alone keeps what holds of it.
LEMMA DeliveryFrame ==
    ASSUME NEW g, DeliveryInv(g), deferred'[g] = deferred[g],
           session'[g] = session[g], subject'[g] = subject[g],
           last_state'[g] = last_state[g], inbox'[g] = inbox[g],
           arrived'[g] = arrived[g], commands'[g] = commands[g], out'[g] = out[g],
           proto'[g] = proto[g]
    PROVE  DeliveryInv(g)'
  BY DEF DeliveryInv, ErrorsReported, OnCourse, Emitted

\* What one notification puts in flight.
LEMMA InFlight ==
    ASSUME TypeOK, NEW h \in Handles, NEW s \in States, OnStateChanged(h, s)
    PROVE  LET e == IF s \in Errors THEN "Error" ELSE s
           IN  \/ /\ dest[h] = "open" /\ out[h] = "open"
                  /\ inbox'[h] = Append(inbox[h], e)
                  /\ Len(inbox'[h]) = Len(inbox[h]) + 1
                  /\ inbox'[h][Len(inbox[h]) + 1] = e
                  /\ \A i \in 1 .. Len(inbox[h]) : inbox'[h][i] = inbox[h][i]
               \/ /\ ~(dest[h] = "open" /\ out[h] = "open")
                  /\ inbox'[h] = inbox[h]
  <1> DEFINE e == IF s \in Errors THEN "Error" ELSE s
  <1>1. inbox \in [Handles -> Notifications] /\ inbox[h] \in Notifications
    BY DEF TypeOK, ZipTypeOK
  <1>2. e \in States \cup {"Error"}
    OBVIOUS
  <1>3. inbox' = IF dest[h] = "open" /\ out[h] = "open"
                 THEN [inbox EXCEPT ![h] = Append(@, e)] ELSE inbox
    BY DEF OnStateChanged, EmitError, EmitNext
  <1>4. CASE dest[h] = "open" /\ out[h] = "open"
    <2>1. inbox'[h] = Append(inbox[h], e)
      BY <1>1, <1>3, <1>4
    <2> HIDE DEF e
    <2>2. /\ Len(inbox'[h]) = Len(inbox[h]) + 1
          /\ inbox'[h][Len(inbox[h]) + 1] = e
          /\ \A i \in 1 .. Len(inbox[h]) : inbox'[h][i] = inbox[h][i]
      BY <1>1, <1>2, <2>1 DEF Notifications
    <2> QED BY <1>4, <2>1, <2>2 DEF e
  <1>5. CASE ~(dest[h] = "open" /\ out[h] = "open")
    BY <1>3, <1>5
  <1> QED BY <1>4, <1>5

\* A session that traces by itself is neither configured nor told to start.
LEMMA ReportsTracing ==
    ASSUME TypeOK, NEW h \in Handles, ~deferred[h], NEW r \in Reportable(h)
    PROVE  r[3] \notin {"Configured", "Started"}
  BY DEF Reportable, StateDiagram, TypeOK, PerfettoTypeOK

\* What such a session reports.
LEMMA ReportsCourse ==
    ASSUME Orderly, TypeOK, NEW h \in Handles, ~deferred[h], NEW r \in Reportable(h),
           r[2] \notin Errors
    PROVE  \/ session[h] = "created" /\ r[2] = "Tracing"
           \/ session[h] = "Connecting"
           \/ session[h] = "Started"
           \/ session[h] = "Tracing" /\ r[2] = "TraceEnded"
  <1>1. r \in StateDiagram(FALSE) /\ r[1] = session[h]
    BY DEF Reportable, TypeOK, PerfettoTypeOK
  <1>2. session[h] = "created" => r[2] # "Connecting"
    BY DEF Reportable, Orderly, Errors
  <1> QED BY <1>1, <1>2 DEF StateDiagram, Errors

LEMMA CallbackDelivers ==
    ASSUME Orderly, TypeOK, NEW h \in Handles, HandleInv(h), DeliveryInv(h),
           NEW s \in States, CallbackOnStateChanged(h, s), deferred'[h] = deferred[h],
           \/ s = "TraceFailed" /\ session'[h] = session[h]
           \/ \E r \in Reportable(h) : s = r[2] /\ session'[h] = r[3]
    PROVE  DeliveryInv(h)'
  <1>1. UNCHANGED <<arrived, commands, out, proto>>
    BY DEF CallbackOnStateChanged
  <1>2. ~deferred[h] => session'[h] \notin {"Configured", "Started"}
    BY ReportsTracing DEF DeliveryInv, OnCourse
  <1>3. CASE subject[h] # "bound"
    <2>1. UNCHANGED <<subject, last_state, inbox>>
      BY <1>3 DEF CallbackOnStateChanged, subjectVars
    <2> QED
      BY <1>1, <1>2, <2>1 DEF DeliveryInv, ErrorsReported, OnCourse, Emitted
  <1>4. CASE subject[h] = "bound"
    <2> DEFINE e == IF s \in Errors THEN "Error" ELSE s
    <2>1. OnStateChanged(h, s)
      BY <1>4 DEF CallbackOnStateChanged
    <2>2. last_state'[h] = s
      BY <2>1 DEF OnStateChanged, TypeOK, SubjectTypeOK
    <2>3. /\ inbox[h] \in Notifications /\ Len(inbox[h]) \in Nat
          /\ arrived[h] \in Seq(States) /\ Len(arrived[h]) \in Nat
      BY DEF TypeOK, ZipTypeOK, Notifications
    <2>4. \/ /\ dest[h] = "open" /\ out[h] = "open"
             /\ Len(inbox'[h]) = Len(inbox[h]) + 1
             /\ inbox'[h][Len(inbox[h]) + 1] = e
             /\ \A i \in 1 .. Len(inbox[h]) : inbox'[h][i] = inbox[h][i]
          \/ /\ ~(dest[h] = "open" /\ out[h] = "open")
             /\ inbox'[h] = inbox[h]
      BY <2>1, InFlight
    <2>5. ErrorsReported(h)'
      <3>1. CASE s \in Errors
        BY <2>2, <3>1 DEF ErrorsReported
      <3>2. CASE s \notin Errors
        <4>1. last_state[h] \notin Errors
          BY <1>4, <3>2
          DEF HandleInv, SubjectInv, Reportable, StateDiagram, Errors, TypeOK, PerfettoTypeOK
        <4>2. \A i \in 1 .. Len(inbox[h]) : inbox[h][i] # "Error"
          BY <4>1 DEF DeliveryInv, ErrorsReported
        <4>3. e # "Error"
          BY <3>2 DEF States
        <4> HIDE DEF e
        <4> QED BY <2>3, <2>4, <4>2, <4>3 DEF ErrorsReported
      <3> QED BY <3>1, <3>2
    <2>6. ASSUME ~deferred[h]
          PROVE  OnCourse(h)'
      <3>1. OnCourse(h)
        BY <2>6 DEF DeliveryInv
      <3>2. CASE ~(dest[h] = "open" /\ out[h] = "open")
        <4>1. out[h] = "open" => ~(subject'[h] = "bound" /\ last_state'[h] = "Tracing")
          BY <1>4, <2>1, <2>2, <3>2
          DEF HandleInv, SubjectInv, Reportable, StateDiagram, TypeOK, PerfettoTypeOK,
              SubjectTypeOK, States
        <4> QED BY <1>1, <1>2, <2>4, <2>6, <3>1, <3>2, <4>1 DEF OnCourse, Emitted
      <3>3. CASE dest[h] = "open" /\ out[h] = "open"
        <4>1. \/ last_state[h] = "Idle" /\ session[h] = "created" /\ Emitted(h) = 0
              \/ last_state[h] = "Tracing" /\ session[h] = "Tracing" /\ Emitted(h) = 1
          BY <1>4, <3>1, <3>3 DEF OnCourse, HandleInv, SubjectInv
        <4>2. \/ e = "Error" /\ s # "Tracing"
              \/ e = "Tracing" /\ s = "Tracing" /\ Emitted(h) = 0
              \/ e = "TraceEnded" /\ s = "TraceEnded" /\ Emitted(h) = 1
          BY <2>6, <4>1, ReportsCourse DEF Errors
        <4> HIDE DEF e
        <4>3. e \in {Course[Emitted(h) + 1], "Error"}
          BY <4>2 DEF Course
        <4>4. Emitted(h)' = Emitted(h) + 1 /\ Emitted(h)' <= Len(Course)
          <5> DEFINE a == Len(arrived[h])  b == Len(inbox[h])  d == Len(inbox'[h])
          <5>1. a \in Nat /\ b \in Nat /\ d = b + 1
            BY <2>3, <2>4, <3>3
          <5>2. Emitted(h) = a + b /\ Emitted(h)' = a + d
            BY <1>1 DEF Emitted
          <5>3. Len(Course) = 2 /\ Emitted(h) \in {0, 1}
            BY <4>1 DEF Course
          <5> HIDE DEF a, b, d
          <5> QED BY <5>1, <5>2, <5>3
        <4>5. \A i \in 1 .. Len(inbox'[h]) :
                 inbox'[h][i] \in {Course[Len(arrived[h]) + i], "Error"}
          <5> TAKE i \in 1 .. Len(inbox'[h])
          <5>1. CASE i \in 1 .. Len(inbox[h])
            BY <2>4, <3>1, <3>3, <5>1 DEF OnCourse
          <5>2. CASE i = Len(inbox[h]) + 1
            <6>1. Len(arrived[h]) + i = Emitted(h) + 1
              <7> DEFINE a == Len(arrived[h])  b == Len(inbox[h])
              <7>1. a \in Nat /\ b \in Nat /\ Emitted(h) = a + b /\ i = b + 1
                BY <2>3, <5>2 DEF Emitted
              <7> HIDE DEF a, b
              <7>2. a + i = Emitted(h) + 1
                BY <7>1
              <7> QED BY <7>2 DEF a
            <6> QED BY <2>4, <3>3, <4>3, <5>2, <6>1
          <5> QED BY <2>3, <2>4, <3>3, <5>1, <5>2
        <4>6. last_state'[h] = "Tracing" => Emitted(h)' = 1
          BY <2>2, <4>1, <4>2, <4>4
        <4> QED
          BY <1>1, <1>2, <2>6, <3>1, <3>3, <4>4, <4>5, <4>6 DEF OnCourse
      <3> QED BY <3>2, <3>3
    <2> QED BY <1>1, <2>5, <2>6 DEF DeliveryInv
  <1> QED BY <1>3, <1>4

\* What the zip leaves on its way is the end of what was there.
LEMMA InboxTail ==
    ASSUME TypeOK, NEW h \in Handles, NEW seen \in Seq(States), NEW sent \in 0 .. 3,
           NEW n \in Nat, Paired(h, seen, sent, n)
    PROVE  \/ inbox'[h] = <<>>
           \/ inbox'[h] = inbox[h]
           \/ inbox[h] # <<>> /\ inbox'[h] = Tail(inbox[h])
  <1>1. /\ inbox \in [Handles -> Notifications] /\ inbox[h] \in Notifications
        /\ arrived[h] \in Seq(States)
    BY DEF TypeOK, ZipTypeOK
  <1>2. Len(seen) > Len(arrived[h]) => inbox[h] # <<>>
    BY <1>1 DEF Paired
  <1> QED BY <1>1, <1>2 DEF Paired, Settle

LEMMA Tails ==
    ASSUME NEW q \in Notifications
    PROVE  /\ Len(q) \in Nat
           /\ Len(<<>>) = 0
           /\ q # <<>> => /\ Len(q) > 0
                          /\ Len(Tail(q)) = Len(q) - 1
                          /\ Head(q) = q[1]
                          /\ \A i \in 1 .. Len(Tail(q)) : /\ i + 1 \in 1 .. Len(q)
                                                          /\ Tail(q)[i] = q[i + 1]
  BY DEF Notifications

\* A pair of a session that traces by itself keeps it on its course, and completes
\* the stream only when it hands over the trace.
LEMMA PairOnCourse ==
    ASSUME TypeOK, NEW h \in Handles, OnCourse(h), out[h] = "open", HandleInv(h)',
           UNCHANGED <<subject, last_state>>,
           NEW seen \in Seq(States), NEW sent \in 0 .. 3, NEW n \in Nat,
           Paired(h, seen, sent, n)
    PROVE  /\ OnCourse(h)'
           /\ out'[h] = "completed" => proto'[h] = "trace"
  <1> DEFINE a == Len(arrived[h])  b == Len(inbox[h])  c == Len(seen)
  <1>1. /\ arrived \in [Handles -> Seq(States)] /\ arrived[h] \in Seq(States)
        /\ commands \in [Handles -> 0 .. 3] /\ commands[h] \in 0 .. 3
        /\ inbox \in [Handles -> Notifications] /\ inbox[h] \in Notifications
        /\ out \in [Handles -> {"none", "open", "completed", "error", "unsubscribed"}]
        /\ session \in [Handles -> Sessions]
        /\ proto \in [Handles -> {"none", "trace", "empty"}]
        /\ a \in Nat /\ b \in Nat /\ c \in Nat
    BY DEF TypeOK, ZipTypeOK, PerfettoTypeOK, Notifications
  <1>2. /\ Emitted(h) = a + b
        /\ a + b <= 2
        /\ \A i \in 1 .. a : arrived[h][i] = Course[i]
        /\ \A i \in 1 .. b : inbox[h][i] \in {Course[a + i], "Error"}
        /\ a = 2 => commands[h] < 2
        /\ Course[1] = "Tracing" /\ Course[2] = "TraceEnded" /\ Len(Course) = 2
    BY DEF OnCourse, Emitted, Course
  <1>3. commands'[h] = sent
    BY <1>1 DEF Paired
  <1>4. session'[h] \notin {"Configured", "Started"}
    BY <1>1
    DEF OnCourse, Paired, Execute, StartTracing, ReadTrace, Destroy
  <1>5. \/ /\ seen = arrived[h] /\ sent = commands[h] + 1 /\ n = sent /\ c = a
        \/ /\ inbox[h] # <<>> /\ sent = commands[h] /\ n = c /\ c = a + 1 /\ b > 0
           /\ seen = Append(arrived[h], Head(inbox[h]))
           /\ seen[c] = inbox[h][1]
    <2>1. ASSUME inbox[h] # <<>>
          PROVE  b > 0 /\ Head(inbox[h]) = inbox[h][1]
      BY <1>1, <2>1, Tails
    <2>2. \A x : LET q == Append(arrived[h], x) IN Len(q) = a + 1 /\ q[a + 1] = x
      BY <1>1
    <2> QED BY <2>1, <2>2 DEF Paired
  <1>6. c <= 2 /\ \A i \in 1 .. c : seen[i] = Course[i]
    <2>1. CASE seen = arrived[h] /\ c = a
      <3> HIDE DEF a, b, c
      <3> QED BY <1>1, <1>2, <2>1
    <2>2. CASE /\ inbox[h] # <<>> /\ c = a + 1 /\ b > 0 /\ seen[c] = inbox[h][1]
               /\ seen = Append(arrived[h], Head(inbox[h]))
      <3>1. \A i \in 1 .. a : seen[i] = arrived[h][i]
        BY <1>1, <2>2
      <3>2. seen[c] # "Error" /\ c \in 1 .. c
        BY <1>1, <2>2 DEF States
      <3> HIDE DEF a, b, c
      <3>3. seen[c] = Course[a + 1]
        BY <1>1, <1>2, <2>2, <3>2
      <3> QED BY <1>1, <1>2, <2>2, <3>1, <3>3
    <2> QED BY <1>5, <2>1, <2>2
  <1>7. CASE ZipCompleted(seen, sent)
    <2>1. c = 2 /\ sent >= 2 /\ seen[2] = "TraceEnded"
      <3>1. seen # <<>> /\ seen[c] = "TraceEnded" /\ sent >= c
        BY <1>1, <1>6, <1>7 DEF ZipCompleted
      <3>2. c \in 1 .. c
        BY <1>1, <3>1
      <3> HIDE DEF c
      <3> QED BY <1>1, <1>2, <1>6, <3>1, <3>2
    <2>2. n = 2
      BY <1>1, <1>2, <1>5, <2>1
    <2>3. ReadTrace(h)
      BY <1>1, <2>1, <2>2 DEF Paired, Execute
    <2>4. proto'[h] = "trace"
      BY <1>1, <2>3 DEF ReadTrace, HandleInv
    <2>5. out'[h] # "open"
      BY <1>1, <1>7 DEF Paired, Settle
    <2> QED BY <1>4, <2>4, <2>5 DEF OnCourse
  <1>8. CASE ~ZipCompleted(seen, sent)
    <2>1. out'[h] = "open"
      BY <1>1, <1>8 DEF Paired, Settle
    <2>2. /\ arrived'[h] = seen
          /\ inbox'[h] = IF c > a THEN Tail(inbox[h]) ELSE inbox[h]
      BY <1>1, <1>8 DEF Paired, Settle
    <2>3. c = 2 => commands'[h] < 2
      <3>1. c = 2 => seen # <<>> /\ seen[2] = "TraceEnded"
        <4>1. seen = <<>> => c = 0
          BY <1>1
        <4> HIDE DEF c
        <4> QED BY <1>2, <1>6, <4>1
      <3> QED BY <1>1, <1>3, <1>8, <3>1 DEF ZipCompleted
    <2>4. /\ Emitted(h)' = Emitted(h)
          /\ \A i \in 1 .. Len(inbox'[h]) : inbox'[h][i] \in {Course[c + i], "Error"}
      <3>1. CASE c = a
        <4>1. inbox'[h] = inbox[h] /\ Emitted(h)' = c + Len(inbox[h])
          BY <1>1, <2>2, <3>1 DEF Emitted
        <4> HIDE DEF a, c
        <4> QED BY <1>2, <3>1, <4>1
      <3>2. CASE c = a + 1 /\ inbox[h] # <<>>
        <4>1. inbox'[h] = Tail(inbox[h]) /\ Emitted(h)' = c + Len(inbox'[h])
          BY <1>1, <2>2, <3>2 DEF Emitted
        <4>2. /\ Len(inbox'[h]) = b - 1
              /\ \A i \in 1 .. Len(inbox'[h]) :
                    i + 1 \in 1 .. b /\ inbox'[h][i] = inbox[h][i + 1]
          BY <1>1, <3>2, <4>1, Tails
        <4> HIDE DEF a, b, c
        <4>3. Emitted(h)' = Emitted(h)
          BY <1>1, <1>2, <3>2, <4>1, <4>2
        <4>4. ASSUME NEW i \in 1 .. Len(inbox'[h])
              PROVE  inbox'[h][i] \in {Course[c + i], "Error"}
          <5>1. a + (i + 1) = c + i
            BY <1>1, <3>2
          <5>2. inbox[h][i + 1] \in {Course[a + (i + 1)], "Error"}
            BY <1>2, <4>2
          <5> QED BY <4>2, <5>1, <5>2
        <4> QED BY <4>3, <4>4
      <3> QED BY <1>5, <3>1, <3>2
    <2>5. Emitted(h)' <= Len(Course)
          /\ (subject'[h] = "bound" /\ last_state'[h] = "Tracing" => Emitted(h)' = 1)
      BY <2>4 DEF OnCourse
    <2>6. \A i \in 1 .. Len(arrived'[h]) : arrived'[h][i] = Course[i]
      BY <1>6, <2>2
    <2> QED BY <1>4, <2>1, <2>2, <2>3, <2>4, <2>5, <2>6 DEF OnCourse
  <1> QED BY <1>7, <1>8

LEMMA PairDelivers ==
    ASSUME TypeOK, NEW h \in Handles, DeliveryInv(h), HandleInv(h)',
           SendCommand(h) \/ ZipState(h)
    PROVE  DeliveryInv(h)'
  <1>1. /\ out[h] = "open"
        /\ UNCHANGED <<deferred, subject, last_state>>
    BY PairedStep DEF subjectVars
  <1>2. PICK seen \in Seq(States), sent \in 0 .. 3, n \in Nat : Paired(h, seen, sent, n)
    BY PairedStep
  <1>3. ErrorsReported(h)'
    <2>1. \/ inbox'[h] = <<>>
          \/ inbox'[h] = inbox[h]
          \/ inbox[h] # <<>> /\ inbox'[h] = Tail(inbox[h])
      BY <1>2, InboxTail
    <2>2. inbox[h] \in Notifications
      BY DEF TypeOK, ZipTypeOK
    <2>3. \A i \in 1 .. Len(inbox'[h]) :
             \E j \in 1 .. Len(inbox[h]) : inbox'[h][i] = inbox[h][j]
      <3>1. CASE inbox'[h] = <<>>
        BY <3>1
      <3>2. CASE inbox'[h] = inbox[h]
        BY <3>2
      <3>3. CASE inbox[h] # <<>> /\ inbox'[h] = Tail(inbox[h])
        <4>1. \A i \in 1 .. Len(inbox'[h]) :
                 i + 1 \in 1 .. Len(inbox[h]) /\ inbox'[h][i] = inbox[h][i + 1]
          BY <2>2, <3>3, Tails
        <4> QED BY <4>1
      <3> QED BY <2>1, <3>1, <3>2, <3>3
    <2> QED BY <1>1, <2>3 DEF DeliveryInv, ErrorsReported
  <1>4. ASSUME ~deferred[h]
        PROVE  /\ OnCourse(h)'
               /\ out'[h] = "completed" => proto'[h] = "trace"
    BY <1>1, <1>2, <1>4, PairOnCourse DEF DeliveryInv
  <1> QED BY <1>1, <1>3, <1>4 DEF DeliveryInv

LEMMA EndDelivers ==
    ASSUME TypeOK, NEW h \in Handles, DeliveryInv(h), ZipError(h) \/ Unsubscribe(h)
    PROVE  DeliveryInv(h)'
  <1>1. PICK how \in {"error", "unsubscribed"} : EndStream(h, how)
    BY DEF ZipError, Unsubscribe
  <1>2. /\ UNCHANGED <<session, deferred, subject, last_state>>
        /\ out'[h] = how
        /\ inbox'[h] = <<>>
    BY <1>1 DEF EndStream, perfettoVars, subjectVars, TypeOK, ZipTypeOK
  <1> QED BY <1>2 DEF DeliveryInv, ErrorsReported, OnCourse

-----------------------------------------------------------------------------
(* What is delivered: the steps, and the theorems *)

\* A handle of which nothing has been reported yet.
LEMMA SilentDelivers ==
    ASSUME NEW h, Silent(h)', session'[h] \notin {"Configured", "Started"},
           out'[h] = "completed" /\ ~deferred'[h] => proto'[h] = "trace"
    PROVE  DeliveryInv(h)'
  <1>1. Emitted(h)' = 0
    BY DEF Silent, Emitted
  <1>2. /\ Len(arrived'[h]) = 0 /\ Len(inbox'[h]) = 0
        /\ last_state'[h] # "Tracing"
        /\ Len(Course) = 2
    BY DEF Silent, Course
  <1> QED BY <1>1, <1>2 DEF DeliveryInv, ErrorsReported, OnCourse

LEMMA CreatorDelivers ==
    ASSUME TypeOK, CreatorSteps, \A h \in Handles : HandleInv(h) /\ DeliveryInv(h),
           Creator, NEW g \in Handles
    PROVE  DeliveryInv(g)'
  <1> USE DEF TypeOK, PerfettoTypeOK, SubjectTypeOK, ZipTypeOK
  <1>1. CASE CreateRaw
    <2> PICK c \in Handles : c = created + 1
      BY <1>1 DEF CreateRaw
    <2>1. /\ UNCHANGED <<subject, last_state, dest, inbox, arrived, commands, proto>>
          /\ session' = [session EXCEPT ![c] = "created"]
          /\ out' = [out EXCEPT ![c] = "open"]
          /\ \E d \in DeferredStart : deferred' = [deferred EXCEPT ![c] = d]
      BY <1>1 DEF CreateRaw, subjectVars
    <2>2. CASE g = c
      <3>1. Silent(c)'
        BY <2>1 DEF HandleInv, Silent, ConsumerTypeOK
      <3> QED BY <2>1, <2>2, <3>1, SilentDelivers
    <2>3. CASE g # c
      BY <2>1, <2>3, DeliveryFrame
    <2> QED BY <2>2, <2>3
  <1>2. CASE TrackHandle
    BY <1>2, DeliveryFrame DEF TrackHandle, perfettoVars, subjectVars, zipVars
  <1>3. CASE MapSubject \/ BindHandle
    <2> PICK c \in Handles : c = creator.handle
      BY <1>3 DEF MapSubject, BindHandle, CreatorSteps, Handles
    <2>1. /\ UNCHANGED <<session, deferred, last_state, dest, inbox, arrived, commands,
                         out, proto>>
          /\ \E b \in {"mapped", "bound"} : subject' = [subject EXCEPT ![c] = b]
      BY <1>3 DEF MapSubject, BindHandle, perfettoVars, consumerVars, zipVars
    <2>2. CASE g = c
      <3>1. Silent(c)' /\ session'[c] = "created"
        BY <2>1 DEF HandleInv, Silent
      <3>2. out'[c] = "completed" /\ ~deferred'[c] => proto'[c] = "trace"
        BY <2>1 DEF DeliveryInv
      <3> QED BY <2>2, <3>1, <3>2, SilentDelivers
    <2>3. CASE g # c
      BY <2>1, <2>3, DeliveryFrame
    <2> QED BY <2>2, <2>3
  <1> QED BY <1>1, <1>2, <1>3 DEF Creator

LEMMA DeliveryInit == Init => IInv
  <1> SUFFICES ASSUME Init
               PROVE  IInv
    OBVIOUS
  <1>1. ASSUME NEW h \in Handles
        PROVE  DeliveryInv(h)
    <2>1. Len(arrived[h]) = 0 /\ Len(inbox[h]) = 0
      BY DEF Init
    <2> QED
      BY <2>1 DEF Init, DeliveryInv, ErrorsReported, OnCourse
  <1> QED BY <1>1, InvInit, SplitDelivery

LEMMA DeliveryNext ==
    ASSUME Orderly, IInv, HandlesInv', [Next]_vars
    PROVE  IInv'
  <1>1. /\ TypeOK
        /\ CreatorSteps
        /\ \A h \in Handles : HandleInv(h) /\ DeliveryInv(h)
    BY Split, SplitDelivery
  <1>2. \A h \in Handles : HandleInv(h)'
    BY DEF HandlesInv, CreatorInv, HandleValid, HandleInv, Referenced
  <1>3. SUFFICES \A g \in Handles : DeliveryInv(g)'
    BY DEF IInv, DeliveryInv, TraceDelivered
  <1>4. CASE Creator
    BY <1>1, <1>4, CreatorDelivers
  <1>5. ASSUME NEW h \in Handles, DeliveryInv(h)', deferred' = deferred,
               \A g \in Handles \ {h} : session'[g] = session[g] /\ SameHandle(g)
        PROVE  \A g \in Handles : DeliveryInv(g)'
    <2>1. ASSUME NEW g \in Handles, g # h
          PROVE  DeliveryInv(g)'
      BY <1>1, <1>5, <2>1, DeliveryFrame DEF SameHandle
    <2> QED BY <1>5, <2>1
  <1>6. ASSUME NEW h \in Handles, Report(h)
        PROVE  \A g \in Handles : DeliveryInv(g)'
    <2>1. PICK r \in Reportable(h) :
             /\ session' = [session EXCEPT ![h] = r[3]]
             /\ CallbackOnStateChanged(h, r[2])
      BY <1>6 DEF Report
    <2>2. /\ r[2] \in States
          /\ session'[h] = r[3]
          /\ UNCHANGED deferred
      BY <1>1, <1>6, <2>1
      DEF Report, Reportable, StateDiagram, States, TypeOK, PerfettoTypeOK
    <2>3. DeliveryInv(h)'
      BY <1>1, <2>1, <2>2, CallbackDelivers
    <2>4. \A g \in Handles \ {h} : session'[g] = session[g] /\ SameHandle(g)
      BY <1>1, <2>1, CallbackFrame DEF TypeOK, PerfettoTypeOK
    <2> QED BY <1>5, <2>2, <2>3, <2>4
  <1>7. ASSUME NEW h \in Handles, SendCommand(h) \/ ZipState(h)
        PROVE  \A g \in Handles : DeliveryInv(g)'
    <2>1. UNCHANGED deferred
      BY <1>1, <1>7, PairedStep
    <2>2. DeliveryInv(h)'
      BY <1>1, <1>2, <1>7, PairDelivers
    <2>3. \A g \in Handles \ {h} : session'[g] = session[g] /\ SameHandle(g)
      BY <1>1, <1>7, PairFrame
    <2> QED BY <1>5, <2>1, <2>2, <2>3
  <1>8. ASSUME NEW h \in Handles, ZipError(h) \/ Unsubscribe(h)
        PROVE  \A g \in Handles : DeliveryInv(g)'
    <2>1. PICK how : EndStream(h, how)
      BY <1>8 DEF ZipError, Unsubscribe
    <2>2. DeliveryInv(h)'
      BY <1>1, <1>8, EndDelivers
    <2>3. \A g \in Handles \ {h} : session'[g] = session[g] /\ SameHandle(g)
      BY <1>1, <2>1
      DEF EndStream, perfettoVars, subjectVars, SameHandle, ReleaseHandle, TypeOK,
          ConsumerTypeOK, ZipTypeOK
    <2>4. UNCHANGED deferred
      BY <2>1 DEF EndStream, perfettoVars
    <2> QED BY <1>5, <2>2, <2>3, <2>4
  <1>9. ASSUME NEW h \in Handles, CheckTimeout(h) \/ PruneTrace(h),
               CallbackOnStateChanged(h, "TraceFailed")
        PROVE  \A g \in Handles : DeliveryInv(g)'
    <2>1. UNCHANGED <<session, deferred>>
      BY <1>9 DEF CheckTimeout, PruneTrace, perfettoVars
    <2>2. DeliveryInv(h)'
      BY <1>1, <1>9, <2>1, CallbackDelivers DEF States
    <2>3. \A g \in Handles \ {h} : session'[g] = session[g] /\ SameHandle(g)
      BY <1>1, <1>9, <2>1, CallbackFrame
    <2> QED BY <1>5, <2>1, <2>2, <2>3
  <1>10. ASSUME UNCHANGED <<perfettoVars, subjectVars, zipVars>>
         PROVE  \A g \in Handles : DeliveryInv(g)'
    BY <1>1, <1>10, DeliveryFrame DEF perfettoVars, subjectVars, zipVars
  <1>11. CASE Watchdog \/ (\E h \in Handles : OnTraceMessage(h)) \/ UNCHANGED vars
    BY <1>9, <1>10, <1>11
    DEF Watchdog, CheckTimeout, PruneTrace, CullTraces, OnTraceMessage, vars
  <1> QED
    BY <1>4, <1>6, <1>7, <1>8, <1>11 DEF Next, Coordinator

\* What perfetto reports of a session reaches the zip in its order, and the zip
\* pairs it with the commands in theirs, for any number of streams.
THEOREM Invariant ==
    ASSUME Orderly
    PROVE  Spec => []IInv
<1>1. IInv /\ HandlesInv' /\ [Next]_vars => IInv'
  BY DeliveryNext
<1>2. QED
  BY <1>1, DeliveryInit, HandlesInvariant, PTL DEF Spec

\* A stream that traces by itself and completes has handed over its trace, for
\* any number of streams, whatever the commands, callbacks and timeouts do.
THEOREM TracesDelivered ==
    ASSUME Orderly
    PROVE  Spec => []TraceDelivered
<1>1. IInv => TraceDelivered
  BY DEF IInv
<1>2. QED
  BY <1>1, Invariant, PTL

\* What the subject of a handle knows of its end stays as it is.
LEMMA EndedStep ==
    ASSUME IInv, [Next]_vars, NEW h \in Handles, last_state[h] = "TraceEnded"
    PROVE  /\ last_state'[h] = "TraceEnded"
           /\ out'[h] = "error" => out[h] = "error"
  <1>1. TypeOK /\ HandleInv(h) /\ ErrorsReported(h)
    BY Split DEF IInv
  <1> USE DEF TypeOK, SubjectTypeOK, ZipTypeOK
  <1>2. subject[h] # "bound"
    BY <1>1 DEF HandleInv, SubjectInv
  <1>3. inbox[h] # <<>> => Head(inbox[h]) # "Error"
    <2>1. inbox[h] \in Notifications
      BY <1>1
    <2>2. \A i \in 1 .. Len(inbox[h]) : inbox[h][i] # "Error"
      BY <1>1 DEF ErrorsReported, Errors
    <2>3. inbox[h] # <<>> => 1 \in 1 .. Len(inbox[h]) /\ Head(inbox[h]) = inbox[h][1]
      BY <2>1, Tails
    <2> QED BY <2>2, <2>3
  <1>4. ASSUME NEW g \in Handles, NEW s, CallbackOnStateChanged(g, s)
        PROVE  /\ last_state'[h] = last_state[h]
               /\ out'[h] = out[h]
    <2>1. CASE g = h
      BY <1>2, <1>4, <2>1 DEF CallbackOnStateChanged, subjectVars
    <2>2. CASE g # h
      BY <1>1, <1>4, <2>2 DEF CallbackOnStateChanged, OnStateChanged, subjectVars
    <2> QED BY <2>1, <2>2
  <1>5. CASE Creator
    BY <1>1, <1>5
    DEF Creator, CreateRaw, TrackHandle, MapSubject, BindHandle, subjectVars, zipVars
  <1>6. CASE \E g \in Handles : Report(g)
    BY <1>4, <1>6 DEF Report
  <1>7. ASSUME NEW g \in Handles, SendCommand(g) \/ ZipState(g)
        PROVE  /\ last_state'[h] = last_state[h]
               /\ out'[h] \in {out[h], "completed"}
    <2>1. last_state' = last_state
      BY <1>1, <1>7, PairedStep DEF subjectVars
    <2>2. \A f \in Handles : out'[f] \in {out[f], "completed"}
      BY <1>1, <1>7 DEF SendCommand, ZipState, Settle
    <2> QED BY <2>1, <2>2
  <1>8. ASSUME NEW g \in Handles, ZipError(g) \/ Unsubscribe(g)
        PROVE  /\ last_state'[h] = last_state[h]
               /\ out'[h] = "error" => out[h] = "error"
    <2>1. last_state' = last_state
      BY <1>8 DEF ZipError, Unsubscribe, EndStream, subjectVars
    <2>2. g = h => ~ZipError(g)
      BY <1>3 DEF ZipError
    <2>3. out'[h] = "error" => out[h] = "error"
      BY <1>1, <1>8, <2>2 DEF ZipError, Unsubscribe, EndStream
    <2> QED BY <2>1, <2>3
  <1>9. CASE Watchdog \/ (\E g \in Handles : OnTraceMessage(g)) \/ UNCHANGED vars
    BY <1>4, <1>9
    DEF Watchdog, CheckTimeout, PruneTrace, CullTraces, OnTraceMessage, vars,
        subjectVars, zipVars
  <1> QED
    BY <1>5, <1>6, <1>7, <1>8, <1>9 DEF Next, Coordinator

\* A timeout or a pruning that comes after the end of a trace changes nothing.
THEOREM EndedStaysEnded ==
    ASSUME Orderly
    PROVE  Spec => EndedNotFailed
<1>1. IInv /\ [Next]_vars =>
        [\A h \in Handles :
            last_state[h] = "TraceEnded" =>
               /\ last_state'[h] = "TraceEnded"
               /\ out'[h] = "error" => out[h] = "error"]_vars
  BY EndedStep
<1>2. QED
  BY <1>1, Invariant, PTL DEF Spec, EndedNotFailed

-----------------------------------------------------------------------------
(* Refinement *)

\* What a step does to the status of a stream.
Resolves(h) ==
    \/ StreamStatus(h)' = StreamStatus(h)
    \/ StreamStatus(h) = "collecting" /\ StreamStatus(h)' \in {"have_proto", "dropped"}

\* The zip of one stream: nothing after it has ended, and no trace taken back.
LEMMA PairResolves ==
    ASSUME TypeOK, NEW h \in Handles, SendCommand(h) \/ ZipState(h)
    PROVE  Resolves(h)
  <1>1. PICK seen \in Seq(States), sent \in 0 .. 3, n \in Nat : Paired(h, seen, sent, n)
    BY PairedStep
  <1>2. out[h] = "open"
    BY PairedStep
  <1>3. out'[h] \in {"open", "completed"}
    BY <1>1, <1>2 DEF Paired, Settle, TypeOK, ZipTypeOK
  <1>4. proto'[h] = proto[h] \/ proto'[h] \in {"trace", "empty"}
    BY <1>1
    DEF Paired, Execute, Destroy, StartTracing, ReadTrace, TypeOK, ZipTypeOK
  <1> QED BY <1>2, <1>3, <1>4 DEF Resolves, StreamStatus

LEMMA EndResolves ==
    ASSUME TypeOK, NEW h \in Handles, ZipError(h) \/ Unsubscribe(h)
    PROVE  Resolves(h)
  <1>1. /\ out[h] = "open"
        /\ out'[h] \in {"error", "unsubscribed"}
        /\ proto' = proto
    BY DEF ZipError, Unsubscribe, EndStream, TypeOK, ZipTypeOK
  <1> QED BY <1>1 DEF Resolves, StreamStatus

LEMMA StepOfStreams ==
    ASSUME HandlesInv, [Next]_vars
    PROVE  [Streams!Next]_([h \in Handles |-> StreamStatus(h)])
  <1> DEFINE st == [h \in Handles |-> StreamStatus(h)]
  <1>1. TypeOK
    BY DEF HandlesInv
  <1>2. ASSUME UNCHANGED <<out, proto>>
        PROVE  st' = st
    BY <1>2 DEF StreamStatus
  <1>3. ASSUME NEW h \in Handles, Resolves(h),
               \A g \in Handles \ {h} : out'[g] = out[g] /\ proto'[g] = proto[g]
        PROVE  Streams!Next \/ st' = st
    <2>1. \A g \in Handles \ {h} : StreamStatus(g)' = StreamStatus(g)
      BY <1>3 DEF StreamStatus
    <2>2. CASE StreamStatus(h)' = StreamStatus(h)
      BY <2>1, <2>2
    <2>3. CASE StreamStatus(h) = "collecting"
                 /\ StreamStatus(h)' \in {"have_proto", "dropped"}
      <3>1. st' = [st EXCEPT ![h] = StreamStatus(h)']
        BY <2>1
      <3>2. Streams!Resolve(h)
        BY <2>3, <3>1 DEF Streams!Resolve
      <3> QED BY <3>2 DEF Streams!Next
    <2> QED BY <1>3, <2>2, <2>3 DEF Resolves
  <1>4. CASE CreateRaw
    <2> PICK c \in Handles : c = created + 1
      BY <1>4 DEF CreateRaw
    <2>1. /\ out' = [out EXCEPT ![c] = "open"]
          /\ UNCHANGED proto
          /\ creator.step = "idle"
      BY <1>4 DEF CreateRaw
    <2>2. proto[c] = "none" /\ out[c] = "none"
      <3>1. creator.handle = 0 /\ c # 0 /\ c > created
        BY <1>1, <2>1 DEF HandlesInv, CreatorInv, Handles, TypeOK, ConsumerTypeOK
      <3>2. creator.handle # c => Pristine(c)
        BY <3>1 DEF HandlesInv, CreatorInv
      <3> QED BY <3>1, <3>2 DEF Pristine
    <2>3. StreamStatus(c) = "none" /\ StreamStatus(c)' = "collecting"
      BY <1>1, <2>1, <2>2 DEF StreamStatus, TypeOK, ZipTypeOK
    <2>4. \A g \in Handles \ {c} : StreamStatus(g)' = StreamStatus(g)
      BY <1>1, <2>1 DEF StreamStatus, TypeOK, ZipTypeOK
    <2>5. st' = [st EXCEPT ![c] = "collecting"]
      BY <2>3, <2>4
    <2>6. Streams!Begin(c)
      BY <2>3, <2>5 DEF Streams!Begin
    <2> QED BY <2>6 DEF Streams!Next
  <1>5. ASSUME NEW h \in Handles, SendCommand(h) \/ ZipState(h)
        PROVE  Streams!Next \/ st' = st
    BY <1>1, <1>3, <1>5, PairResolves, PairFrame DEF SameHandle
  <1>6. ASSUME NEW h \in Handles, ZipError(h) \/ Unsubscribe(h)
        PROVE  Streams!Next \/ st' = st
    <2>1. \A g \in Handles \ {h} : out'[g] = out[g] /\ proto'[g] = proto[g]
      BY <1>1, <1>6 DEF ZipError, Unsubscribe, EndStream, TypeOK, ZipTypeOK
    <2> QED BY <1>1, <1>3, <1>6, <2>1, EndResolves
  <1>7. ASSUME NEW h \in Handles, Report(h) \/ CheckTimeout(h) \/ PruneTrace(h)
        PROVE  st' = st
    <2>1. UNCHANGED <<out, proto>>
      <3>1. ASSUME NEW s, CallbackOnStateChanged(h, s)
            PROVE  UNCHANGED <<out, proto>>
        BY <3>1 DEF CallbackOnStateChanged
      <3>2. CASE Report(h)
        BY <3>1, <3>2 DEF Report
      <3>3. CASE CheckTimeout(h) \/ PruneTrace(h)
        BY <3>1, <3>3 DEF CheckTimeout, PruneTrace, zipVars
      <3> QED BY <1>7, <3>2, <3>3
    <2> QED BY <1>2, <2>1
  <1>8. CASE \/ TrackHandle \/ MapSubject \/ BindHandle \/ CullTraces
             \/ (\E h \in Handles : OnTraceMessage(h)) \/ UNCHANGED vars
    BY <1>2, <1>8
    DEF TrackHandle, MapSubject, BindHandle, CullTraces, OnTraceMessage, vars, zipVars
  <1> QED
    BY <1>4, <1>5, <1>6, <1>7, <1>8 DEF Next, Creator, Coordinator, Watchdog

\* What rx_producer.cc and perfetto_consumer.cc do together is a trace stream as
\* LaunchEvents uses it: each hands over one trace or none, once.  (That it
\* resolves is left to the model checker.)
THEOREM StreamsImplemented ==
    ASSUME Orderly
    PROVE  Spec => Streams!Spec
<1>1. Init => Streams!Init
  BY DEF Init, Streams!Init, StreamStatus
<1>2. HandlesInv /\ [Next]_vars => [Streams!Next]_([h \in Handles |-> StreamStatus(h)])
  BY StepOfStreams
<1>3. QED
  BY <1>1, <1>2, HandlesInvariant, PTL DEF Spec, Streams!Spec
=============================================================================
