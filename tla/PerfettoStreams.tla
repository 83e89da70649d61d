--------------------------- MODULE PerfettoStreams ---------------------------
(***************************************************************************)
(* Perfetto trace streams: perfetto_consumer.cc keeps track of the handles *)
(* iorapd has created and times them out; rx_producer.cc turns the state   *)
(* changes perfetto reports for a handle into an rx stream and zips them   *)
(* with the commands start, stop and shutdown.                             *)
(*                                                                         *)
(* Five kinds of thread take part: the worker that creates streams one     *)
(* after the other, perfetto's callback thread, one coordinator thread per *)
(* stream, the looper thread of the watchdog, and whoever unsubscribes.    *)
(* Perfetto itself is external: StateDiagram is the contract that          *)
(* DcheckValidStateTransition expects of it.                               *)
(***************************************************************************)
EXTENDS Naturals, Sequences, FiniteSets

CONSTANTS
    MaxHandles,         \* bound: streams that are ever created
    MaxTraces,          \* iorapd.perfetto.max_traces
    DeferredStart,      \* values of deferred_start a stream may be configured with
    ReportsConnecting,  \* does perfetto report kConnecting to the callback?
    EarlyCallbacks,     \* may it report before the handle is in the subject map?
    ClockSetBack        \* may the wall clock be set back while a trace runs?

Handles == 1 .. MaxHandles

ASSUME PerfettoAssumption ==
    /\ MaxHandles \in Nat
    /\ MaxTraces \in Nat \ {0}
    /\ DeferredStart \subseteq BOOLEAN
    /\ ReportsConnecting \in BOOLEAN
    /\ EarlyCallbacks \in BOOLEAN
    /\ ClockSetBack \in BOOLEAN

VARIABLES
    session,       \* perfetto: the state of each handle's session
    deferred,      \* deferred_start in the config of each stream
    created,       \* PerfettoConsumerImpl::last_created_
    kind,          \* states_: the last operation on each tracked handle
    timers,        \* handles with a delayed message in the looper
    watchdog,      \* the looper thread: what OnTraceMessage is doing
    creator,       \* the worker thread, in CreatePerfettoStateStream
    subject,       \* state_subject_map_ and StateChangedSubject::bound_
    last_state,    \* StateChangedSubject::last_state
    dest,          \* has the subject's subscriber been completed or failed?
    inbox,         \* state changes on their way to the zip
    arrived,       \* state changes that reached it
    commands,      \* PerfettoStreamCommands that reached it
    out,           \* the subscription of the stream
    proto          \* the PerfettoTraceProto it emitted

perfettoVars == <<session, deferred>>
consumerVars == <<created, kind, timers, watchdog>>
subjectVars == <<subject, last_state, dest>>
zipVars == <<inbox, arrived, commands, out, proto>>
vars == <<perfettoVars, consumerVars, creator, subjectVars, zipVars>>

States == {"Connecting", "Configured", "Tracing", "TraceEnded", "TraceFailed",
           "ConnectionError"}
Errors == {"TraceFailed", "ConnectionError"}
Terminal == Errors \cup {"TraceEnded"}

Kinds == {"created", "started", "read"}

Idle == [step |-> "idle", handle |-> 0, kind |-> "created", culled |-> {}]

-----------------------------------------------------------------------------
(* Perfetto: <<session, reported, session after it>> *)

StateDiagram(deferred_start) ==
    LET ready == IF deferred_start THEN "Configured" ELSE "Tracing" IN
    { <<"created", "Connecting", "Connecting">>,
      <<"created", ready, ready>>,
      <<"created", "ConnectionError", "over">>,
      <<"Connecting", ready, ready>>,
      <<"Connecting", "ConnectionError", "over">>,
      <<"Configured", "TraceFailed", "TraceFailed">>,
      <<"Configured", "ConnectionError", "refused">>,
      <<"Started", "Tracing", "Tracing">>,
      <<"Started", "TraceEnded", "over">>,
      <<"Started", "TraceFailed", "TraceFailed">>,
      <<"Tracing", "TraceEnded", "over">>,
      <<"Tracing", "TraceFailed", "TraceFailed">>,
      <<"TraceFailed", "ConnectionError", "over">>,
      <<"refused", "TraceFailed", "over">> }

Reportable(h) ==
    {r \in StateDiagram(deferred[h]) :
        r[1] = session[h] /\ (session[h] = "created" =>
                                 ReportsConnecting = (r[2] = "Connecting")
                                   \/ r[2] = "ConnectionError")}

-----------------------------------------------------------------------------
(* PerfettoConsumerHandle: the handle is destroyed with its last reference *)

\* State changes that wait in the zip for a command.
Unpaired(h) == Len(arrived[h]) > commands[h]

Held(h) ==
    \/ creator.handle = h
    \/ subject[h] = "bound"
    \/ inbox[h] # <<>>
    \/ Unpaired(h)

\* Mutant: the state changes do not share ownership of the handle.
ReleaseHandleWithSubject(h, kinds) ==
    kind' = IF creator'.handle = h \/ subject'[h] = "bound"
            THEN kinds ELSE [kinds EXCEPT ![h] = "untracked"]

\* PerfettoConsumerImpl::Destroy, if this step drops the last reference.
ReleaseHandle(h, kinds) ==
    kind' = IF Held(h)' THEN kinds ELSE [kinds EXCEPT ![h] = "untracked"]

-----------------------------------------------------------------------------
(* StateChangedSubject *)

EmitError(h) ==
    inbox' = IF dest[h] = "open" /\ out[h] = "open"
             THEN [inbox EXCEPT ![h] = Append(@, "Error")] ELSE inbox

EmitNext(h, state) ==
    inbox' = IF dest[h] = "open" /\ out[h] = "open"
             THEN [inbox EXCEPT ![h] = Append(@, state)] ELSE inbox

\* After kConfigured, kConnectionError is followed by another callback.
IsTerminalState(h, state) ==
    state \in Terminal /\ ~(last_state[h] = "Configured" /\ state = "ConnectionError")

\* Mutant: the subject stays in the map when its trace has ended.
OnStateChangedKeepsSubject(h, state) ==
    /\ IF state \in Errors THEN EmitError(h) ELSE EmitNext(h, state)
    /\ dest' = IF state \in Errors THEN [dest EXCEPT ![h] = "done"] ELSE dest
    /\ last_state' = [last_state EXCEPT ![h] = state]
    /\ subject' = IF state \in Errors
                  THEN [subject EXCEPT ![h] = "deleted"] ELSE subject

\* Mutant: a subject whose stream failed stays in the map.
OnStateChangedKeepsFailed(h, state) ==
    /\ IF state \in Errors THEN EmitError(h) ELSE EmitNext(h, state)
    /\ dest' = IF state \in Terminal THEN [dest EXCEPT ![h] = "done"] ELSE dest
    /\ last_state' = [last_state EXCEPT ![h] = state]
    /\ subject' = IF state = "TraceEnded"
                  THEN [subject EXCEPT ![h] = "deleted"] ELSE subject

OnStateChanged(h, state) ==
    /\ IF state \in Errors THEN EmitError(h) ELSE EmitNext(h, state)
    /\ dest' = IF state \in Terminal THEN [dest EXCEPT ![h] = "done"] ELSE dest
    /\ last_state' = [last_state EXCEPT ![h] = state]
    /\ subject' = IF IsTerminalState(h, state)
                  THEN [subject EXCEPT ![h] = "deleted"] ELSE subject

\* Runs under state_subject_mutex_, spins until the handle is bound, and does
\* nothing when the map has no subject for the handle.
CallbackOnStateChanged(h, state) ==
    /\ subject[h] # "mapped"
    /\ IF subject[h] = "bound"
       THEN OnStateChanged(h, state)
       ELSE UNCHANGED <<subjectVars, inbox>>
    /\ UNCHANGED <<arrived, commands, out, proto, creator>>
    /\ ReleaseHandle(h, kind)

Report(h) ==
    /\ EarlyCallbacks \/ subject[h] # "none"
    /\ \E r \in Reportable(h) :
          /\ session' = [session EXCEPT ![h] = r[3]]
          /\ CallbackOnStateChanged(h, r[2])
    /\ UNCHANGED <<deferred, created, timers, watchdog>>

-----------------------------------------------------------------------------
(* CreatePerfettoStateStream, on the worker thread *)

\* The raw Create: from here on perfetto may call back.
CreateRaw ==
    LET h == created + 1 IN
    /\ creator.step = "idle"
    /\ h \in Handles
    /\ \E d \in DeferredStart : deferred' = [deferred EXCEPT ![h] = d]
    /\ session' = [session EXCEPT ![h] = "created"]
    /\ out' = [out EXCEPT ![h] = "open"]
    /\ creator' = [step |-> "created", handle |-> h]
    /\ UNCHANGED <<consumerVars, subjectVars, inbox, arrived, commands, proto>>

\* The consumer remembers the handle.
TrackHandle ==
    /\ creator.step = "created"
    /\ created' = creator.handle
    /\ kind' = [kind EXCEPT ![creator.handle] = "created"]
    /\ creator' = [creator EXCEPT !.step = "tracked"]
    /\ UNCHANGED <<perfettoVars, timers, watchdog, subjectVars, zipVars>>

MapSubject ==
    /\ creator.step = "tracked"
    /\ subject' = [subject EXCEPT ![creator.handle] = "mapped"]
    /\ creator' = [creator EXCEPT !.step = "mapped"]
    /\ UNCHANGED <<perfettoVars, consumerVars, last_state, dest, zipVars>>

BindHandle ==
    /\ creator.step = "mapped"
    /\ subject' = [subject EXCEPT ![creator.handle] = "bound"]
    /\ creator' = [step |-> "idle", handle |-> 0]
    /\ UNCHANGED <<perfettoVars, consumerVars, last_state, dest, zipVars>>

-----------------------------------------------------------------------------
(* CreatePerfettoStream: the zip of commands and state changes *)

\* Mutant: no delayed message is sent.
StartTracingWithoutTimeout(h) ==
    /\ session' = IF kind[h] # "untracked" /\ session[h] = "Configured"
                  THEN [session EXCEPT ![h] = "Started"] ELSE session
    /\ ReleaseHandle(h, IF kind[h] # "untracked"
                        THEN [kind EXCEPT ![h] = "started"] ELSE kind)
    /\ UNCHANGED <<proto, timers>>

\* PerfettoConsumerImpl::StartTracing
StartTracing(h) ==
    /\ session' = IF kind[h] # "untracked" /\ session[h] = "Configured"
                  THEN [session EXCEPT ![h] = "Started"] ELSE session
    /\ timers' = IF kind[h] # "untracked" THEN timers \cup {h} ELSE timers
    /\ ReleaseHandle(h, IF kind[h] # "untracked"
                        THEN [kind EXCEPT ![h] = "started"] ELSE kind)
    /\ UNCHANGED proto

\* PerfettoConsumerImpl::ReadTrace: an untracked handle has an empty trace.
ReadTrace(h) ==
    /\ proto' = [proto EXCEPT ![h] = IF kind[h] = "untracked" THEN "empty" ELSE "trace"]
    /\ ReleaseHandle(h, IF kind[h] # "untracked"
                        THEN [kind EXCEPT ![h] = "read"] ELSE kind)
    /\ UNCHANGED <<session, timers>>

\* PerfettoConsumerImpl::Destroy, for a shutdown
Destroy(h) ==
    /\ kind' = [kind EXCEPT ![h] = "untracked"]
    /\ UNCHANGED <<session, timers, proto>>

\* What the n-th command does in the n-th state.
Execute(h, n, state) ==
    CASE n = 3                            -> Destroy(h)
      [] n = 1 /\ state = "Configured"    -> StartTracing(h)
      [] n = 2 /\ state = "TraceEnded"    -> ReadTrace(h)
      [] OTHER -> ReleaseHandle(h, kind) /\ UNCHANGED <<session, timers, proto>>

\* Mutant: the zip completes with the last state, paired or not.
ZipCompletedUnpaired(seen, sent) ==
    \/ sent = 3 /\ Len(seen) >= sent
    \/ seen # <<>> /\ seen[Len(seen)] = "TraceEnded"

\* Either side has completed and everything it emitted has been paired.
ZipCompleted(seen, sent) ==
    \/ sent = 3 /\ Len(seen) >= sent
    \/ seen # <<>> /\ seen[Len(seen)] = "TraceEnded" /\ sent >= Len(seen)

\* When the stream ends, what it has not paired is dropped.
Settle(h, seen, sent) ==
    IF ZipCompleted(seen, sent)
    THEN /\ out' = [out EXCEPT ![h] = "completed"]
         /\ inbox' = [inbox EXCEPT ![h] = <<>>]
         /\ arrived' = [arrived EXCEPT ![h] = <<>>]
    ELSE /\ inbox' = [inbox EXCEPT ![h] = IF Len(seen) > Len(arrived[h]) THEN Tail(@) ELSE @]
         /\ arrived' = [arrived EXCEPT ![h] = seen]
         /\ UNCHANGED out

\* kStartTracing at once, kStopTracing and kShutdown by a timer.
SendCommand(h) ==
    LET sent == commands[h] + 1 IN
    /\ out[h] = "open"
    /\ sent <= 3
    /\ commands' = [commands EXCEPT ![h] = sent]
    /\ Settle(h, arrived[h], sent)
    /\ UNCHANGED <<deferred, created, watchdog, creator, subjectVars>>
    /\ IF Len(arrived[h]) >= sent
       THEN Execute(h, sent, arrived[h][sent])
       ELSE UNCHANGED <<session, kind, timers, proto>>

\* What was not paired is dropped, and the timer of the commands with it.
EndStream(h, how) ==
    /\ out' = [out EXCEPT ![h] = how]
    /\ inbox' = [inbox EXCEPT ![h] = <<>>]
    /\ arrived' = [arrived EXCEPT ![h] = <<>>]
    /\ commands' = [commands EXCEPT ![h] = 0]
    /\ UNCHANGED <<perfettoVars, created, timers, watchdog, creator, subjectVars, proto>>
    /\ ReleaseHandle(h, kind)

ZipError(h) ==
    /\ out[h] = "open"
    /\ inbox[h] # <<>> /\ Head(inbox[h]) = "Error"
    /\ EndStream(h, "error")

ZipState(h) ==
    /\ out[h] = "open"
    /\ inbox[h] # <<>> /\ Head(inbox[h]) # "Error"
    /\ UNCHANGED <<deferred, created, watchdog, creator, subjectVars, commands>>
    /\ LET seen == Append(arrived[h], Head(inbox[h])) IN
       /\ Settle(h, seen, commands[h])
       /\ IF commands[h] >= Len(seen)
          THEN Execute(h, Len(seen), Head(inbox[h]))
          ELSE UNCHANGED <<session, kind, timers, proto>>

\* The launch is aborted (AppLaunchEventState::AbortTrace).
Unsubscribe(h) ==
    /\ out[h] = "open"
    /\ EndStream(h, "unsubscribed")

-----------------------------------------------------------------------------
(* The watchdog: PerfettoConsumerImpl::OnTraceMessage *)

Tracked == {h \in Handles : kind[h] # "untracked"}

\* The message is delivered and the description copied under the lock.
OnTraceMessage(h) ==
    /\ watchdog.step = "idle"
    /\ h \in timers
    /\ timers' = timers \ {h}
    /\ watchdog' = IF kind[h] = "untracked" THEN watchdog
                   ELSE [watchdog EXCEPT !.step = "check", !.handle = h, !.kind = kind[h]]
    /\ UNCHANGED <<perfettoVars, created, kind, creator, subjectVars, zipVars>>

\* "Has this trace been active for too long?"  The message is as late as the
\* timeout, so only a clock that was set back says no.
CheckTimeout(h) ==
    /\ watchdog.step = "check" /\ watchdog.handle = h
    /\ watchdog' = [watchdog EXCEPT !.step = "cull"]
    /\ \/ /\ watchdog.kind = "started"
          /\ CallbackOnStateChanged(h, "TraceFailed")
       \/ /\ watchdog.kind # "started" \/ ClockSetBack
          /\ UNCHANGED <<kind, creator, subjectVars, zipVars>>
    /\ UNCHANGED <<perfettoVars, created, timers>>

\* "Are there too many traces now?"  The iterator is advanced before it is
\* used: of the tracked handles in order, the first is passed over.
CullTraces ==
    LET overflow == Cardinality(Tracked) - MaxTraces
        older(h) == Cardinality({g \in Tracked : g < h})
    IN  /\ watchdog.step = "cull"
        /\ watchdog' = IF Cardinality(Tracked) > MaxTraces
                       THEN [watchdog EXCEPT !.step = "prune",
                               !.culled = {h \in Tracked : older(h) \in 1 .. overflow}]
                       ELSE Idle
        /\ UNCHANGED <<perfettoVars, created, kind, timers, creator, subjectVars, zipVars>>

\* For each handle in the list the callback is invoked, with the handle of the
\* message.
PruneTrace(h) ==
    /\ watchdog.step = "prune" /\ watchdog.handle = h
    /\ \E pruned \in watchdog.culled :
          watchdog' = IF watchdog.culled = {pruned} THEN Idle
                      ELSE [watchdog EXCEPT !.culled = @ \ {pruned}]
    /\ CallbackOnStateChanged(h, "TraceFailed")
    /\ UNCHANGED <<perfettoVars, created, timers>>

Watchdog ==
    \/ \E h \in Handles : CheckTimeout(h) \/ PruneTrace(h)
    \/ CullTraces

-----------------------------------------------------------------------------

Init ==
    /\ session = [h \in Handles |-> "none"]
    /\ deferred = [h \in Handles |-> FALSE]
    /\ created = 0
    /\ kind = [h \in Handles |-> "untracked"]
    /\ timers = {}
    /\ watchdog = Idle
    /\ creator = [step |-> "idle", handle |-> 0]
    /\ subject = [h \in Handles |-> "none"]
    /\ last_state = [h \in Handles |-> "Idle"]
    /\ dest = [h \in Handles |-> "open"]
    /\ inbox = [h \in Handles |-> <<>>]
    /\ arrived = [h \in Handles |-> <<>>]
    /\ commands = [h \in Handles |-> 0]
    /\ out = [h \in Handles |-> "none"]
    /\ proto = [h \in Handles |-> "none"]

Creator == CreateRaw \/ TrackHandle \/ MapSubject \/ BindHandle

Coordinator(h) == SendCommand(h) \/ ZipError(h) \/ ZipState(h)

Next ==
    \/ Creator
    \/ \E h \in Handles : Report(h)
    \/ \E h \in Handles : Coordinator(h)
    \/ \E h \in Handles : Unsubscribe(h)
    \/ \E h \in Handles : OnTraceMessage(h)
    \/ Watchdog

Spec == Init /\ [][Next]_vars

\* Perfetto connects and, once it traces on its own timer, ends.  A session
\* that iorapd has to start may hang for ever: that is the watchdog's case.
PerfettoProgress(h) ==
    /\ \/ session[h] \in {"created", "Connecting", "refused"}
       \/ session[h] = "Tracing" /\ ~deferred[h]
    /\ Report(h)

FairSpec ==
    /\ Spec
    /\ WF_vars(TrackHandle \/ MapSubject \/ BindHandle)
    /\ WF_vars(Watchdog)
    /\ \A h \in Handles :
          /\ WF_vars(PerfettoProgress(h))
          /\ WF_vars(Coordinator(h))
          /\ WF_vars(OnTraceMessage(h))

-----------------------------------------------------------------------------
(* Properties *)

Sessions == {"none", "created", "Started", "refused", "over"} \cup States

PerfettoTypeOK ==
    /\ session \in [Handles -> Sessions]
    /\ deferred \in [Handles -> BOOLEAN]

ConsumerTypeOK ==
    /\ created \in 0 .. MaxHandles
    /\ kind \in [Handles -> Kinds \cup {"untracked"}]
    /\ timers \subseteq Handles

WatchdogTypeOK ==
    /\ watchdog \in [step : {"idle", "check", "cull", "prune"},
                     handle : 0 .. MaxHandles, kind : Kinds, culled : SUBSET Handles]
    /\ watchdog.step # "idle" => watchdog.handle \in Handles

SubjectTypeOK ==
    /\ creator \in [step : {"idle", "created", "tracked", "mapped"},
                    handle : 0 .. MaxHandles]
    /\ subject \in [Handles -> {"none", "mapped", "bound", "deleted"}]
    /\ last_state \in [Handles -> States \cup {"Idle"}]
    /\ dest \in [Handles -> {"open", "done"}]

Notifications == Seq(States \cup {"Error"})

ZipTypeOK ==
    /\ inbox \in [Handles -> Notifications]
    /\ arrived \in [Handles -> Seq(States)]
    /\ commands \in [Handles -> 0 .. 3]
    /\ out \in [Handles -> {"none", "open", "completed", "error", "unsubscribed"}]
    /\ proto \in [Handles -> {"none", "trace", "empty"}]

TypeOK ==
    /\ PerfettoTypeOK
    /\ ConsumerTypeOK
    /\ WatchdogTypeOK
    /\ SubjectTypeOK
    /\ ZipTypeOK

\* "The Handle is kept 'valid' until all references to the
\* PerfettoConsumerHandle are dropped": as long as a subject or a state change
\* still refers to a handle, whatever the watchdog and the other streams do, the
\* consumer tracks it, so the trace that is read is never an empty one.
HandleValid ==
    \A h \in Handles :
       /\ Held(h) /\ ~(creator.step = "created" /\ creator.handle = h)
            => kind[h] # "untracked"
       /\ proto[h] # "empty"

\* A timeout that comes too late changes nothing: once the trace has ended the
\* subject sees no other state and the stream does not fail.
EndedNotFailed ==
    [][\A h \in Handles :
          last_state[h] = "TraceEnded" =>
             /\ last_state'[h] = "TraceEnded"
             /\ out'[h] = "error" => out[h] = "error"]_vars

\* A stream as iorapd configures it (tracing starts by itself) that completes
\* has handed over its trace.
TraceDelivered ==
    \A h \in Handles : out[h] = "completed" /\ ~deferred[h] => proto[h] = "trace"

\* "Upon reaching the appropriate terminal states, either #on_completed or
\* #on_error is called": every stream that was created ends.
StreamEnds ==
    \A h \in Handles : out[h] = "open" ~> out[h] # "open"

\* "Use a looper here to add a timeout": a handle whose session traces by
\* itself, or was told to start, is destroyed in the end, also when the stream
\* was unsubscribed and when perfetto hangs after StartTracing.
HandleDestroyed ==
    \A h \in Handles :
       (kind[h] = "started" \/ (kind[h] # "untracked" /\ ~deferred[h]))
          ~> kind[h] = "untracked"

-----------------------------------------------------------------------------
(* The inductive invariant *)

\* What the passing run and the proofs assume of perfetto: it does not call
\* back before the handle is in the map, and kConnecting is not reported.
Orderly == ~EarlyCallbacks /\ ~ReportsConnecting

\* A handle that was not created yet has no state at all.
Pristine(h) ==
    /\ session[h] = "none"
    /\ subject[h] = "none"
    /\ out[h] = "none"
    /\ proto[h] = "none"
    /\ kind[h] = "untracked"

\* Nothing has been reported for this handle.
Silent(h) ==
    /\ last_state[h] = "Idle"
    /\ dest[h] = "open"
    /\ inbox[h] = <<>>
    /\ arrived[h] = <<>>

CreatorInv ==
    /\ creator.step = "idle" <=> creator.handle = 0
    /\ creator.step = "created" => creator.handle = created + 1
    /\ creator.step \in {"tracked", "mapped"} => creator.handle = created
    /\ \A h \in Handles :
          /\ h > created /\ creator.handle # h => Pristine(h)
          /\ h > created => Silent(h)
          /\ creator.handle = h => /\ Silent(h)
                                  /\ session[h] = "created"
                                  /\ subject[h] = IF creator.step = "mapped"
                                                  THEN "mapped" ELSE "none"
          /\ subject[h] = "mapped" => creator.handle = h

Emitted(h) == Len(arrived[h]) + Len(inbox[h])

\* The subject has seen what perfetto reported, and emitted it once.
SubjectInv(h) ==
    subject[h] = "bound" =>
       \/ dest[h] = "open" /\ last_state[h] = "Idle" /\ session[h] = "created"
            /\ Emitted(h) = 0
       \/ dest[h] = "open" /\ last_state[h] = "Configured"
            /\ session[h] \in {"Configured", "Started"} /\ Emitted(h) <= 1
       \/ dest[h] = "open" /\ last_state[h] = "Tracing" /\ session[h] = "Tracing"
            /\ Emitted(h) <= 2
       \/ dest[h] = "done" /\ last_state[h] = "ConnectionError"
            /\ session[h] = "refused" /\ Emitted(h) <= 2

\* The part of it that HandleValid needs.
HandlesInv ==
    /\ TypeOK
    /\ CreatorInv
    /\ \A h \in Handles : SubjectInv(h)
    /\ HandleValid

\* The states of a session that traces by itself, in their order.
Course == <<"Tracing", "TraceEnded">>

\* What has been emitted of such a session and is still in the zip: a beginning of
\* its course, then an error or nothing; and a pair that reads the trace completes
\* the stream at once.
OnCourse(h) ==
    /\ session[h] \notin {"Configured", "Started"}
    /\ out[h] = "open" =>
          /\ Emitted(h) <= Len(Course)
          /\ subject[h] = "bound" /\ last_state[h] = "Tracing" => Emitted(h) = 1
          /\ \A i \in 1 .. Len(arrived[h]) : arrived[h][i] = Course[i]
          /\ \A i \in 1 .. Len(inbox[h]) :
                inbox[h][i] \in {Course[Len(arrived[h]) + i], "Error"}
          /\ Len(arrived[h]) = 2 => commands[h] < 2

\* Only a subject that was told of an error has sent one.
ErrorsReported(h) ==
    last_state[h] \notin Errors =>
       \A i \in 1 .. Len(inbox[h]) : inbox[h][i] # "Error"

IInv ==
    /\ HandlesInv
    /\ \A h \in Handles : ErrorsReported(h) /\ (deferred[h] \/ OnCourse(h))
    /\ TraceDelivered

-----------------------------------------------------------------------------
(* Refinement *)

\* What the launch that subscribed to the stream has of it.
StreamStatus(h) ==
    CASE proto[h] # "none" -> "have_proto"
      [] proto[h] = "none" /\ out[h] = "none" -> "none"
      [] proto[h] = "none" /\ out[h] = "open" -> "collecting"
      [] OTHER -> "dropped"

Streams == INSTANCE TraceStreams WITH status <- [h \in Handles |-> StreamStatus(h)]

\* The promise to the launch: every stream hands over one trace or none, never
\* takes back what it has handed over, and resolves.
ImplementsStreams == Streams!FairSpec
=============================================================================
