---------------------------- MODULE TraceStreams ----------------------------
(***************************************************************************)
(* What a perfetto trace stream promises to the launch that subscribes to  *)
(* it (RxProducerFactory::CreateTraceStream): it hands over one trace or   *)
(* none, and it ends.                                                      *)
(***************************************************************************)
CONSTANT Handles

VARIABLE status  \* per stream: "none", "collecting", "have_proto", "dropped"

Init == status = [h \in Handles |-> "none"]

Begin(h) ==
    /\ status[h] = "none"
    /\ status' = [status EXCEPT ![h] = "collecting"]

\* The trace is handed over, or the stream fails, completes without one, or is
\* unsubscribed.
Resolve(h) ==
    /\ status[h] = "collecting"
    /\ \E s \in {"have_proto", "dropped"} : status' = [status EXCEPT ![h] = s]

Next == \E h \in Handles : Begin(h) \/ Resolve(h)

Spec == Init /\ [][Next]_status

FairSpec == Spec /\ \A h \in Handles : WF_status(Resolve(h))
=============================================================================
