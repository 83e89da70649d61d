--------------------------- MODULE LaunchProtocol ---------------------------
(***************************************************************************)
(* What the event manager promises about app launches, without saying how: *)
(* launches come one at a time; while one is under way it is collected by  *)
(* at most one means, chosen once and at most given up afterwards; its     *)
(* trace is saved only after it finished while being traced and a history  *)
(* row was recorded for it.                                                *)
(***************************************************************************)
EXTENDS Naturals

VARIABLES
    current,    \* the launch under way, 0 if none
    collector,  \* "none", "trace" or "readahead"
    recorded,   \* launches with a row in app_launch_histories
    waiting,    \* finished launches whose trace is still being collected
    saved       \* launches whose trace was saved

pvars == <<current, collector, recorded, waiting, saved>>

Collectors == {"none", "trace", "readahead"}

Init ==
    /\ current = 0
    /\ collector = "none"
    /\ recorded = {}
    /\ waiting = {}
    /\ saved = {}

Begin ==
    /\ current = 0
    /\ current' \in Nat \ ({0} \cup recorded \cup waiting \cup saved)
    /\ collector' \in Collectors
    /\ UNCHANGED <<recorded, waiting, saved>>

\* The activity is known: start late, or give up collecting.
Launched ==
    /\ current # 0
    /\ collector' \in Collectors
    /\ collector # "none" => collector' \in {"none", collector}
    /\ UNCHANGED <<current, recorded, waiting, saved>>

Finish ==
    /\ current # 0
    /\ current' = 0
    /\ collector' = "none"
    /\ recorded' \in {recorded, recorded \cup {current}}
    /\ waiting' \in {waiting, waiting \cup {current}}
    /\ waiting' # waiting => collector = "trace"
    /\ UNCHANGED saved

Save(l) ==
    /\ l \in waiting \cap recorded
    /\ waiting' = waiting \ {l}
    /\ saved' = saved \cup {l}
    /\ UNCHANGED <<current, collector, recorded>>

Lose(l) ==
    /\ l \in waiting
    /\ waiting' = waiting \ {l}
    /\ UNCHANGED <<current, collector, recorded, saved>>

\* The process dies: only what is in the database survives.
Restart ==
    /\ current' = 0
    /\ collector' = "none"
    /\ waiting' = {}
    /\ UNCHANGED <<recorded, saved>>

Next ==
    \/ Begin
    \/ Launched
    \/ Finish
    \/ \E l \in waiting : Save(l) \/ Lose(l)
    \/ Restart

Spec == Init /\ [][Next]_pvars
=============================================================================
