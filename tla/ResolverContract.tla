-------------------------- MODULE ResolverContract --------------------------
(***************************************************************************)
(* What an inode resolver promises (inode_resolver.h): "all emitted        *)
(* results are in inodes, and all inodes are in emitted results" when      *)
(* FindFilenamesFromInodes completes.  EmitAll promises no more than that  *)
(* it stops.  It may fail at any time, and then the answers so far are     *)
(* all there is.                                                           *)
(***************************************************************************)
EXTENDS Integers, FiniteSets

CONSTANTS
    Inodes,   \* every inode there is
    Answers   \* every result there is: records with a field inode

VARIABLES
    request,  \* "find" or "all"
    list,     \* the inodes to find
    answers,  \* the results emitted so far
    outcome   \* "none", "completed" or "error"

vars == <<request, list, answers, outcome>>

Answered == {a.inode : a \in answers}

Init ==
    /\ request \in {"find", "all"}
    /\ list \subseteq Inodes
    /\ answers = {} /\ outcome = "none"

\* on_next
Answer(a) ==
    /\ outcome = "none"
    /\ request = "find" => a.inode \in list \ Answered
    /\ answers' = answers \cup {a}
    /\ UNCHANGED <<request, list, outcome>>

\* on_completed
Complete ==
    /\ outcome = "none"
    /\ request = "find" => Answered = list
    /\ outcome' = "completed"
    /\ UNCHANGED <<request, list, answers>>

\* on_error
Fail ==
    /\ outcome = "none"
    /\ outcome' = "error"
    /\ UNCHANGED <<request, list, answers>>

Next == (\E a \in Answers : Answer(a)) \/ Complete \/ Fail
Spec == Init /\ [][Next]_vars
=============================================================================
