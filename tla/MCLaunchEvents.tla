--------------------------- MODULE MCLaunchEvents ---------------------------
(* Instances of LaunchEvents for TLC: a is an ordinary component, x is
   blacklisted, and an intent without a component may launch any of them. *)
EXTENDS LaunchEventsInv

CONSTANTS a, x

Blacklist == {x}
OneOrdinary == {a, x}

SameComponent == {<<a, a>>, <<x, x>>, <<NoComponent, a>>, <<NoComponent, x>>}

Second == {2}
Third == {3}
=============================================================================
