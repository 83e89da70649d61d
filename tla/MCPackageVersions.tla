------------------------- MODULE MCPackageVersions -------------------------
(* An instance of PackageVersions for TLC. *)
EXTENDS PackageVersions

CONSTANTS a, b  \* packages

TwoPackages == {a, b}
OneInstalled == {[p \in TwoPackages |-> IF p = a THEN 1 ELSE NotInstalled]}
=============================================================================
