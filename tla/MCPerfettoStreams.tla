-------------------------- MODULE MCPerfettoStreams --------------------------
(* Instances of PerfettoStreams for TLC. *)
EXTENDS PerfettoStreams

Either == {TRUE, FALSE}
Deferred == {TRUE}
Immediate == {FALSE}
=============================================================================
