---------------------------- MODULE MCStatistics ----------------------------
(* Statistics for TLC: a few threads and time units.                       *)
EXTENDS Statistics
=============================================================================
