-------------------------------- MODULE MCRuns --------------------------------
(* Instances of Runs for TLC: one job that events and benchmarks share, and *)
(* a second collection for EnsureIndexes to begin or to end with.           *)
EXTENDS Runs
CONSTANTS h1, h2, j1, s1
=============================================================================
