-------------------------- MODULE MCMetricsCollector --------------------------
(***************************************************************************)
(* MetricsCollector for TLC: recorders and resources are alike.            *)
(***************************************************************************)
EXTENDS MetricsCollector, TLC

Symmetry == Permutations(Recorder) \cup Permutations(Resource)
=============================================================================
