---------------------------- MODULE MCRequestPath ----------------------------
(***************************************************************************)
(* RequestPath for TLC: the goroutines that make requests are alike.       *)
(***************************************************************************)
EXTENDS RequestPath, TLC

Symmetry == Permutations(Request)
=============================================================================
