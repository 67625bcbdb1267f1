----------------------------- MODULE RequestCounts -----------------------------
(***************************************************************************)
(* What the counters of a metrics collector promise, with no lock and      *)
(* nothing but whole requests: a request is counted in one step, and a     *)
(* summary is what the counters say at one moment between its call and its *)
(* return.                                                                 *)
(***************************************************************************)
EXTENDS Integers, FiniteSetsExt

CONSTANTS Reader, Resource

VARIABLES
  passed, blocked,      \* The requests of each resource.
  summary               \* What each reader is about to return, if anything.

vars == <<passed, blocked, summary>>

Zero == [r \in Resource |-> 0]

All(f) == MapThenSumSet(LAMBDA r : f[r], Resource)

Init ==
  /\ passed = Zero /\ blocked = Zero
  /\ summary = [q \in Reader |-> {}]

Pass(r) ==
  /\ passed' = [passed EXCEPT ![r] = @ + 1]
  /\ UNCHANGED <<blocked, summary>>

Block(r) ==
  /\ blocked' = [blocked EXCEPT ![r] = @ + 1]
  /\ UNCHANGED <<passed, summary>>

Reset ==
  /\ passed' = Zero /\ blocked' = Zero
  /\ UNCHANGED summary

Summarize(q) ==
  /\ summary[q] = {}
  /\ summary' = [summary EXCEPT ![q] =
                   {[total |-> All(passed) + All(blocked),
                     passed |-> All(passed), blocked |-> All(blocked)]}]
  /\ UNCHANGED <<passed, blocked>>

Return(q) ==
  /\ summary[q] # {}
  /\ summary' = [summary EXCEPT ![q] = {}]
  /\ UNCHANGED <<passed, blocked>>

Next ==
  \/ \E r \in Resource : Pass(r) \/ Block(r)
  \/ Reset
  \/ \E q \in Reader : Summarize(q) \/ Return(q)

Spec == Init /\ [][Next]_vars
=============================================================================
