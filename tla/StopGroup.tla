------------------------------ MODULE StopGroup ------------------------------
(***************************************************************************)
(* What the plugin's stop channel and wait group promise together, with    *)
(* nothing of the lifecycle that uses them.                                *)
(*                                                                         *)
(* Workers form generations, one per stop channel. A generation is         *)
(* signalled at most once and for good; a worker joins the current         *)
(* generation and only while it is unsignalled, so no worker starts under  *)
(* an order to stop that it did not earn; a new generation opens only when *)
(* the last one has been signalled, so no worker is left behind on a       *)
(* channel nobody will close. A worker may leave at any time.              *)
(***************************************************************************)
EXTENDS Integers

CONSTANT Worker       \* What a worker may be: a record with its channel.

VARIABLES generation, signalled, workers

vars == <<generation, signalled, workers>>

Init ==
  /\ generation = 1
  /\ signalled = {}
  /\ workers = {}

Renew ==
  /\ generation \in signalled
  /\ generation' = generation + 1
  /\ UNCHANGED <<signalled, workers>>

Join ==
  /\ generation \notin signalled
  /\ workers \subseteq workers' /\ workers' \subseteq Worker
  /\ \A w \in workers' \ workers : w.channel = generation
  /\ UNCHANGED <<generation, signalled>>

Signal ==
  /\ signalled' = signalled \cup {generation}
  /\ UNCHANGED <<generation, workers>>

Leave(w) ==
  /\ workers' = workers \ {w}
  /\ UNCHANGED <<generation, signalled>>

Next == Renew \/ Join \/ Signal \/ \E w \in workers : Leave(w)

Spec == Init /\ [][Next]_vars
=============================================================================
