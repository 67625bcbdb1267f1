-------------------------- MODULE MCPluginLifecycle --------------------------
(***************************************************************************)
(* PluginLifecycle for TLC: a configuration with both workers and with     *)
(* flow and system rules, one without a name, without workers and with a   *)
(* breaker rule, and one that validation rejects.                          *)
(***************************************************************************)
EXTENDS PluginLifecycle, TLC

Names == {"", "lynx-app", "shop", "orders", "load"}

Orders(limit) == [resource |-> "orders", threshold |-> limit]

Full ==
  [appName |-> "shop", port |-> DefaultPort, metrics |-> TRUE, dashboard |-> TRUE,
   flow |-> {Orders(10)}, circuitBreaker |-> {}, system |-> {[metricType |-> "load"]}]

Nameless == [EmptyConfig EXCEPT !.circuitBreaker = {Orders(0)}]

Rejected == [EmptyConfig EXCEPT !.metrics = TRUE, !.flow = {Orders(-1)}]

Configurations == {Full, Nameless, Rejected}

OneWorker == {[EmptyConfig EXCEPT !.metrics = TRUE]}

Symmetry == Permutations(Caller)
=============================================================================
