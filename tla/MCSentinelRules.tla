--------------------------- MODULE MCSentinelRules ---------------------------
(***************************************************************************)
(* SentinelRules for TLC: a configuration with flow and system rules, one  *)
(* with a breaker rule only and one that validation rejects, and added     *)
(* rules for a resource that is in the first two and for one in none.      *)
(***************************************************************************)
EXTENDS SentinelRules, TLC

Names == {"", "lynx-app", "shop", "orders", "stock", "load"}

Rule(resource, threshold) == [resource |-> resource, threshold |-> threshold]

Peak ==
  [EmptyConfig EXCEPT !.appName = "shop", !.port = DefaultPort, !.flow = {Rule("orders", 10)},
                      !.system = {[metricType |-> "load"]}]

Quiet ==
  [EmptyConfig EXCEPT !.appName = "shop", !.port = DefaultPort,
                      !.circuitBreaker = {Rule("orders", 0)}]

Broken == [Peak EXCEPT !.flow = {Rule("", 10)}]

Configurations == {Peak, Quiet, Broken}

Additions == {Rule("orders", 5), Rule("stock", 7)}

Symmetry == Permutations(Manager)
=============================================================================
