--------------------------- MODULE SentinelConfig ---------------------------
(***************************************************************************)
(* The configuration of the plugin (types.go), its validation and its      *)
(* defaults (lifecycle.go), and what the three rule loaders of rules.go do *)
(* to the rule registries of the Sentinel core.                            *)
(*                                                                         *)
(* A list of rules is the set of its rules: neither their order nor a      *)
(* repeated rule matters to anything below. Of a rule only the fields that *)
(* validation or removal by resource looks at are kept; log_dir, log_level *)
(* and metrics.interval, which have a default and no validation, are left  *)
(* out. The registries are the core's own (github.com/alibaba/             *)
(* sentinel-golang): LoadRules replaces a registry by what it is given, or *)
(* fails and leaves it as it was.                                          *)
(***************************************************************************)
EXTENDS Integers

CONSTANTS
  Name,           \* Names of applications, resources and system metrics.
  NoName,         \* The empty one.
  FallbackName    \* What an application without a name is called.

ASSUME NameAssumption == NoName \in Name /\ FallbackName \in Name \ {NoName}

DefaultPort == 8719

FlowRule == [resource : Name, threshold : Int]
CircuitBreakerRule == [resource : Name, threshold : Int]
SystemRule == [metricType : Name]

Config == [appName : Name, port : Int, metrics : BOOLEAN, dashboard : BOOLEAN,
           flow : SUBSET FlowRule, circuitBreaker : SUBSET CircuitBreakerRule,
           system : SUBSET SystemRule]

Registries == [flow : SUBSET FlowRule, circuitBreaker : SUBSET CircuitBreakerRule,
               system : SUBSET SystemRule]

\* &SentinelConfig{}: what Scan fills in.
EmptyConfig == [appName |-> NoName, port |-> 0, metrics |-> FALSE, dashboard |-> FALSE,
                flow |-> {}, circuitBreaker |-> {}, system |-> {}]

NoRules == [flow |-> {}, circuitBreaker |-> {}, system |-> {}]

(***************************************************************************)
(* Validation and defaults.                                                *)
(***************************************************************************)
ValidRule(rule) == rule.resource # NoName /\ rule.threshold >= 0

ValidPort(port) == port = 0 \/ port \in 1024 .. 65535

Valid(c) ==
  /\ c.appName # NoName
  /\ ValidPort(c.port)
  /\ \A rule \in c.flow \cup c.circuitBreaker : ValidRule(rule)

\* The name falls back to the Lynx application's, then to "lynx-app".
WithDefaults(c) ==
  [c EXCEPT !.appName = IF @ = NoName THEN FallbackName ELSE @,
            !.port = IF @ = 0 THEN DefaultPort ELSE @]

(***************************************************************************)
(* The loaders. The first two load an empty list too, which clears the     *)
(* registry; loadSystemRules calls the core only when there are rules.     *)
(***************************************************************************)
\* Faulty: an empty list is not loaded, as in loadSystemRules.
LoadFlowRulesIfAny(loaded, c) ==
  IF c.flow = {} THEN loaded ELSE [loaded EXCEPT !.flow = c.flow]

LoadFlowRules(loaded, c) == [loaded EXCEPT !.flow = c.flow]

LoadCircuitBreakerRules(loaded, c) == [loaded EXCEPT !.circuitBreaker = c.circuitBreaker]

LoadSystemRules(loaded, c) ==
  IF c.system = {} THEN loaded ELSE [loaded EXCEPT !.system = c.system]

\* All three in order, as reloadRules and startup call them.
LoadAll(loaded, c) ==
  LoadSystemRules(LoadCircuitBreakerRules(LoadFlowRules(loaded, c), c), c)

\* What is loaded when one of the three fails: the earlier ones stay.
LoadedBeforeFailure(loaded, c) ==
  {loaded, LoadFlowRules(loaded, c),
   LoadCircuitBreakerRules(LoadFlowRules(loaded, c), c)}
=============================================================================
