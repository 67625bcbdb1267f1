---------------------------- MODULE SentinelRules ----------------------------
(***************************************************************************)
(* Who writes the rule registries of the Sentinel core, and how their      *)
(* steps mix (rules.go, plug.go).                                          *)
(*                                                                         *)
(* InitializeResources, Configure, the loading at startup and the clearing *)
(* at cleanup hold s.mu from their first statement to their return.        *)
(* ReloadRules runs the same loaders without s.mu; adding or removing one  *)
(* rule reads the registry, computes a list and loads it back, without     *)
(* s.mu too. Each call of the core (GetRules, LoadRules, ClearRules) is    *)
(* atomic, what happens between two of them is not. The plugin has been    *)
(* initialized, and stays so.                                              *)
(***************************************************************************)
EXTENDS SentinelConfig

CONSTANTS
  Manager,      \* Goroutines that configure the plugin or manage its rules.
  None,         \* Not a manager.
  Offered,      \* Configurations that can be scanned or passed to Configure.
  Added         \* Rules that may be added one by one.

ASSUME OfferedAssumption == Offered \subseteq Config
ASSUME AddedAssumption == Added \subseteq FlowRule \cap CircuitBreakerRule
ASSUME NoneAssumption == None \notin Manager

VARIABLES
  mu,           \* Holder of s.mu, or None.
  conf,         \* s.conf.
  rules,        \* The registries.
  job,          \* What each manager is doing.
  settled,      \* History: see Begin and Finish.
  overlapped,   \* History: so are these two.
  promised

vars == <<mu, conf, rules, job, settled, overlapped, promised>>

Registry == {"flow", "circuitBreaker", "system"}
Editable == Registry \ {"system"}

\* The loaders and the clearing go through the registries in this order.
After == [flow |-> "circuitBreaker", circuitBreaker |-> "system", system |-> "done"]

Idle == [kind |-> "idle"]
Initializing == [kind |-> "initialize"]

\* "locked": Configure or startup. The list is what goes into the registry.
Job ==
  {Initializing}
  \cup
  [kind : {"locked", "reload", "cleanup"}, registry : Registry,
   step : {"build", "store"}, list : SUBSET (FlowRule \cup SystemRule)]
  \cup
  [kind : {"add", "remove"}, registry : Editable, list : SUBSET FlowRule, rule : FlowRule]

TypeOK ==
  /\ mu \in Manager \cup {None}
  /\ conf \in Config
  /\ rules \in Registries
  /\ job \in [Manager -> Job \cup {Idle}]
  /\ settled \in {"no", "busy", "configured", "cleared"}
  /\ overlapped \in BOOLEAN
  /\ promised \subseteq Editable \X FlowRule

Init ==
  /\ mu = None
  /\ \E c \in Offered : conf = WithDefaults(c) /\ Valid(conf)
  /\ rules = NoRules
  /\ job = [m \in Manager |-> Idle]
  /\ settled = "no"
  /\ overlapped = FALSE
  /\ promised = {}

-----------------------------------------------------------------------------
(***************************************************************************)
(* History. An operation under s.mu settles the registries when it runs to *)
(* its end without an error and no unlocked operation was in flight with   *)
(* it. Edits have overlapped once one was in flight with another writer of *)
(* its registry. An added rule is promised to stay until an operation that *)
(* may take it begins, unless one is in flight already.                    *)
(***************************************************************************)
Locked(m) == job[m].kind \in {"initialize", "locked", "cleanup"}
Unlocked(m) == job[m].kind \in {"reload", "add", "remove"}

MayTake(j, k, rule) ==
  \/ j.kind \in {"locked", "reload", "cleanup"}
  \/ j.kind = "remove" /\ j.registry = k /\ j.rule.resource = rule.resource

Edits == {"add", "remove"}

\* An edit and another writer of its registry: loads and clearings write all.
Conflict(i, j) ==
  \/ i.kind \in Edits /\ j.kind \in Edits /\ i.registry = j.registry
  \/ i.kind \in Edits /\ j.kind \in {"locked", "reload", "cleanup"}
  \/ j.kind \in Edits /\ i.kind \in {"locked", "reload", "cleanup"}

Begin(m, j) ==
  /\ job[m] = Idle
  /\ job' = [job EXCEPT ![m] = j]
  /\ settled' = IF j.kind \in {"locked", "cleanup"} /\ \A n \in Manager : ~Unlocked(n)
                  THEN "busy" ELSE "no"
  /\ overlapped' = (overlapped \/ \E n \in Manager : Conflict(j, job[n]))
  /\ promised' = {p \in promised : ~MayTake(j, p[1], p[2])}

\* The manager's operation returns: outcome is "no" after an error.
Finish(m, outcome) ==
  /\ job' = [job EXCEPT ![m] = Idle]
  /\ mu' = IF Locked(m) THEN None ELSE mu
  /\ settled' = IF ~Locked(m) THEN settled ELSE IF settled = "busy" THEN outcome ELSE "no"
  /\ UNCHANGED overlapped

\* Faulty: the last registry is followed by another one.
AdvancePastLast(m, outcome) ==
  /\ job' = [job EXCEPT ![m].registry = After[@], ![m].step = "build"]
  /\ UNCHANGED <<mu, settled, overlapped>>

\* On to the next registry, or out of the operation after the last one.
Advance(m, outcome) ==
  IF After[job[m].registry] = "done" THEN Finish(m, outcome)
  ELSE /\ job' = [job EXCEPT ![m].registry = After[@], ![m].step = "build"]
       /\ UNCHANGED <<mu, settled, overlapped>>

-----------------------------------------------------------------------------
(***************************************************************************)
(* A new configuration that is not loaded, and loading the whole one.      *)
(***************************************************************************)
\* InitializeResources sets s.conf to an empty configuration ...
InitializeResources(m) ==
  /\ mu = None /\ mu' = m
  /\ conf' = EmptyConfig
  /\ Begin(m, Initializing)
  /\ UNCHANGED rules

\* ... and fills it in. What a failed scan leaves, and what validation rejects,
\* stays; no rules are loaded before a startup.
Initialized(m) ==
  /\ job[m] = Initializing
  /\ conf' = EmptyConfig \/ \E c \in Offered : conf' = WithDefaults(c)
  /\ Finish(m, "no")
  /\ UNCHANGED <<rules, promised>>

Loading(kind) == [kind |-> kind, registry |-> "flow", step |-> "build", list |-> {}]

\* Faulty: s.mu is not taken.
ConfigureUnlocked(m) ==
  /\ \E c \in Offered : Valid(c) /\ conf' = c
  /\ Begin(m, Loading("locked"))
  /\ UNCHANGED <<mu, rules>>

\* Configure, OnConfigUpdate.
Configure(m) ==
  /\ mu = None /\ mu' = m
  /\ \E c \in Offered : Valid(c) /\ conf' = c
  /\ Begin(m, Loading("locked"))
  /\ UNCHANGED rules

\* The loading phase of a startup.
StartupLoads(m) ==
  /\ mu = None /\ mu' = m
  /\ Begin(m, Loading("locked"))
  /\ UNCHANGED <<conf, rules>>

\* ReloadRules calls reloadRules without s.mu.
ReloadRules(m) ==
  /\ Begin(m, Loading("reload"))
  /\ UNCHANGED <<mu, conf, rules>>

\* A loader builds its list from s.conf ...
Build(m) ==
  /\ job[m].kind \in {"locked", "reload"} /\ job[m].step = "build"
  /\ job' = [job EXCEPT ![m].step = "store", ![m].list = conf[job[m].registry]]
  /\ UNCHANGED <<mu, conf, rules, settled, overlapped, promised>>

\* ... and loads it; loadSystemRules does so only if there is something in it.
Stored(k, list) ==
  IF k = "system" /\ list = {} THEN rules ELSE [rules EXCEPT ![k] = list]

Load(m) ==
  /\ job[m].kind \in {"locked", "reload"} /\ job[m].step = "store"
  /\ rules' = Stored(job[m].registry, job[m].list)
  /\ Advance(m, "configured")
  /\ UNCHANGED <<conf, promised>>

\* LoadRules fails: the loaders that come after are not run.
LoadFails(m) ==
  /\ job[m].kind \in {"locked", "reload"} /\ job[m].step = "store"
  /\ Finish(m, "no")
  /\ UNCHANGED <<conf, rules, promised>>

\* Faulty: s.mu is released before the rules are cleared.
CleanupUnlocked(m) ==
  /\ Begin(m, Loading("cleanup"))
  /\ UNCHANGED <<mu, conf, rules>>

\* Cleanup, from the end of its wait.
Cleanup(m) ==
  /\ mu = None /\ mu' = m
  /\ Begin(m, Loading("cleanup"))
  /\ UNCHANGED <<conf, rules>>

\* flow.ClearRules, circuitbreaker.ClearRules, system.ClearRules
Clear(m) ==
  /\ job[m].kind = "cleanup"
  /\ rules' = [rules EXCEPT ![job[m].registry] = {}]
  /\ Advance(m, "cleared")
  /\ UNCHANGED <<conf, promised>>

-----------------------------------------------------------------------------
(***************************************************************************)
(* Managing single rules: AddFlowRule, AddCircuitBreakerRule,              *)
(* RemoveFlowRule, RemoveCircuitBreakerRule, up to the call of GetRules    *)
(* with the list computed from it, and the call of LoadRules.              *)
(***************************************************************************)
\* Faulty: the current rules are not copied.
AddRuleAlone(m, k, rule) ==
  /\ Begin(m, [kind |-> "add", registry |-> k, list |-> {rule}, rule |-> rule])
  /\ UNCHANGED <<mu, conf, rules>>

AddRule(m, k, rule) ==
  /\ Begin(m, [kind |-> "add", registry |-> k, list |-> rules[k] \cup {rule}, rule |-> rule])
  /\ UNCHANGED <<mu, conf, rules>>

\* Faulty: the comparison is inverted.
RemoveOthers(m, k, rule) ==
  /\ Begin(m, [kind |-> "remove", registry |-> k, rule |-> rule,
               list |-> {r \in rules[k] : r.resource = rule.resource}])
  /\ UNCHANGED <<mu, conf, rules>>

\* Every rule of the resource goes.
RemoveRule(m, k, rule) ==
  /\ Begin(m, [kind |-> "remove", registry |-> k, rule |-> rule,
               list |-> {r \in rules[k] : r.resource # rule.resource}])
  /\ UNCHANGED <<mu, conf, rules>>

\* An addition that succeeds is promised, unless something in flight may take it.
Promise(m) ==
  LET k == job[m].registry
      rule == job[m].rule
  IN  IF job[m].kind = "add" /\ \A n \in Manager \ {m} : ~MayTake(job[n], k, rule)
        THEN {<<k, rule>>} ELSE {}

StoreEdit(m) ==
  /\ job[m].kind \in {"add", "remove"}
  /\ rules' = Stored(job[m].registry, job[m].list)
  /\ promised' = promised \cup Promise(m)
  /\ Finish(m, "no")
  /\ UNCHANGED conf

EditFails(m) ==
  /\ job[m].kind \in {"add", "remove"}
  /\ Finish(m, "no")
  /\ UNCHANGED <<conf, rules, promised>>

-----------------------------------------------------------------------------
Next ==
  \E m \in Manager :
    \/ InitializeResources(m) \/ Initialized(m)
    \/ Configure(m) \/ StartupLoads(m) \/ ReloadRules(m)
    \/ Build(m) \/ Load(m) \/ LoadFails(m)
    \/ Cleanup(m) \/ Clear(m)
    \/ \E k \in Editable, rule \in Added : AddRule(m, k, rule) \/ RemoveRule(m, k, rule)
    \/ StoreEdit(m) \/ EditFails(m)

Spec == Init /\ [][Next]_vars

-----------------------------------------------------------------------------
\* After a Configure or the loading of a startup that met no unlocked
\* operation, and until the next operation, the registries are what s.conf says ("so state matches config",
\* rules.go:43), whatever mixed their contents up before; only the system
\* rules stay when s.conf has none.
ConfiguredWhenSettled ==
  settled = "configured" =>
    /\ rules.flow = conf.flow /\ rules.circuitBreaker = conf.circuitBreaker
    /\ conf.system # {} => rules.system = conf.system

\* After a cleanup that met no unlocked operation nothing is left.
ClearedWhenSettled == settled = "cleared" => rules = NoRules

\* "AddFlowRule adds a new flow control rule dynamically" (rules.go:183): a
\* rule that was added is there until something takes it away.
AddedRulesStay == \A p \in promised : p[2] \in rules[p[1]]

\* As long as the application lets no edit overlap with another writer of the
\* registry it is: Configure, startup, cleanup, ReloadRules and further edits
\* may come between, and mix with each other, in any way.
SerializedAdditionsStay == ~overlapped => AddedRulesStay

Lists == [k \in Registry |-> {c[k] : c \in Offered \cup {EmptyConfig}}]

\* The registries are the abstract RuleStore: until edits overlap, every one
\* of them is one step of the store in spite of being two calls of the core.
Store == INSTANCE RuleStore WITH List <- Lists

RuleStoreSpec == Store!Spec
=============================================================================
