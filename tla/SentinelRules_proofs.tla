------------------------- MODULE SentinelRules_proofs -------------------------
(***************************************************************************)
(* Proofs about SentinelRules, for any managers, configurations and rules. *)
(* The invariant has three layers: types, s.mu and where lists come from;  *)
(* how far an operation under s.mu that meets no other has got; and, until *)
(* edits overlap, that nobody touches a registry between the two halves of *)
(* an edit.                                                                *)
(***************************************************************************)
EXTENDS SentinelRules, TLAPS

Bulk == {"locked", "reload", "cleanup"}

BulkJob ==
  [kind : Bulk, registry : Registry, step : {"build", "store"},
   list : SUBSET (FlowRule \cup SystemRule)]

EditJob == [kind : Edits, registry : Editable, list : SUBSET FlowRule, rule : FlowRule]

\* Only the holder of s.mu configures, starts up or cleans up.
Mutex == \A m \in Manager : Locked(m) => mu = m

\* Lists that are about to be loaded are those of a configuration or edits.
ListsOffered ==
  /\ \A k \in Registry : conf[k] \in Lists[k]
  /\ \A m \in Manager :
       /\ job[m].kind \in {"locked", "reload"} /\ job[m].step = "store" =>
            job[m].list \in Lists[job[m].registry]
       /\ job[m].kind \in Edits => job[m].rule \in Added

RulesInv == TypeOK /\ Mutex /\ ListsOffered

-----------------------------------------------------------------------------
\* A job is one of four kinds of record, and what it is tells which.
LEMMA JobCases ==
  ASSUME NEW j \in Job \cup {Idle}
  PROVE  /\ j = Idle \/ j = Initializing \/ j \in BulkJob \/ j \in EditJob
         /\ j = Idle <=> j.kind = "idle"
         /\ j = Initializing <=> j.kind = "initialize"
         /\ j \in BulkJob <=> j.kind \in Bulk
         /\ j \in EditJob <=> j.kind \in Edits
BY DEF Job, BulkJob, EditJob, Bulk, Edits, Idle, Initializing

LEMMA JobTypes == BulkJob \subseteq Job /\ EditJob \subseteq Job /\ Initializing \in Job
BY DEF Job, BulkJob, EditJob, Bulk, Edits

\* Loading a list of a registry's type keeps the registries typed.
LEMMA StoredTyped ==
  ASSUME rules \in Registries, NEW k \in Registry, NEW list,
         k # "system" => list \in SUBSET FlowRule,
         k = "system" => list \in SUBSET SystemRule
  PROVE  /\ Stored(k, list) \in Registries
         /\ [rules EXCEPT ![k] = list] \in Registries
BY DEF Stored, Registries, Registry, FlowRule, CircuitBreakerRule

\* What InitializeResources and Configure put into s.conf is a configuration
\* whose lists are among Lists.
LEMMA EmptyIsConfiguration ==
  EmptyConfig \in Config /\ \A k \in Registry : EmptyConfig[k] \in Lists[k]
<1>1. EmptyConfig \in Config
  BY NameAssumption DEF EmptyConfig, Config
<1>2. ASSUME NEW k \in Registry PROVE EmptyConfig[k] \in Lists[k]
  BY DEF Lists
<1> QED BY <1>1, <1>2

LEMMA ScannedIsConfiguration ==
  ASSUME NEW c \in Offered
  PROVE  /\ c \in Config /\ \A k \in Registry : c[k] \in Lists[k]
         /\ WithDefaults(c) \in Config /\ \A k \in Registry : WithDefaults(c)[k] \in Lists[k]
<1>1. ASSUME NEW k \in Registry PROVE c[k] \in Lists[k]
  BY DEF Lists
<1>2. c \in Config
  BY OfferedAssumption
<1> DEFINE name == IF c.appName = NoName THEN FallbackName ELSE c.appName
           port == IF c.port = 0 THEN DefaultPort ELSE c.port
<1>3. WithDefaults(c) = [c EXCEPT !.appName = name, !.port = port]
  BY DEF WithDefaults
<1>4. name \in Name /\ port \in Int
  BY <1>2, NameAssumption DEF Config, DefaultPort
<1> HIDE DEF name, port
<1>5. WithDefaults(c) \in Config
  BY <1>2, <1>3, <1>4 DEF Config
<1>6. ASSUME NEW k \in Registry PROVE WithDefaults(c)[k] = c[k]
  BY <1>2, <1>3, <1>6 DEF Config, Registry
<1> QED BY <1>1, <1>2, <1>5, <1>6

\* Each of those lists has the type of its registry.
LEMMA ListTyped ==
  ASSUME NEW k \in Registry, NEW list \in Lists[k]
  PROVE  /\ k # "system" => list \in SUBSET FlowRule
         /\ k = "system" => list \in SUBSET SystemRule
<1>1. PICK c \in Config : list = c[k]
  BY OfferedAssumption, EmptyIsConfiguration DEF Lists
<1> QED BY <1>1 DEF Config, Registry, FlowRule, CircuitBreakerRule

\* The next registry, in the order of the loaders.
LEMMA AfterIs ==
  /\ After["flow"] = "circuitBreaker" /\ After["circuitBreaker"] = "system"
  /\ After["system"] = "done"
BY DEF After

LEMMA BulkMoves ==
  ASSUME NEW j \in BulkJob, NEW k \in Registry, NEW list \in SUBSET (FlowRule \cup SystemRule)
  PROVE  /\ [j EXCEPT !.registry = k, !.step = "build"] \in BulkJob
         /\ [j EXCEPT !.step = "store", !.list = list] \in BulkJob
BY DEF BulkJob

-----------------------------------------------------------------------------
\* What Begin and Finish do to the managers.
LEMMA BeginDoes ==
  ASSUME TypeOK, NEW m \in Manager, NEW j \in Job, Begin(m, j)
  PROVE  /\ job[m] = Idle /\ job'[m] = j
         /\ \A n \in Manager \ {m} : job'[n] = job[n]
         /\ job' \in [Manager -> Job \cup {Idle}]
         /\ settled' \in {"no", "busy"}
         /\ overlapped' \in BOOLEAN
         /\ promised' \subseteq promised
BY DEF TypeOK, Begin

LEMMA FinishDoes ==
  ASSUME TypeOK, NEW m \in Manager, NEW outcome, Finish(m, outcome)
  PROVE  /\ job'[m] = Idle
         /\ \A n \in Manager \ {m} : job'[n] = job[n]
         /\ job' \in [Manager -> Job \cup {Idle}]
         /\ mu' = IF Locked(m) THEN None ELSE mu
         /\ settled' \in {settled, outcome, "no"}
         /\ overlapped' = overlapped
BY DEF TypeOK, Finish

\* Advance moves on to the next registry or finishes after the last one.
LEMMA AdvanceDoes ==
  ASSUME TypeOK, NEW m \in Manager, job[m].kind \in Bulk, NEW outcome, Advance(m, outcome)
  PROVE  /\ \A n \in Manager \ {m} : job'[n] = job[n]
         /\ job' \in [Manager -> Job \cup {Idle}]
         /\ overlapped' = overlapped
         /\ \/ /\ job[m].registry = "system"
               /\ Finish(m, outcome)
            \/ /\ job[m].registry # "system"
               /\ job'[m] = [job[m] EXCEPT !.registry = After[job[m].registry], !.step = "build"]
               /\ job'[m].kind = job[m].kind /\ job'[m].step = "build"
               /\ job'[m].registry = After[job[m].registry]
               /\ job'[m] \in BulkJob
               /\ mu' = mu /\ settled' = settled
<1>1. job[m] \in BulkJob
  BY JobCases DEF TypeOK
<1>2. CASE job[m].registry = "system"
  BY <1>2, AfterIs, FinishDoes DEF Advance
<1>3. CASE job[m].registry # "system"
  <2>1. /\ job[m].registry \in {"flow", "circuitBreaker"}
        /\ After[job[m].registry] \in Registry \ {"done"}
    BY <1>1, <1>3, AfterIs DEF BulkJob, Registry
  <2>2. /\ job' = [job EXCEPT ![m].registry = After[@], ![m].step = "build"]
        /\ UNCHANGED <<mu, settled, overlapped>>
    BY <2>1, AfterIs DEF Advance
  <2>3. job'[m] = [job[m] EXCEPT !.registry = After[job[m].registry], !.step = "build"]
    <3>1. job \in [Manager -> Job \cup {Idle}]
      BY DEF TypeOK
    <3> QED BY <2>2, <3>1
  <2>4. job'[m] \in BulkJob
    BY <1>1, <2>1, <2>3 DEF BulkJob
  <2>5. job' \in [Manager -> Job \cup {Idle}]
    BY <2>2, <2>3, <2>4, JobTypes DEF TypeOK
  <2> QED BY <1>1, <1>3, <2>2, <2>3, <2>4, <2>5 DEF TypeOK, BulkJob
<1> QED BY <1>2, <1>3

-----------------------------------------------------------------------------
\* A new job, and what a loader does, keep the first layer.
LEMMA BeginKeeps ==
  ASSUME RulesInv, NEW m \in Manager, NEW j \in Job, Begin(m, j),
         j.kind \in {"initialize", "locked", "cleanup"} => mu = None /\ mu' = m,
         j.kind \notin {"initialize", "locked", "cleanup"} => mu' = mu,
         j.kind \in {"locked", "reload"} => j.step = "build",
         j.kind \in Edits => j.rule \in Added,
         conf' \in Config, \A k \in Registry : conf'[k] \in Lists[k], rules' = rules
  PROVE  RulesInv'
<1>1. TypeOK'
  BY BeginDoes DEF RulesInv, TypeOK
<1>2. Mutex'
  BY BeginDoes, NoneAssumption DEF RulesInv, Mutex, Locked
<1>3. ListsOffered'
  BY BeginDoes DEF RulesInv, ListsOffered, Edits
<1> QED BY <1>1, <1>2, <1>3 DEF RulesInv

LEMMA FinishKeeps ==
  ASSUME RulesInv, NEW m \in Manager, NEW outcome \in {"no", "configured", "cleared"},
         Finish(m, outcome), rules' \in Registries,
         conf' \in Config, \A k \in Registry : conf'[k] \in Lists[k],
         promised' \subseteq Editable \X FlowRule
  PROVE  RulesInv'
<1>1. TypeOK'
  BY FinishDoes DEF RulesInv, TypeOK
<1>2. Mutex'
  BY FinishDoes, NoneAssumption DEF RulesInv, Mutex, Locked, Idle
<1>3. ListsOffered'
  BY FinishDoes DEF RulesInv, ListsOffered, Edits, Idle
<1> QED BY <1>1, <1>2, <1>3 DEF RulesInv

LEMMA AdvanceKeeps ==
  ASSUME RulesInv, NEW m \in Manager, job[m].kind \in Bulk,
         NEW outcome \in {"configured", "cleared"},
         Advance(m, outcome), conf' = conf, rules' \in Registries, promised' = promised
  PROVE  RulesInv'
<1>1. CASE job[m].registry = "system" /\ Finish(m, outcome)
  BY <1>1, FinishKeeps DEF RulesInv, TypeOK, ListsOffered
<1>2. CASE /\ job'[m].kind = job[m].kind /\ job'[m].step = "build"
           /\ mu' = mu /\ settled' = settled
  <2>1. TypeOK'
    BY <1>2, AdvanceDoes DEF RulesInv, TypeOK
  <2>2. Mutex'
    BY <1>2, AdvanceDoes DEF RulesInv, Mutex, Locked
  <2>3. ListsOffered'
    <3>1. \A n \in Manager \ {m} : job'[n] = job[n]
      BY AdvanceDoes DEF RulesInv
    <3> QED BY <1>2, <3>1 DEF RulesInv, ListsOffered, Edits, Bulk
  <2> QED BY <2>1, <2>2, <2>3 DEF RulesInv
<1> QED BY <1>1, <1>2, AdvanceDoes DEF RulesInv

\* What a loader or a clearing puts into a registry is of its type.
LEMMA BulkStores ==
  ASSUME RulesInv, NEW m \in Manager, job[m].kind \in Bulk
  PROVE  /\ job[m].registry \in Registry
         /\ job[m].kind # "cleanup" /\ job[m].step = "store"
              => Stored(job[m].registry, job[m].list) \in Registries
         /\ [rules EXCEPT ![job[m].registry] = {}] \in Registries
<1>1. job[m] \in BulkJob
  BY JobCases DEF RulesInv, TypeOK
<1>2. job[m].registry \in Registry
  BY <1>1 DEF BulkJob
<1>3. rules \in Registries
  BY DEF RulesInv, TypeOK
<1>4. ASSUME job[m].kind # "cleanup", job[m].step = "store"
      PROVE  Stored(job[m].registry, job[m].list) \in Registries
  <2>1. job[m].list \in Lists[job[m].registry]
    BY <1>4 DEF RulesInv, ListsOffered, Bulk
  <2>2. /\ job[m].registry # "system" => job[m].list \in SUBSET FlowRule
        /\ job[m].registry = "system" => job[m].list \in SUBSET SystemRule
    BY <1>2, <2>1, ListTyped
  <2> QED BY <1>2, <1>3, <2>2, StoredTyped
<1> QED BY <1>2, <1>3, <1>4, StoredTyped

\* And so is what an edit puts there.
LEMMA EditStores ==
  ASSUME RulesInv, NEW m \in Manager, job[m].kind \in Edits
  PROVE  /\ job[m].registry \in Editable /\ job[m].rule \in FlowRule
         /\ Stored(job[m].registry, job[m].list) = [rules EXCEPT ![job[m].registry] = job[m].list]
         /\ Stored(job[m].registry, job[m].list) \in Registries
<1>1. job[m] \in EditJob
  BY JobCases DEF RulesInv, TypeOK
<1>2. /\ job[m].registry \in Editable /\ job[m].rule \in FlowRule
      /\ job[m].list \in SUBSET FlowRule
  BY <1>1 DEF EditJob
<1>3. rules \in Registries
  BY DEF RulesInv, TypeOK
<1> QED BY <1>2, <1>3, StoredTyped DEF Editable, Registry, Stored

LEMMA LoadingIsJob ==
  ASSUME NEW kind \in Bulk
  PROVE  Loading(kind) \in Job /\ Loading(kind).kind = kind /\ Loading(kind).step = "build"
         /\ Loading(kind).registry = "flow"
BY DEF Loading, Bulk, Job, Registry

\* The jobs of AddRule and RemoveRule.
LEMMA EditIsJob ==
  ASSUME rules \in Registries, NEW k \in Editable, NEW rule \in Added
  PROVE  /\ [kind |-> "add", registry |-> k, list |-> rules[k] \cup {rule}, rule |-> rule] \in Job
         /\ [kind |-> "remove", registry |-> k, rule |-> rule,
             list |-> {r \in rules[k] : r.resource # rule.resource}] \in Job
<1>1. rules[k] \subseteq FlowRule /\ rule \in FlowRule
  BY AddedAssumption DEF Registries, Editable, Registry, FlowRule, CircuitBreakerRule
<1>2. ASSUME NEW kind \in Edits, NEW list \in SUBSET FlowRule
      PROVE  [kind |-> kind, registry |-> k, list |-> list, rule |-> rule] \in Job
  BY <1>1 DEF Job, Edits
<1>3. /\ rules[k] \cup {rule} \in SUBSET FlowRule
      /\ {r \in rules[k] : r.resource # rule.resource} \in SUBSET FlowRule
  BY <1>1
<1> QED BY <1>2, <1>3 DEF Edits

THEOREM RulesInvariant == Spec => []RulesInv
<1>1. Init => RulesInv
  <2> SUFFICES ASSUME Init PROVE RulesInv
    OBVIOUS
  <2>1. /\ rules \in Registries
        /\ conf \in Config /\ \A k \in Registry : conf[k] \in Lists[k]
    BY ScannedIsConfiguration DEF Init, NoRules, Registries
  <2>2. TypeOK
    BY <2>1 DEF Init, TypeOK
  <2> QED BY <2>1, <2>2 DEF Init, RulesInv, Mutex, Locked, ListsOffered, Edits, Idle
<1>2. RulesInv /\ [Next]_vars => RulesInv'
  <2> SUFFICES ASSUME RulesInv, [Next]_vars PROVE RulesInv'
    OBVIOUS
  <2>0. /\ TypeOK /\ rules \in Registries
        /\ conf \in Config /\ \A k \in Registry : conf[k] \in Lists[k]
    BY DEF RulesInv, TypeOK, ListsOffered
  <2>1. ASSUME NEW m \in Manager, Configure(m) PROVE RulesInv'
    BY <2>1, BeginKeeps, LoadingIsJob, ScannedIsConfiguration DEF Configure, Bulk, Edits
  <2>2. ASSUME NEW m \in Manager, StartupLoads(m) PROVE RulesInv'
    BY <2>0, <2>2, BeginKeeps, LoadingIsJob DEF StartupLoads, Bulk, Edits
  <2>3. ASSUME NEW m \in Manager, ReloadRules(m) PROVE RulesInv'
    BY <2>0, <2>3, BeginKeeps, LoadingIsJob DEF ReloadRules, Bulk, Edits
  <2>4. ASSUME NEW m \in Manager, Build(m) PROVE RulesInv'
    <3>1. job[m].kind \in Bulk /\ job[m] \in BulkJob
      BY <2>0, <2>4, JobCases DEF Build, Bulk, TypeOK
    <3>2. conf[job[m].registry] \in SUBSET (FlowRule \cup SystemRule)
      <4>1. job[m].registry \in Registry
        BY <3>1 DEF BulkJob
      <4> QED BY <2>0, <4>1, ListTyped
    <3>3. job \in [Manager -> Job \cup {Idle}]
      BY <2>0 DEF TypeOK
    <3>4. job'[m] = [job[m] EXCEPT !.step = "store", !.list = conf[job[m].registry]]
      BY <2>4, <3>3 DEF Build
    <3>5. /\ job'[m] \in BulkJob
          /\ job'[m].kind = job[m].kind /\ job'[m].registry = job[m].registry
          /\ job'[m].list = conf[job[m].registry]
      BY <3>1, <3>2, <3>4 DEF BulkJob
    <3>6. \A n \in Manager \ {m} : job'[n] = job[n]
      BY <2>4, <3>3 DEF Build
    <3>7. job' \in [Manager -> Job \cup {Idle}]
      BY <2>4, <3>3, <3>5, <3>6, JobTypes DEF Build
    <3>8. UNCHANGED <<mu, conf, rules, settled, overlapped, promised>>
      BY <2>4 DEF Build
    <3>9. TypeOK'
      BY <3>7, <3>8 DEF RulesInv, TypeOK
    <3>10. Mutex'
      BY <3>5, <3>6, <3>8 DEF RulesInv, Mutex, Locked
    <3>11. ListsOffered'
      BY <2>0, <3>1, <3>5, <3>6, <3>8 DEF RulesInv, ListsOffered, Bulk, BulkJob, Edits
    <3> QED BY <3>9, <3>10, <3>11 DEF RulesInv
  <2>5. ASSUME NEW m \in Manager, Load(m) PROVE RulesInv'
    BY <2>5, AdvanceKeeps, BulkStores DEF Load, Bulk
  <2>6. ASSUME NEW m \in Manager, LoadFails(m) PROVE RulesInv'
    BY <2>0, <2>6, FinishKeeps DEF LoadFails, TypeOK
  <2>7. ASSUME NEW m \in Manager, Cleanup(m) PROVE RulesInv'
    BY <2>0, <2>7, BeginKeeps, LoadingIsJob DEF Cleanup, Bulk, Edits
  <2>8. ASSUME NEW m \in Manager, Clear(m) PROVE RulesInv'
    BY <2>8, AdvanceKeeps, BulkStores DEF Clear, Bulk
  <2>9. ASSUME NEW m \in Manager, NEW k \in Editable, NEW rule \in Added, AddRule(m, k, rule)
        PROVE  RulesInv'
    BY <2>0, <2>9, BeginKeeps, EditIsJob DEF AddRule
  <2>10. ASSUME NEW m \in Manager, NEW k \in Editable, NEW rule \in Added, RemoveRule(m, k, rule)
         PROVE  RulesInv'
    BY <2>0, <2>10, BeginKeeps, EditIsJob DEF RemoveRule
  <2>11. ASSUME NEW m \in Manager, StoreEdit(m) PROVE RulesInv'
    <3>1. job[m].kind \in Edits
      BY <2>11 DEF StoreEdit, Edits
    <3>2. promised' \subseteq Editable \X FlowRule
      <4>1. Promise(m) \subseteq {<<job[m].registry, job[m].rule>>}
        BY DEF Promise
      <4>2. <<job[m].registry, job[m].rule>> \in Editable \X FlowRule
        BY <3>1, EditStores
      <4>3. promised \subseteq Editable \X FlowRule
        BY <2>0 DEF TypeOK
      <4>4. promised' = promised \cup Promise(m)
        BY <2>11 DEF StoreEdit
      <4> QED BY <4>1, <4>2, <4>3, <4>4
    <3> QED BY <2>0, <2>11, <3>1, <3>2, EditStores, FinishKeeps DEF StoreEdit
  <2>12. ASSUME NEW m \in Manager, EditFails(m) PROVE RulesInv'
    BY <2>0, <2>12, FinishKeeps DEF EditFails, TypeOK
  <2>13. ASSUME NEW m \in Manager, InitializeResources(m) PROVE RulesInv'
    <3>1. Initializing \in Job /\ Initializing.kind = "initialize"
      BY JobTypes DEF Initializing
    <3> QED BY <2>13, <3>1, BeginKeeps, EmptyIsConfiguration DEF InitializeResources, Edits
  <2>14. ASSUME NEW m \in Manager, Initialized(m) PROVE RulesInv'
    <3>1. conf' \in Config /\ \A k \in Registry : conf'[k] \in Lists[k]
      BY <2>14, ScannedIsConfiguration, EmptyIsConfiguration DEF Initialized
    <3> QED BY <2>0, <2>14, <3>1, FinishKeeps DEF Initialized, TypeOK
  <2>15. CASE UNCHANGED vars
    BY <2>15 DEF vars, RulesInv, TypeOK, Mutex, Locked, ListsOffered
  <2> QED
    BY <2>1, <2>2, <2>3, <2>4, <2>5, <2>6, <2>7, <2>8, <2>9, <2>10, <2>11, <2>12, <2>13,
       <2>14, <2>15
    DEF Next
<1> QED BY <1>1, <1>2, PTL DEF Spec

-----------------------------------------------------------------------------
(***************************************************************************)
(* Settled registries.                                                     *)
(***************************************************************************)
Configured ==
  /\ rules.flow = conf.flow /\ rules.circuitBreaker = conf.circuitBreaker
  /\ conf.system # {} => rules.system = conf.system

AllIdle == \A n \in Manager : job[n] = Idle

\* How far the operation of m has got that began when nobody was at work.
Progress(m) ==
  /\ \A n \in Manager \ {m} : job[n] = Idle
  /\ job[m].kind \in {"locked", "cleanup"}
  /\ job[m].kind = "locked" =>
       /\ job[m].registry # "flow" => rules.flow = conf.flow
       /\ job[m].registry = "system" => rules.circuitBreaker = conf.circuitBreaker
       /\ job[m].step = "store" => job[m].list = conf[job[m].registry]
  /\ job[m].kind = "cleanup" =>
       /\ job[m].registry # "flow" => rules.flow = {}
       /\ job[m].registry = "system" => rules.circuitBreaker = {}

SettledInv ==
  /\ settled = "busy" => \E m \in Manager : Progress(m)
  /\ settled \in {"configured", "cleared"} => AllIdle
  /\ ConfiguredWhenSettled /\ ClearedWhenSettled

\* While an operation is the only one at work nobody else's step is possible,
\* so a step of somebody at work is its own.
LEMMA OnlyWorker ==
  ASSUME RulesInv, SettledInv, NEW m \in Manager, job[m] # Idle, settled # "no"
  PROVE  settled = "busy" /\ Progress(m)
<1>1. settled = "busy"
  BY DEF RulesInv, TypeOK, SettledInv, AllIdle
<1>2. PICK n \in Manager : Progress(n)
  BY <1>1 DEF SettledInv
<1>3. n = m
  BY <1>2 DEF Progress
<1> QED BY <1>1, <1>2, <1>3

\* A new operation is the only one at work, or unsettles the registries.
LEMMA BeginSettles ==
  ASSUME RulesInv, SettledInv, NEW m \in Manager, NEW j \in Job, Begin(m, j),
         j.kind \in {"locked", "cleanup"} =>
           mu = None /\ j.registry = "flow" /\ j.step = "build",
         rules' = rules
  PROVE  SettledInv'
<1>1. CASE settled' = "no"
  BY <1>1 DEF SettledInv, ConfiguredWhenSettled, ClearedWhenSettled
<1>2. CASE settled' # "no"
  <2>1. /\ settled' = "busy"
        /\ j.kind \in {"locked", "cleanup"} /\ \A n \in Manager : ~Unlocked(n)
    BY <1>2 DEF Begin
  <2>2. \A n \in Manager : ~Locked(n)
    BY <2>1, NoneAssumption DEF RulesInv, Mutex
  <2>3. \A n \in Manager : job[n] = Idle
    <3> TAKE n \in Manager
    <3>1. job[n] \in Job \cup {Idle}
      BY DEF RulesInv, TypeOK
    <3> QED BY <2>1, <2>2, <3>1, JobCases DEF Locked, Unlocked, Job, Edits
  <2>4. Progress(m)'
    BY <2>1, <2>3, BeginDoes DEF RulesInv, Progress
  <2> QED BY <2>1, <2>4 DEF SettledInv, ConfiguredWhenSettled, ClearedWhenSettled
<1> QED BY <1>1, <1>2

\* An operation that fails, or one without s.mu, does not settle anything.
LEMMA FinishUnsettled ==
  ASSUME RulesInv, SettledInv, NEW m \in Manager, job[m] # Idle, Finish(m, "no")
  PROVE  settled' = "no" /\ SettledInv'
<1>1. settled' = "no"
  BY OnlyWorker DEF Finish, Progress, Locked
<1> QED BY <1>1 DEF SettledInv, ConfiguredWhenSettled, ClearedWhenSettled

\* Loading one list changes one registry.
LEMMA StoredIs ==
  ASSUME rules \in Registries, NEW k \in Registry, NEW list
  PROVE  /\ k = "flow" => /\ Stored(k, list).flow = list
                          /\ [rules EXCEPT ![k] = list].flow = list
         /\ k # "flow" => /\ Stored(k, list).flow = rules.flow
                          /\ [rules EXCEPT ![k] = list].flow = rules.flow
         /\ k = "circuitBreaker" => /\ Stored(k, list).circuitBreaker = list
                                    /\ [rules EXCEPT ![k] = list].circuitBreaker = list
         /\ k # "circuitBreaker" =>
              /\ Stored(k, list).circuitBreaker = rules.circuitBreaker
              /\ [rules EXCEPT ![k] = list].circuitBreaker = rules.circuitBreaker
         /\ k = "system" => /\ list # {} => Stored(k, list).system = list
                            /\ [rules EXCEPT ![k] = list].system = list
BY DEF Stored, Registries, Registry

\* In an operation that settles the registries, advancing keeps the progress
\* if the registry just written is right; in any other nothing is settled.
LEMMA AdvanceSettles ==
  ASSUME RulesInv, SettledInv, NEW m \in Manager, job[m].kind \in Bulk,
         NEW outcome \in {"configured", "cleared"}, Advance(m, outcome),
         conf' = conf,
         settled = "busy" /\ job[m].registry = "system" /\ outcome = "configured" =>
           Configured',
         settled = "busy" /\ job[m].registry = "system" /\ outcome = "cleared" =>
           rules' = NoRules,
         settled = "busy" /\ job[m].kind = "locked" =>
           /\ rules'.flow = conf.flow
           /\ job[m].registry # "flow" => rules'.circuitBreaker = conf.circuitBreaker,
         settled = "busy" /\ job[m].kind = "cleanup" =>
           /\ rules'.flow = {}
           /\ job[m].registry # "flow" => rules'.circuitBreaker = {}
  PROVE  SettledInv'
<1> USE DEF Idle
<1>1. job[m] # Idle
  BY DEF Bulk
<1>2. CASE settled = "no"
  <2>1. settled' = "no"
    BY <1>2 DEF Advance, Finish
  <2> QED BY <2>1 DEF SettledInv, ConfiguredWhenSettled, ClearedWhenSettled
<1>3. CASE settled # "no"
  <2>1. settled = "busy" /\ Progress(m)
    BY <1>1, <1>3, OnlyWorker
  <2>2. \A n \in Manager \ {m} : job'[n] = Idle
    BY <2>1, AdvanceDoes DEF RulesInv, Progress
  <2>3. CASE job[m].registry = "system" /\ Finish(m, outcome)
    <3>1. job'[m] = Idle /\ settled' = outcome
      BY <2>1, <2>3, FinishDoes DEF RulesInv, Finish, Progress, Locked
    <3> QED BY <2>1, <2>2, <2>3, <3>1
            DEF SettledInv, AllIdle, Configured, ConfiguredWhenSettled, ClearedWhenSettled
  <2>4. CASE /\ job[m].registry # "system"
             /\ job'[m].kind = job[m].kind /\ job'[m].step = "build"
             /\ job'[m].registry = After[job[m].registry]
             /\ settled' = settled
    <3>1. job[m].registry \in Registry
      BY BulkStores
    <3>2. job'[m].registry = "system" => job[m].registry # "flow"
      BY <2>4, <3>1, AfterIs
    <3>3. Progress(m)'
      BY <2>1, <2>2, <2>4, <3>2 DEF Progress
    <3> QED BY <2>1, <2>4, <3>3 DEF SettledInv, ConfiguredWhenSettled, ClearedWhenSettled
  <2> QED BY <2>3, <2>4, AdvanceDoes DEF RulesInv
<1> QED BY <1>2, <1>3

THEOREM SettledInvariant == Spec => []SettledInv
<1>1. Init => SettledInv
  BY DEF Init, SettledInv, ConfiguredWhenSettled, ClearedWhenSettled
<1>2. RulesInv /\ SettledInv /\ [Next]_vars => SettledInv'
  <2> SUFFICES ASSUME RulesInv, SettledInv, [Next]_vars PROVE SettledInv'
    OBVIOUS
  <2>0. TypeOK /\ rules \in Registries /\ conf \in Config
    BY DEF RulesInv, TypeOK
  <2>1. ASSUME NEW m \in Manager, Configure(m) PROVE SettledInv'
    BY <2>1, BeginSettles, LoadingIsJob DEF Configure, Bulk
  <2>2. ASSUME NEW m \in Manager, StartupLoads(m) PROVE SettledInv'
    BY <2>2, BeginSettles, LoadingIsJob DEF StartupLoads, Bulk
  <2>3. ASSUME NEW m \in Manager, ReloadRules(m) PROVE SettledInv'
    BY <2>3, BeginSettles, LoadingIsJob DEF ReloadRules, Bulk
  <2>4. ASSUME NEW m \in Manager, Build(m) PROVE SettledInv'
    <3>1. job[m] # Idle /\ job[m].kind \in {"locked", "reload"}
      BY <2>4 DEF Build, Idle
    <3>2. UNCHANGED <<conf, rules, settled>>
      BY <2>4 DEF Build
    <3>3. CASE settled = "no"
      BY <3>2, <3>3 DEF SettledInv, ConfiguredWhenSettled, ClearedWhenSettled
    <3>4. CASE settled # "no"
      <4>1. settled = "busy" /\ Progress(m)
        BY <3>1, <3>4, OnlyWorker
      <4>2. job \in [Manager -> Job \cup {Idle}]
        BY <2>0 DEF TypeOK
      <4>3. job[m] \in BulkJob
        BY <3>1, <4>2, JobCases DEF Bulk
      <4>4. job'[m] = [job[m] EXCEPT !.step = "store", !.list = conf[job[m].registry]]
        BY <2>4, <4>2 DEF Build
      <4>5. /\ job'[m].kind = job[m].kind /\ job'[m].registry = job[m].registry
            /\ job'[m].list = conf[job[m].registry]
        BY <4>3, <4>4 DEF BulkJob
      <4>6. \A n \in Manager \ {m} : job'[n] = job[n]
        BY <2>4, <4>2 DEF Build
      <4>7. Progress(m)'
        BY <3>1, <3>2, <4>1, <4>5, <4>6 DEF Progress
      <4> QED BY <3>2, <4>1, <4>7 DEF SettledInv, ConfiguredWhenSettled, ClearedWhenSettled
    <3> QED BY <3>3, <3>4
  <2>5. ASSUME NEW m \in Manager, Load(m) PROVE SettledInv'
    <3>1. /\ job[m] # Idle /\ job[m].kind \in Bulk \ {"cleanup"} /\ job[m].step = "store"
          /\ rules' = Stored(job[m].registry, job[m].list) /\ conf' = conf
          /\ Advance(m, "configured")
      BY <2>5 DEF Load, Idle, Bulk
    <3>2. job[m].registry \in Registry
      BY <3>1, BulkStores
    <3>3. ASSUME settled = "busy"
          PROVE  /\ rules'.flow = conf.flow
                 /\ job[m].registry # "flow" => rules'.circuitBreaker = conf.circuitBreaker
                 /\ job[m].registry = "system" => Configured'
      <4>1. /\ job[m].registry # "flow" => rules.flow = conf.flow
            /\ job[m].registry = "system" => rules.circuitBreaker = conf.circuitBreaker
            /\ job[m].list = conf[job[m].registry]
        BY <3>1, <3>3, OnlyWorker DEF Progress, Bulk
      <4> QED BY <2>0, <3>1, <3>2, <4>1, StoredIs DEF Configured, Registry
    <3> QED BY <3>1, <3>3, AdvanceSettles DEF Bulk
  <2>6. ASSUME NEW m \in Manager, LoadFails(m) PROVE SettledInv'
    BY <2>6, FinishUnsettled DEF LoadFails, Idle
  <2>7. ASSUME NEW m \in Manager, Cleanup(m) PROVE SettledInv'
    BY <2>7, BeginSettles, LoadingIsJob DEF Cleanup, Bulk
  <2>8. ASSUME NEW m \in Manager, Clear(m) PROVE SettledInv'
    <3>1. /\ job[m] # Idle /\ job[m].kind \in Bulk /\ job[m].kind = "cleanup"
          /\ rules' = [rules EXCEPT ![job[m].registry] = {}] /\ conf' = conf
          /\ Advance(m, "cleared")
      BY <2>8 DEF Clear, Idle, Bulk
    <3>2. job[m].registry \in Registry
      BY <3>1, BulkStores
    <3>3. ASSUME settled = "busy"
          PROVE  /\ rules'.flow = {}
                 /\ job[m].registry # "flow" => rules'.circuitBreaker = {}
                 /\ job[m].registry = "system" => rules' = NoRules
      <4>1. /\ job[m].registry # "flow" => rules.flow = {}
            /\ job[m].registry = "system" => rules.circuitBreaker = {}
        BY <3>1, <3>3, OnlyWorker DEF Progress
      <4>2. /\ rules'.flow = {}
            /\ job[m].registry # "flow" => rules'.circuitBreaker = {}
            /\ job[m].registry = "system" => rules'.system = {}
        BY <2>0, <3>1, <3>2, <4>1, StoredIs, ZenonT(30) DEF Registry
      <4>3. rules' \in Registries
        BY <3>1, BulkStores
      <4> QED BY <4>2, <4>3 DEF NoRules, Registries
    <3> QED BY <3>1, <3>3, AdvanceSettles
  <2>9. ASSUME NEW m \in Manager, NEW k \in Editable, NEW rule \in Added,
               AddRule(m, k, rule) \/ RemoveRule(m, k, rule)
        PROVE  SettledInv'
    BY <2>0, <2>9, BeginSettles, EditIsJob DEF AddRule, RemoveRule
  <2>10. ASSUME NEW m \in Manager, StoreEdit(m) \/ EditFails(m) PROVE SettledInv'
    BY <2>10, FinishUnsettled DEF StoreEdit, EditFails, Idle
  <2>11. ASSUME NEW m \in Manager, InitializeResources(m) PROVE SettledInv'
    <3>1. settled' = "no"
      BY <2>11 DEF InitializeResources, Begin, Initializing
    <3> QED BY <3>1 DEF SettledInv, ConfiguredWhenSettled, ClearedWhenSettled
  <2>12. ASSUME NEW m \in Manager, Initialized(m) PROVE SettledInv'
    <3>1. job[m] # Idle /\ Finish(m, "no")
      BY <2>12 DEF Initialized, Idle, Initializing
    <3> QED BY <3>1, FinishUnsettled
  <2>13. CASE UNCHANGED vars
    BY <2>13 DEF vars, SettledInv, Progress, AllIdle, ConfiguredWhenSettled, ClearedWhenSettled
  <2> QED
    BY <2>1, <2>2, <2>3, <2>4, <2>5, <2>6, <2>7, <2>8, <2>9, <2>10, <2>11, <2>12, <2>13 DEF Next
<1> QED BY <1>1, <1>2, RulesInvariant, PTL DEF Spec

-----------------------------------------------------------------------------
(***************************************************************************)
(* Edits that do not overlap.                                              *)
(***************************************************************************)
\* Nobody at work may take a promised rule.
NoTaker == \A p \in promised, n \in Manager : ~MayTake(job[n], p[1], p[2])

NoConflict == \A m, n \in Manager : m # n => ~Conflict(job[m], job[n])

\* What a job that edits is about to load, given what is loaded now.
Fresh(j) ==
  /\ j.kind = "add" => j.list = rules[j.registry] \cup {j.rule}
  /\ j.kind = "remove" => j.list = {r \in rules[j.registry] : r.resource # j.rule.resource}

SerialInv ==
  /\ NoTaker
  /\ ~overlapped => NoConflict /\ AddedRulesStay /\ \A m \in Manager : Fresh(job[m])

LEMMA BeginSerial ==
  ASSUME RulesInv, SerialInv, NEW m \in Manager, NEW j \in Job, Begin(m, j),
         Fresh(j), rules' = rules
  PROVE  SerialInv'
<1>1. NoTaker'
  <2>1. \A p \in promised' : p \in promised /\ ~MayTake(j, p[1], p[2])
    BY DEF Begin
  <2>2. job'[m] = j /\ \A n \in Manager \ {m} : job'[n] = job[n]
    BY BeginDoes DEF RulesInv
  <2>3. ASSUME NEW p \in promised', NEW n \in Manager PROVE ~MayTake(job'[n], p[1], p[2])
    BY <2>1, <2>2, <2>3 DEF SerialInv, NoTaker
  <2> QED BY <2>3 DEF NoTaker, MayTake
<1>2. ASSUME ~overlapped' PROVE NoConflict' /\ AddedRulesStay' /\ \A n \in Manager : Fresh(job[n])'
  <2>1. ~overlapped /\ \A n \in Manager : ~Conflict(j, job[n])
    BY <1>2 DEF Begin
  <2>2. job'[m] = j /\ \A n \in Manager \ {m} : job'[n] = job[n]
    BY BeginDoes DEF RulesInv
  <2>3. NoConflict'
    BY <2>1, <2>2 DEF SerialInv, NoConflict, Conflict
  <2>4. AddedRulesStay'
    BY <2>1 DEF SerialInv, AddedRulesStay, Begin
  <2>5. \A n \in Manager : Fresh(job[n])'
    BY <2>1, <2>2 DEF SerialInv, Fresh
  <2> QED BY <2>3, <2>4, <2>5
<1> QED BY <1>1, <1>2 DEF SerialInv

\* A step of m that neither begins nor, unless it is an edit, stores.
LEMMA StepKeeps ==
  ASSUME RulesInv, SerialInv, NEW m \in Manager,
         \A n \in Manager \ {m} : job'[n] = job[n],
         job'[m] = Idle \/ (job'[m].kind = job[m].kind /\ job[m].kind \in Bulk)
  PROVE  /\ promised' \subseteq promised => NoTaker'
         /\ ~overlapped => NoConflict'
<1>1. ASSUME NEW n \in Manager, NEW k, NEW rule, MayTake(job'[n], k, rule)
      PROVE  MayTake(job[n], k, rule)
  BY <1>1 DEF MayTake, Idle, Bulk
<1>2. ASSUME promised' \subseteq promised PROVE NoTaker'
  <2>1. ASSUME NEW p \in promised', NEW n \in Manager PROVE ~MayTake(job'[n], p[1], p[2])
    BY <1>1, <1>2, <2>1 DEF SerialInv, NoTaker
  <2> QED BY <2>1 DEF NoTaker, MayTake
<1>3. ~overlapped => NoConflict'
  BY DEF SerialInv, NoConflict, Conflict, Idle, Bulk, Edits
<1> QED BY <1>2, <1>3

\* A step of a loader or a clearing, whatever it stores: without overlap there
\* is no edit at work, and there is no promise.
LEMMA BulkSerial ==
  ASSUME RulesInv, SerialInv, NEW m \in Manager, job[m].kind \in Bulk,
         \A n \in Manager \ {m} : job'[n] = job[n],
         job'[m] = Idle \/ job'[m].kind = job[m].kind,
         promised' = promised, overlapped' = overlapped
  PROVE  SerialInv'
<1>1. promised = {}
  BY DEF SerialInv, NoTaker, MayTake, Bulk
<1>2. ASSUME ~overlapped PROVE \A n \in Manager : Fresh(job[n])'
  <2>1. \A n \in Manager \ {m} : job'[n].kind \notin Edits
    BY <1>2 DEF SerialInv, NoConflict, Conflict, Bulk
  <2>2. job'[m].kind \notin Edits
    BY DEF Idle, Bulk, Edits
  <2> QED BY <2>1, <2>2 DEF Fresh, Edits
<1> QED BY <1>1, <1>2, StepKeeps DEF SerialInv, AddedRulesStay

\* Storing an edit without overlap: no other edit of its registry is at work,
\* and what it loads keeps every promise.
LEMMA StoreEditSerial ==
  ASSUME RulesInv, SerialInv, NEW m \in Manager, StoreEdit(m)
  PROVE  SerialInv'
<1> DEFINE k == job[m].registry
           rule == job[m].rule
<1>1. /\ job[m].kind \in Edits /\ Finish(m, "no")
      /\ promised' = promised \cup Promise(m)
  BY DEF StoreEdit, Edits
<1>2. /\ k \in Editable /\ rule \in FlowRule
      /\ rules' = [rules EXCEPT ![k] = job[m].list]
  BY <1>1, EditStores DEF StoreEdit
<1>3. /\ job'[m] = Idle /\ \A n \in Manager \ {m} : job'[n] = job[n]
      /\ overlapped' = overlapped
  BY <1>1, FinishDoes DEF RulesInv
<1>4. /\ rules'[k] = job[m].list
      /\ \A h \in Registry \ {k} : rules'[h] = rules[h]
  BY <1>2 DEF RulesInv, TypeOK, Registries, Editable, Registry
<1>5. NoTaker'
  <2>1. ASSUME NEW p \in promised', NEW n \in Manager PROVE ~MayTake(job'[n], p[1], p[2])
    <3>1. CASE n = m
      BY <1>3, <3>1 DEF MayTake, Idle
    <3>2. CASE n # m /\ p \in promised
      BY <1>3, <3>2 DEF SerialInv, NoTaker
    <3>3. CASE n # m /\ p \in Promise(m)
      BY <1>3, <3>3 DEF Promise
    <3> QED BY <1>1, <3>1, <3>2, <3>3
  <2> QED BY <2>1 DEF NoTaker, MayTake
<1>6. ASSUME ~overlapped PROVE NoConflict' /\ AddedRulesStay' /\ \A n \in Manager : Fresh(job[n])'
  <2>1. NoConflict'
    BY <1>3, <1>6, StepKeeps
  <2>2. Fresh(job[m])
    BY <1>6 DEF SerialInv
  <2>3. \A n \in Manager : Fresh(job[n])'
    <3> SUFFICES ASSUME NEW n \in Manager PROVE Fresh(job[n])'
      OBVIOUS
    <3>1. CASE n = m
      BY <1>3, <3>1 DEF Fresh, Idle
    <3>2. CASE n # m /\ job[n].kind \notin Edits
      BY <1>3, <3>2 DEF Fresh, Edits
    <3>3. CASE n # m /\ job[n].kind \in Edits
      <4>1. job[n].registry # k
        BY <1>1, <1>6, <3>3 DEF SerialInv, NoConflict, Conflict
      <4>2. job[n].registry \in Registry
        BY <3>3, EditStores DEF Editable
      <4> QED BY <1>3, <1>4, <1>6, <3>3, <4>1, <4>2 DEF SerialInv, Fresh
    <3> QED BY <3>1, <3>2, <3>3
  <2>4. AddedRulesStay'
    <3> SUFFICES ASSUME NEW p \in promised' PROVE p[2] \in rules'[p[1]]
      BY DEF AddedRulesStay
    <3>1. CASE p \in Promise(m)
      <4>1. p = <<k, rule>> /\ job[m].kind = "add"
        BY <3>1 DEF Promise
      <4> QED BY <1>4, <2>2, <4>1 DEF Fresh
    <3>2. CASE p \in promised
      <4>1. p[2] \in rules[p[1]] /\ p[1] \in Registry
        BY <1>6, <3>2 DEF SerialInv, AddedRulesStay, RulesInv, TypeOK, Editable
      <4>2. ~MayTake(job[m], p[1], p[2])
        BY <3>2 DEF SerialInv, NoTaker
      <4>3. CASE p[1] # k
        BY <1>4, <4>1, <4>3
      <4>4. CASE p[1] = k
        BY <1>1, <1>4, <2>2, <4>1, <4>2, <4>4 DEF MayTake, Fresh, Edits
      <4> QED BY <4>3, <4>4
    <3> QED BY <1>1, <3>1, <3>2
  <2> QED BY <2>1, <2>3, <2>4
<1> QED BY <1>3, <1>5, <1>6 DEF SerialInv

THEOREM SerialInvariant == Spec => []SerialInv
<1>1. Init => SerialInv
  BY DEF Init, SerialInv, NoTaker, NoConflict, Conflict, Edits, AddedRulesStay, Fresh, Idle
<1>2. RulesInv /\ SerialInv /\ [Next]_vars => SerialInv'
  <2> SUFFICES ASSUME RulesInv, SerialInv, [Next]_vars PROVE SerialInv'
    OBVIOUS
  <2>0. TypeOK /\ rules \in Registries
    BY DEF RulesInv, TypeOK
  <2>1. ASSUME NEW m \in Manager,
               Configure(m) \/ StartupLoads(m) \/ ReloadRules(m) \/ Cleanup(m)
        PROVE  SerialInv'
    <3>1. PICK kind \in Bulk : Begin(m, Loading(kind)) /\ rules' = rules
      BY <2>1 DEF Configure, StartupLoads, ReloadRules, Cleanup, Bulk
    <3>2. Loading(kind) \in Job /\ Fresh(Loading(kind))
      BY LoadingIsJob DEF Fresh, Bulk
    <3> QED BY <3>1, <3>2, BeginSerial
  <2>2. ASSUME NEW m \in Manager, Build(m) PROVE SerialInv'
    <3>1. job[m].kind \in Bulk /\ job[m] \in BulkJob /\ job \in [Manager -> Job \cup {Idle}]
      BY <2>0, <2>2, JobCases DEF Build, Bulk, TypeOK
    <3>2. job'[m] = [job[m] EXCEPT !.step = "store", !.list = conf[job[m].registry]]
      BY <2>2, <3>1 DEF Build
    <3>3. job'[m].kind = job[m].kind
      BY <3>1, <3>2 DEF BulkJob
    <3>4. \A n \in Manager \ {m} : job'[n] = job[n]
      BY <2>2, <3>1 DEF Build
    <3> QED BY <2>2, <3>1, <3>3, <3>4, BulkSerial DEF Build
  <2>3. ASSUME NEW m \in Manager, NEW outcome, job[m].kind \in Bulk, Advance(m, outcome),
               promised' = promised
        PROVE  SerialInv'
    BY <2>0, <2>3, AdvanceDoes, FinishDoes, BulkSerial
  <2>4. ASSUME NEW m \in Manager, Load(m) \/ Clear(m) PROVE SerialInv'
    BY <2>3, <2>4 DEF Load, Clear, Bulk
  <2>5. ASSUME NEW m \in Manager, LoadFails(m) PROVE SerialInv'
    BY <2>0, <2>5, FinishDoes, BulkSerial DEF LoadFails, Bulk
  <2>6. ASSUME NEW m \in Manager, NEW k \in Editable, NEW rule \in Added, AddRule(m, k, rule)
        PROVE  SerialInv'
    <3> DEFINE j == [kind |-> "add", registry |-> k, list |-> rules[k] \cup {rule}, rule |-> rule]
    <3>1. j \in Job /\ Fresh(j)
      BY <2>0, EditIsJob DEF Fresh
    <3>2. Begin(m, j) /\ rules' = rules
      BY <2>6 DEF AddRule
    <3> QED BY <3>1, <3>2, BeginSerial
  <2>7. ASSUME NEW m \in Manager, NEW k \in Editable, NEW rule \in Added, RemoveRule(m, k, rule)
        PROVE  SerialInv'
    <3> DEFINE j == [kind |-> "remove", registry |-> k, rule |-> rule,
                     list |-> {r \in rules[k] : r.resource # rule.resource}]
    <3>1. j \in Job /\ Fresh(j)
      BY <2>0, EditIsJob DEF Fresh
    <3>2. Begin(m, j) /\ rules' = rules
      BY <2>7 DEF RemoveRule
    <3> QED BY <3>1, <3>2, BeginSerial
  <2>8. ASSUME NEW m \in Manager, StoreEdit(m) PROVE SerialInv'
    BY <2>8, StoreEditSerial
  <2>9. ASSUME NEW m \in Manager, EditFails(m) \/ Initialized(m) PROVE SerialInv'
    <3>1. /\ job'[m] = Idle /\ \A n \in Manager \ {m} : job'[n] = job[n]
          /\ overlapped' = overlapped /\ rules' = rules /\ promised' = promised
      BY <2>0, <2>9, FinishDoes DEF EditFails, Initialized
    <3>2. NoTaker' /\ (~overlapped => NoConflict')
      BY <3>1, StepKeeps
    <3>3. ~overlapped => AddedRulesStay' /\ \A n \in Manager : Fresh(job[n])'
      BY <3>1 DEF SerialInv, AddedRulesStay, Fresh, Idle
    <3> QED BY <3>1, <3>2, <3>3 DEF SerialInv
  <2>10. ASSUME NEW m \in Manager, InitializeResources(m) PROVE SerialInv'
    <3>1. Initializing \in Job /\ Fresh(Initializing)
      BY JobTypes DEF Fresh, Initializing
    <3> QED BY <2>10, <3>1, BeginSerial DEF InitializeResources
  <2>11. CASE UNCHANGED vars
    BY <2>11 DEF vars, SerialInv, NoTaker, MayTake, NoConflict, Conflict, AddedRulesStay, Fresh
  <2> QED BY <2>1, <2>2, <2>4, <2>5, <2>6, <2>7, <2>8, <2>9, <2>10, <2>11 DEF Next
<1> QED BY <1>1, <1>2, RulesInvariant, PTL DEF Spec

-----------------------------------------------------------------------------
(***************************************************************************)
(* The properties of SentinelRules.                                        *)
(***************************************************************************)
\* s.mu, s.conf, the registries and what each manager is doing keep their types.
THEOREM TypeCorrect == Spec => []TypeOK
<1>1. RulesInv => TypeOK
  BY DEF RulesInv
<1> QED BY <1>1, RulesInvariant, PTL

\* A Configure or startup that met no ReloadRules and no edit leaves the
\* registries as s.conf says, because every other loader needs s.mu.
THEOREM ConfiguredIsSettled == Spec => []ConfiguredWhenSettled
<1>1. SettledInv => ConfiguredWhenSettled
  BY DEF SettledInv
<1> QED BY <1>1, SettledInvariant, PTL

\* A cleanup that met no ReloadRules and no edit leaves no rule.
THEOREM ClearedIsSettled == Spec => []ClearedWhenSettled
<1>1. SettledInv => ClearedWhenSettled
  BY DEF SettledInv
<1> QED BY <1>1, SettledInvariant, PTL

\* Until the application lets edits overlap, what AddFlowRule and
\* AddCircuitBreakerRule added is there until something takes it.
THEOREM AdditionsStay == Spec => []SerializedAdditionsStay
<1>1. SerialInv => SerializedAdditionsStay
  BY DEF SerialInv, SerializedAdditionsStay
<1> QED BY <1>1, SerialInvariant, PTL

\* The two core calls of an edit, the loaders and the clearing implement the
\* rule store: each step of the registries is one step of the store.
THEOREM ImplementsRuleStore == Spec => RuleStoreSpec
<1>1. Init => rules = [k \in Registry |-> {}] /\ overlapped = FALSE
  BY DEF Init, NoRules, Registry
<1>2. RulesInv /\ SerialInv /\ [Next]_vars => [Store!Next]_(Store!vars)
  <2> SUFFICES ASSUME RulesInv, SerialInv, [Next]_vars PROVE [Store!Next]_(Store!vars)
    OBVIOUS
  <2> USE DEF Store!vars
  <2>0. TypeOK /\ rules \in Registries
    BY DEF RulesInv, TypeOK
  <2>1. ASSUME NEW m \in Manager, NEW j, Begin(m, j), rules' = rules
        PROVE  [Store!Next]_(Store!vars)
    <3>1. overlapped \in BOOLEAN /\ overlapped' \in BOOLEAN /\ (overlapped => overlapped')
      BY <2>0, <2>1 DEF TypeOK, Begin
    <3> QED BY <2>1, <3>1 DEF Store!Next
  <2>2. ASSUME NEW m \in Manager,
               InitializeResources(m) \/ Configure(m) \/ StartupLoads(m) \/ ReloadRules(m)
                 \/ Cleanup(m)
        PROVE  [Store!Next]_(Store!vars)
    BY <2>1, <2>2 DEF InitializeResources, Configure, StartupLoads, ReloadRules, Cleanup
  <2>3. ASSUME NEW m \in Manager, NEW k \in Editable, NEW rule \in Added,
               AddRule(m, k, rule) \/ RemoveRule(m, k, rule)
        PROVE  [Store!Next]_(Store!vars)
    BY <2>1, <2>3 DEF AddRule, RemoveRule
  <2>4. ASSUME NEW m \in Manager, Initialized(m) \/ Build(m) \/ LoadFails(m) \/ EditFails(m)
        PROVE  [Store!Next]_(Store!vars)
    BY <2>4 DEF Initialized, Build, LoadFails, EditFails, Finish
  <2>5. ASSUME overlapped' = overlapped, ~overlapped => Store!Operation
        PROVE  [Store!Next]_(Store!vars)
    <3>1. overlapped \in BOOLEAN
      BY <2>0 DEF TypeOK
    <3> QED BY <2>5, <3>1 DEF Store!Next
  <2>6. ASSUME NEW m \in Manager, Load(m) PROVE [Store!Next]_(Store!vars)
    <3>1. /\ job[m].kind \in {"locked", "reload"} /\ job[m].step = "store"
          /\ rules' = Stored(job[m].registry, job[m].list) /\ Advance(m, "configured")
      BY <2>6 DEF Load
    <3>2. overlapped' = overlapped /\ job[m].registry \in Registry
      BY <2>0, <3>1, AdvanceDoes, BulkStores DEF Bulk
    <3>3. job[m].list \in Lists[job[m].registry]
      BY <3>1 DEF RulesInv, ListsOffered
    <3>4. CASE rules' = rules
      BY <3>2, <3>4
    <3>5. CASE rules' = [rules EXCEPT ![job[m].registry] = job[m].list]
      BY <2>5, <3>2, <3>3, <3>5 DEF Store!Operation, Store!Load
    <3> QED BY <3>1, <3>4, <3>5 DEF Stored
  <2>7. ASSUME NEW m \in Manager, Clear(m) PROVE [Store!Next]_(Store!vars)
    <3>1. /\ job[m].kind = "cleanup" /\ Advance(m, "cleared")
          /\ rules' = [rules EXCEPT ![job[m].registry] = {}]
      BY <2>7 DEF Clear
    <3>2. overlapped' = overlapped /\ job[m].registry \in Registry
      BY <2>0, <3>1, AdvanceDoes, BulkStores DEF Bulk
    <3> QED BY <2>5, <3>1, <3>2 DEF Store!Operation, Store!Clear
  <2>8. ASSUME NEW m \in Manager, StoreEdit(m) PROVE [Store!Next]_(Store!vars)
    <3> DEFINE k == job[m].registry
               rule == job[m].rule
    <3>1. job[m].kind \in Edits /\ overlapped' = overlapped
      BY <2>8 DEF StoreEdit, Finish, Edits
    <3>2. /\ k \in Editable /\ rule \in Added
          /\ rules' = [rules EXCEPT ![k] = job[m].list]
      BY <2>8, <3>1, EditStores DEF StoreEdit, RulesInv, ListsOffered
    <3>3. ASSUME ~overlapped PROVE Store!Operation
      <4>1. Fresh(job[m])
        BY <3>3 DEF SerialInv
      <4>2. CASE job[m].kind = "add"
        <5>1. rules' = [rules EXCEPT ![k] = rules[k] \cup {rule}]
          BY <3>2, <4>1, <4>2 DEF Fresh
        <5>2. Store!Add(k, rule)
          BY <5>1 DEF Store!Add
        <5> QED BY <3>2, <5>2 DEF Store!Operation
      <4>3. CASE job[m].kind = "remove"
        <5>1. rules' = [rules EXCEPT ![k] = {r \in rules[k] : r.resource # rule.resource}]
          BY <3>2, <4>1, <4>3 DEF Fresh
        <5>2. Store!Remove(k, rule)
          BY <5>1 DEF Store!Remove
        <5> QED BY <3>2, <5>2 DEF Store!Operation
      <4> QED BY <3>1, <4>2, <4>3 DEF Edits
    <3> QED BY <2>5, <3>1, <3>3
  <2>9. CASE UNCHANGED vars
    BY <2>9 DEF vars
  <2> QED BY <2>2, <2>3, <2>4, <2>6, <2>7, <2>8, <2>9 DEF Next
<1> QED BY <1>1, <1>2, RulesInvariant, SerialInvariant, PTL DEF Spec, RuleStoreSpec, Store!Spec
=============================================================================
