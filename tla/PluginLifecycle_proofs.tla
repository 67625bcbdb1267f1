------------------------ MODULE PluginLifecycle_proofs ------------------------
(***************************************************************************)
(* Proofs about PluginLifecycle, for any callers, configurations and       *)
(* bounds. The invariant is built in three layers, each proved from the    *)
(* ones before it: types and the discipline of s.mu; what is initialized   *)
(* and loaded; the stop channel, the workers and the waits for them.       *)
(***************************************************************************)
EXTENDS PluginLifecycle, TLAPS

\* A caller between its lock and its unlock is the one that holds s.mu.
Locked == \A t \in Caller : pc[t] \in Holding <=> mu = t

\* Whoever got past the first check of startup found the plugin initialized.
Initialized ==
  /\ isInitialized => sentinelInitialized /\ core = "ok" /\ conf # None
  /\ \A t \in Caller : pc[t] \in {"launch", "attach", "publish"} => isInitialized

LifecycleInv == TypeOK /\ Locked /\ Initialized

-----------------------------------------------------------------------------
LEMMA ConfigTypes ==
  /\ EmptyConfig \in Config
  /\ NoRules \in Registries
  /\ \A c \in Config : WithDefaults(c) \in Config
<1>1. EmptyConfig \in Config
  BY NameAssumption DEF EmptyConfig, Config
<1>2. NoRules \in Registries
  BY DEF NoRules, Registries
<1>3. ASSUME NEW c \in Config PROVE WithDefaults(c) \in Config
  <2>1. PICK n \in Name, p \in Int :
          WithDefaults(c) = [c EXCEPT !.appName = n, !.port = p]
    <3>1. (IF c.appName = NoName THEN FallbackName ELSE c.appName) \in Name
      BY NameAssumption DEF Config
    <3>2. (IF c.port = 0 THEN DefaultPort ELSE c.port) \in Int
      BY DEF Config, DefaultPort
    <3> QED BY <3>1, <3>2 DEF WithDefaults
  <2> QED BY <2>1 DEF Config
<1> QED BY <1>1, <1>2, <1>3

\* No loader takes a registry out of its type.
LEMMA LoadersTyped ==
  ASSUME NEW c \in Config, NEW r \in Registries
  PROVE  /\ LoadAll(r, c) \in Registries
         /\ LoadedBeforeFailure(r, c) \subseteq Registries
<1> DEFINE flow == LoadFlowRules(r, c)
           both == LoadCircuitBreakerRules(flow, c)
<1>1. flow \in Registries
  BY DEF LoadFlowRules, Registries, Config
<1>2. both \in Registries
  BY <1>1 DEF LoadCircuitBreakerRules, Registries, Config
<1>3. LoadSystemRules(both, c) \in Registries
  BY <1>2 DEF LoadSystemRules, Registries, Config
<1> QED BY <1>1, <1>2, <1>3 DEF LoadAll, LoadedBeforeFailure

\* Loading everything puts what the configuration says into the registries;
\* the system rules stay when it names none.
LEMMA LoadAllLoads ==
  ASSUME NEW c \in Config, NEW r \in Registries
  PROVE  /\ LoadAll(r, c).flow = c.flow
         /\ LoadAll(r, c).circuitBreaker = c.circuitBreaker
         /\ LoadAll(r, c).system = IF c.system = {} THEN r.system ELSE c.system
BY DEF LoadAll, LoadFlowRules, LoadCircuitBreakerRules, LoadSystemRules, Registries, Config

-----------------------------------------------------------------------------
\* No step of the plugin, the waiters or the workers breaks it, whatever else
\* happens around the plugin.
LEMMA LifecycleStep ==
  ASSUME LifecycleInv, [Next]_vars
  PROVE  LifecycleInv'
<1> USE DEF LifecycleInv, TypeOK, Locked, Initialized, Waiting, Holding, Context, WaiterState,
            Kind, Worker, callers, lifecycle, channel, group
<1>1. ASSUME NEW t \in Caller, CallStartup(t) PROVE LifecycleInv'
  BY <1>1, NoneAssumption DEF CallStartup, Goto
<1>2. ASSUME NEW t \in Caller, CallCleanup(t) PROVE LifecycleInv'
  BY <1>2, NoneAssumption DEF CallCleanup, Goto
<1>3. ASSUME NEW t \in Caller, Cancel(t) PROVE LifecycleInv'
  BY <1>3, NoneAssumption DEF Cancel
<1>4. ASSUME NEW t \in Caller, InitializeResources(t) PROVE LifecycleInv'
  <2>1. CASE ScanFails
    BY <1>4, <2>1, ConfigTypes, NoneAssumption DEF InitializeResources, ScanFails
  <2>2. ASSUME NEW c \in Offered, ConfigRejected(c) PROVE LifecycleInv'
    BY <1>4, <2>2, ConfigTypes, OfferedAssumption, NoneAssumption
    DEF InitializeResources, ConfigRejected
  <2>3. ASSUME NEW c \in Offered, ConfigAccepted(c) PROVE LifecycleInv'
    <3>1. conf' \in Config
      BY <2>3, ConfigTypes, OfferedAssumption DEF ConfigAccepted
    <3>2. CASE core' = "failed"
      BY <1>4, <2>3, <3>1, <3>2, NoneAssumption
      DEF InitializeResources, ConfigAccepted, CoreOutcome
    <3>3. CASE core' = "ok"
      <4>1. UNCHANGED <<callers, rules, limiter, active, channel, group, panicked>>
        BY <1>4 DEF InitializeResources
      <4>2. sentinelInitialized' = TRUE /\ isInitialized' = TRUE /\ objects' \subseteq Kind
        <5>1. sentinelInitialized' = TRUE /\ isInitialized' = TRUE
          BY <2>3, <3>3 DEF ConfigAccepted
        <5>2. objects' = objects \cup (IF c.metrics THEN {"metrics"} ELSE {})
                                \cup (IF c.dashboard THEN {"dashboard"} ELSE {})
          BY <2>3, <3>3 DEF ConfigAccepted
        <5> QED BY <5>1, <5>2
      <4>3. TypeOK' /\ Locked'
        BY <3>1, <3>3, <4>1, <4>2
      <4>4. Initialized'
        BY <3>1, <3>3, <4>1, <4>2, NoneAssumption
      <4> QED BY <4>3, <4>4
    <3> QED BY <2>3, <3>2, <3>3 DEF ConfigAccepted, CoreOutcome
  <2> QED BY <1>4, <2>1, <2>2, <2>3 DEF InitializeResources
<1>5. ASSUME NEW t \in Caller, Configure(t) PROVE LifecycleInv'
  BY <1>5, ConfigTypes, LoadersTyped, OfferedAssumption, NoneAssumption DEF Configure
<1>6. ASSUME NEW t \in Caller, StartupRefused(t) PROVE LifecycleInv'
  BY <1>6, NoneAssumption DEF StartupRefused, Return, Goto
<1>7. ASSUME NEW t \in Caller, StartupLoadFails(t) PROVE LifecycleInv'
  BY <1>7, LoadersTyped, NoneAssumption DEF StartupLoadFails, Return, Goto, ResetStopChannel
<1>8. ASSUME NEW t \in Caller, StartupLoadsRules(t) PROVE LifecycleInv'
  BY <1>8, LoadersTyped, NoneAssumption DEF StartupLoadsRules, Goto, ResetStopChannel, Cancelled
<1>9. ASSUME NEW t \in Caller, BeginCleanup(t) PROVE LifecycleInv'
  <2>1. stopCh' = stopCh /\ closed' \subseteq 1 .. stopCh'
    BY <1>9 DEF BeginCleanup, SignalStop
  <2>2. waiter' \in [1 .. stops' -> WaiterState]
    BY <1>9 DEF BeginCleanup
  <2>3. workers' \subseteq Worker' /\ listening' \subseteq workers'
    BY <1>9 DEF BeginCleanup, SignalStop
  <2>4. pc' \in [Caller -> Waiting \cup Holding] /\ Locked' /\ Initialized'
    BY <1>9, NoneAssumption DEF BeginCleanup, Goto
  <2>5. /\ mu' = t /\ active' = FALSE /\ stops' \in Nat
        /\ UNCHANGED <<ctx, lifecycle, rules, limiter, starts, panicked>>
    BY <1>9 DEF BeginCleanup
  <2>6. TypeOK'
    BY <2>1, <2>2, <2>3, <2>4, <2>5
  <2> QED BY <2>4, <2>6
<1>10. ASSUME NEW t \in Caller, StartupCancelledEarly(t) PROVE LifecycleInv'
  BY <1>10, NoneAssumption DEF StartupCancelledEarly, Return, Goto
<1>11. ASSUME NEW t \in Caller, LaunchWorkers(t) PROVE LifecycleInv'
  BY <1>11, NoneAssumption DEF LaunchWorkers, Goto, Launched
<1>12. ASSUME NEW t \in Caller, StartupCancelled(t) PROVE LifecycleInv'
  BY <1>12, NoneAssumption DEF StartupCancelled, Goto
<1>13. ASSUME NEW t \in Caller, AttachLimiter(t) PROVE LifecycleInv'
  BY <1>13, NoneAssumption DEF AttachLimiter, Goto
<1>14. ASSUME NEW t \in Caller, StartupSucceeds(t) PROVE LifecycleInv'
  BY <1>14, NoneAssumption DEF StartupSucceeds, Return, Goto
<1>15. ASSUME NEW t \in Caller, RollBack(t) PROVE LifecycleInv'
  <2>1. closed' \subseteq 1 .. stopCh'
    BY <1>15 DEF RollBack, SignalStop
  <2>2. pc' \in [Caller -> Waiting \cup Holding] /\ Locked'
    BY <1>15, NoneAssumption DEF RollBack, Goto
  <2> QED BY <1>15, <2>1, <2>2 DEF RollBack, Goto, SignalStop
<1>16. ASSUME NEW t \in Caller, RolledBack(t) PROVE LifecycleInv'
  BY <1>16, NoneAssumption DEF RolledBack, Return, Goto
<1>17. ASSUME NEW t \in Caller, CleanupDrained(t) PROVE LifecycleInv'
  BY <1>17, ConfigTypes, NoneAssumption DEF CleanupDrained, Return, Goto
<1>18. ASSUME NEW t \in Caller, CleanupAbandoned(t) PROVE LifecycleInv'
  BY <1>18, ConfigTypes, NoneAssumption DEF CleanupAbandoned, Return, Goto
<1>19. ASSUME NEW n \in 1 .. stops, WaiterStarts(n) PROVE LifecycleInv'
  BY <1>19 DEF WaiterStarts
<1>20. ASSUME NEW n \in 1 .. stops, WaiterWakes(n) PROVE LifecycleInv'
  BY <1>20 DEF WaiterWakes
<1>21. ASSUME NEW w \in workers, WorkerListens(w) PROVE LifecycleInv'
  BY <1>21 DEF WorkerListens
<1>22. ASSUME NEW w \in workers, WorkerGivesUp(w) PROVE LifecycleInv'
  BY <1>22 DEF WorkerGivesUp, Exit, Woken
<1>23. ASSUME NEW w \in workers, WorkerStops(w) PROVE LifecycleInv'
  BY <1>23 DEF WorkerStops, Exit, Woken
<1>24. CASE Died \/ UNCHANGED vars
  <2>1. UNCHANGED vars
    BY <1>24 DEF Died
  <2> QED BY <2>1 DEF vars
<1> QED
  BY <1>1, <1>2, <1>3, <1>4, <1>5, <1>6, <1>7, <1>8, <1>9, <1>10, <1>11, <1>12, <1>13,
     <1>14, <1>15, <1>16, <1>17, <1>18, <1>19, <1>20, <1>21, <1>22, <1>23, <1>24
  DEF Next, CallerNext, WaiterNext, WorkerNext, Request, Acquire, Hold

LEMMA LifecycleInit ==
  ASSUME Init
  PROVE  LifecycleInv
<1> USE DEF LifecycleInv, TypeOK, Locked, Initialized, Waiting, Holding, Context, WaiterState,
            Kind, Worker, callers, lifecycle, channel, group
<1>1. waiter \in [1 .. stops -> WaiterState]
  BY DEF Init
<1>2. workers \subseteq Worker /\ listening \subseteq workers
  BY DEF Init
<1>3. closed \subseteq 1 .. stopCh /\ stopCh \in Nat \ {0} /\ starts \in Nat /\ stops \in Nat
  BY DEF Init
<1>4. /\ mu \in Caller \cup {None} /\ pc \in [Caller -> Waiting \cup Holding]
      /\ ctx \in [Caller -> Context] /\ conf \in Config \cup {None} /\ rules \in Registries
      /\ core \in {"never", "ok", "failed"} /\ objects \subseteq Kind
  BY ConfigTypes DEF Init
<1>5. /\ isInitialized = FALSE /\ sentinelInitialized = FALSE
      /\ limiter = FALSE /\ active = FALSE /\ panicked = FALSE
  BY DEF Init
<1>6. Locked /\ Initialized
  BY NoneAssumption DEF Init
<1> QED BY <1>1, <1>2, <1>3, <1>4, <1>5, <1>6

\* Types, the discipline of s.mu, and what a caller that got past the first
\* check of startup can rely on.
THEOREM LifecycleInvariant == Spec => []LifecycleInv
<1>1. Init => LifecycleInv
  BY LifecycleInit
<1>2. LifecycleInv /\ [Next]_vars => LifecycleInv'
  BY LifecycleStep
<1> QED BY <1>1, <1>2, PTL DEF Spec

\* The limiter is attached only by a startup that found the plugin initialized.
LEMMA LimiterAttached ==
  ASSUME LifecycleInv, [Next]_vars
  PROVE  limiter' => limiter \/ isInitialized
<1> USE DEF callers, lifecycle, channel, group
<1>1. ASSUME NEW t \in Caller, Request(t) PROVE limiter' = limiter
  BY <1>1 DEF Request, CallStartup, CallCleanup, Cancel, InitializeResources, Configure
<1>2. ASSUME NEW t \in Caller, Acquire(t) PROVE limiter' = limiter
  BY <1>2 DEF Acquire, StartupRefused, StartupLoadFails, StartupLoadsRules, BeginCleanup
<1>3. ASSUME NEW t \in Caller, Hold(t) PROVE limiter' = limiter \/ isInitialized
  BY <1>3 DEF Hold, StartupCancelledEarly, LaunchWorkers, StartupCancelled, AttachLimiter,
              StartupSucceeds, RollBack, RolledBack, CleanupDrained, CleanupAbandoned,
              Goto, LifecycleInv, Initialized
<1>4. ASSUME NEW n \in 1 .. stops, WaiterStarts(n) \/ WaiterWakes(n) PROVE limiter' = limiter
  BY <1>4 DEF WaiterStarts, WaiterWakes
<1>5. ASSUME NEW w \in workers, WorkerListens(w) \/ WorkerGivesUp(w) \/ WorkerStops(w)
      PROVE  limiter' = limiter
  BY <1>5 DEF WorkerListens, WorkerGivesUp, WorkerStops, Exit
<1>6. UNCHANGED vars => limiter' = limiter
  BY DEF vars
<1> QED BY <1>1, <1>2, <1>3, <1>4, <1>5, <1>6 DEF Next, CallerNext, WaiterNext, WorkerNext, Died

\* What an operation of the plugin, once done, is never taken back by another.
LEMMA LifecycleGrows ==
  ASSUME TypeOK, [Next]_vars
  PROVE  /\ isInitialized => isInitialized'
         /\ objects \subseteq objects'
         /\ stopCh' \in {stopCh, stopCh + 1}
<1> USE DEF callers, lifecycle, channel, group
<1>1. ASSUME NEW t \in Caller, InitializeResources(t)
      PROVE  /\ isInitialized => isInitialized'
             /\ objects \subseteq objects'
             /\ stopCh' = stopCh
  BY <1>1 DEF InitializeResources, ScanFails, ConfigRejected, ConfigAccepted, TypeOK
<1>2. ASSUME NEW t \in Caller, Request(t) \/ Acquire(t) \/ Hold(t), ~InitializeResources(t)
      PROVE  /\ UNCHANGED <<isInitialized, objects>>
             /\ stopCh' \in {stopCh, stopCh + 1}
  <2>1. CASE Request(t)
    BY <1>2, <2>1 DEF Request, CallStartup, CallCleanup, Cancel, Configure
  <2>2. CASE Acquire(t)
    BY <2>2 DEF Acquire, StartupRefused, StartupLoadFails, StartupLoadsRules, BeginCleanup,
                ResetStopChannel, SignalStop
  <2>3. CASE Hold(t)
    BY <2>3 DEF Hold, StartupCancelledEarly, LaunchWorkers, StartupCancelled, AttachLimiter,
                StartupSucceeds, RollBack, RolledBack, CleanupDrained, CleanupAbandoned, SignalStop
  <2> QED BY <1>2, <2>1, <2>2, <2>3
<1>3. CASE WaiterNext
  BY <1>3 DEF WaiterNext, WaiterStarts, WaiterWakes
<1>4. CASE WorkerNext
  BY <1>4 DEF WorkerNext, WorkerListens, WorkerGivesUp, WorkerStops, Exit
<1>5. CASE Died \/ UNCHANGED vars
  BY <1>5 DEF Died, vars
<1> QED BY <1>1, <1>2, <1>3, <1>4, <1>5 DEF Next, CallerNext

-----------------------------------------------------------------------------
\* Every step of startup before its rollback runs on an open channel.
StartingOpen ==
  \A t \in Caller :
    pc[t] \in {"launch", "attach", "publish", "rollback"} => stopCh \notin closed

\* The wait of the cleanup in progress ends, for good, only without workers:
\* nothing can join the group while the cleanup holds s.mu.
StoppingDrains ==
  \A t \in Caller :
    pc[t] = "stopWait" =>
      /\ stops # 0
      /\ waiter[stops] \in {"released", "done"} => workers = {}

\* The current channel stays closed as long as somebody waits for the workers.
StoppingClosed ==
  \A t \in Caller : pc[t] \in {"rollbackWait", "stopWait"} => stopCh \in closed

GroupInv ==
  /\ StartingOpen /\ StoppingDrains /\ StoppingClosed
  /\ NoLeakedWorkers /\ StoppableWorkers /\ StoppingWorkersAwaited

LEMMA GroupInit == ASSUME Init PROVE GroupInv
BY DEF Init, GroupInv, StartingOpen, StoppingDrains, StoppingClosed, NoLeakedWorkers,
   StoppableWorkers, StoppingWorkersAwaited

\* The parts rest on each other: what is signalled is awaited because a startup
\* never launches workers on a closed channel.
LEMMA GroupStep ==
  ASSUME LifecycleInv, GroupInv, [Next]_vars
  PROVE  GroupInv'
<1> USE DEF LifecycleInv, Locked, Holding,
            callers, lifecycle, channel, group, GroupInv,
            StartingOpen, StoppingDrains, StoppingClosed, NoLeakedWorkers,
            StoppableWorkers, StoppingWorkersAwaited, TypeOK, Worker
<1>1. ASSUME NEW t \in Caller, CallStartup(t) PROVE GroupInv'
  BY <1>1, NoneAssumption DEF CallStartup, Goto
<1>2. ASSUME NEW t \in Caller, CallCleanup(t) PROVE GroupInv'
  BY <1>2, NoneAssumption DEF CallCleanup, Goto
<1>3. ASSUME NEW t \in Caller, Cancel(t) PROVE GroupInv'
  BY <1>3, NoneAssumption DEF Cancel
<1>4. ASSUME NEW t \in Caller, InitializeResources(t) PROVE GroupInv'
  BY <1>4, NoneAssumption DEF InitializeResources, ScanFails, ConfigRejected, ConfigAccepted
<1>5. ASSUME NEW t \in Caller, Configure(t) PROVE GroupInv'
  BY <1>5, NoneAssumption DEF Configure
<1>6. ASSUME NEW t \in Caller, StartupRefused(t) PROVE GroupInv'
  BY <1>6, NoneAssumption DEF StartupRefused, Return, Goto
<1>7. ASSUME NEW t \in Caller, StartupLoadFails(t) PROVE GroupInv'
  BY <1>7, NoneAssumption DEF StartupLoadFails, Return, Goto, ResetStopChannel
<1>8. ASSUME NEW t \in Caller, StartupLoadsRules(t) PROVE GroupInv'
  BY <1>8, NoneAssumption DEF StartupLoadsRules, Goto, ResetStopChannel
<1>9. ASSUME NEW t \in Caller, BeginCleanup(t) PROVE GroupInv'
  BY <1>9, NoneAssumption DEF BeginCleanup, Goto, SignalStop
<1>10. ASSUME NEW t \in Caller, StartupCancelledEarly(t) PROVE GroupInv'
  BY <1>10, NoneAssumption DEF StartupCancelledEarly, Return, Goto
<1>11. ASSUME NEW t \in Caller, LaunchWorkers(t) PROVE GroupInv'
  BY <1>11, NoneAssumption DEF LaunchWorkers, Goto, Launched
<1>12. ASSUME NEW t \in Caller, StartupCancelled(t) PROVE GroupInv'
  BY <1>12, NoneAssumption DEF StartupCancelled, Goto
<1>13. ASSUME NEW t \in Caller, AttachLimiter(t) PROVE GroupInv'
  BY <1>13, NoneAssumption DEF AttachLimiter, Goto
<1>14. ASSUME NEW t \in Caller, StartupSucceeds(t) PROVE GroupInv'
  BY <1>14, NoneAssumption DEF StartupSucceeds, Return, Goto
<1>15. ASSUME NEW t \in Caller, RollBack(t) PROVE GroupInv'
  BY <1>15, NoneAssumption DEF RollBack, Goto, SignalStop
<1>16. ASSUME NEW t \in Caller, RolledBack(t) PROVE GroupInv'
  BY <1>16, NoneAssumption DEF RolledBack, Return, Goto
<1>17. ASSUME NEW t \in Caller, CleanupDrained(t) PROVE GroupInv'
  BY <1>17, NoneAssumption DEF CleanupDrained, Return, Goto
<1>18. ASSUME NEW t \in Caller, CleanupAbandoned(t) PROVE GroupInv'
  BY <1>18, NoneAssumption DEF CleanupAbandoned, Return, Goto
<1>19. ASSUME NEW n \in 1 .. stops, WaiterStarts(n) PROVE GroupInv'
  BY <1>19 DEF WaiterStarts
<1>20. ASSUME NEW n \in 1 .. stops, WaiterWakes(n) PROVE GroupInv'
  BY <1>20 DEF WaiterWakes
<1>21. ASSUME NEW w \in workers, WorkerListens(w) PROVE GroupInv'
  BY <1>21 DEF WorkerListens
<1>22. ASSUME NEW w \in workers, WorkerGivesUp(w) PROVE GroupInv'
  BY <1>22 DEF WorkerGivesUp, Exit, Woken
<1>23. ASSUME NEW w \in workers, WorkerStops(w) PROVE GroupInv'
  BY <1>23 DEF WorkerStops, Exit, Woken
<1>24. CASE Died \/ UNCHANGED vars
  <2>1. UNCHANGED vars
    BY <1>24 DEF Died
  <2> QED BY <2>1 DEF vars
<1> QED
  BY <1>1, <1>2, <1>3, <1>4, <1>5, <1>6, <1>7, <1>8, <1>9, <1>10, <1>11, <1>12, <1>13,
     <1>14, <1>15, <1>16, <1>17, <1>18, <1>19, <1>20, <1>21, <1>22, <1>23, <1>24
  DEF Next, CallerNext, WaiterNext, WorkerNext, Request, Acquire, Hold

THEOREM GroupInvariant == Spec => []GroupInv
BY GroupInit, GroupStep, LifecycleInvariant, PTL DEF Spec

\* A dead process does nothing, and only a waiter's wakeup kills it.
LEMMA DeadIsDead == ASSUME panicked, [Next]_vars PROVE UNCHANGED vars
BY DEF Next, CallerNext, WaiterNext, WorkerNext, Request, Acquire, Hold, Goto, Return,
   CallStartup, CallCleanup, Cancel, InitializeResources, Configure, StartupRefused,
   StartupLoadFails, StartupLoadsRules, BeginCleanup, StartupCancelledEarly, LaunchWorkers,
   StartupCancelled, AttachLimiter, StartupSucceeds, RollBack, RolledBack, CleanupDrained,
   CleanupAbandoned, WaiterStarts, WaiterWakes, WorkerListens, WorkerGivesUp, WorkerStops, Died

LEMMA WakeupsPanic ==
  ASSUME ~panicked, panicked', panicked' \in BOOLEAN, [Next]_vars
  PROVE  \E n \in 1 .. stops : WaiterWakes(n)
<1> USE DEF callers, lifecycle, channel, group
<1>1. ASSUME NEW t \in Caller, Request(t) PROVE panicked' = panicked
  BY <1>1 DEF Request, CallStartup, CallCleanup, Cancel, InitializeResources, Configure
<1>2. ASSUME NEW t \in Caller, Acquire(t) PROVE panicked' = panicked
  BY <1>2 DEF Acquire, StartupRefused, StartupLoadFails, StartupLoadsRules, BeginCleanup
<1>3. ASSUME NEW t \in Caller, Hold(t) PROVE panicked' = panicked
  BY <1>3 DEF Hold, StartupCancelledEarly, LaunchWorkers, StartupCancelled, AttachLimiter,
              StartupSucceeds, RollBack, RolledBack, CleanupDrained, CleanupAbandoned
<1>4. ASSUME NEW n \in 1 .. stops, WaiterStarts(n) PROVE panicked' = panicked
  BY <1>4 DEF WaiterStarts
<1>5. ASSUME NEW w \in workers, WorkerListens(w) \/ WorkerGivesUp(w) \/ WorkerStops(w)
      PROVE  panicked' = panicked
  BY <1>5 DEF WorkerListens, WorkerGivesUp, WorkerStops, Exit
<1>6. UNCHANGED vars => panicked' = panicked
  BY DEF vars
<1> QED BY <1>1, <1>2, <1>3, <1>4, <1>5, <1>6 DEF Next, CallerNext, WaiterNext, WorkerNext, Died

LEMMA PanicStep ==
  ASSUME LifecycleInv, GroupInv, PanicNeedsAbandonedWait, [Next]_vars, TypeOK'
  PROVE  PanicNeedsAbandonedWait'
<1>1. CASE panicked
  BY <1>1, DeadIsDead DEF vars, callers, group, PanicNeedsAbandonedWait
<1>2. CASE ~panicked /\ panicked'
  <2>1. PICK n \in 1 .. stops : WaiterWakes(n)
    BY <1>2, WakeupsPanic DEF TypeOK
  <2>2. workers # {} /\ waiter[n] = "released" /\ UNCHANGED <<pc, stops, waiter>>
    BY <1>2, <2>1 DEF WaiterWakes, callers
  <2>3. ASSUME n = stops, NEW t \in Caller, pc[t] = "stopWait" PROVE FALSE
    BY <2>2, <2>3 DEF GroupInv, StoppingDrains
  <2> QED BY <2>2, <2>3 DEF PanicNeedsAbandonedWait
<1>3. CASE ~panicked'
  BY <1>3 DEF PanicNeedsAbandonedWait
<1> QED BY <1>1, <1>2, <1>3

-----------------------------------------------------------------------------
\* No startup gets to launch workers, let alone to succeed, on registries that
\* differ from s.conf: both change only under s.mu, which a startup holds from
\* the loading of its rules to its return.
THEOREM StartupIsConfigured == Spec => []StartedFromConfig
<1> USE DEF LifecycleInv, Locked, Holding, Initialized, callers, lifecycle, channel, group,
            StartedFromConfig
<1>1. Init => StartedFromConfig
  BY DEF Init
<1>2. LifecycleInv /\ StartedFromConfig /\ [Next]_vars => StartedFromConfig'
  <2> SUFFICES ASSUME LifecycleInv, StartedFromConfig, [Next]_vars PROVE StartedFromConfig'
    OBVIOUS
  <2> USE DEF TypeOK
  <2>1. ASSUME NEW t \in Caller, CallStartup(t) PROVE StartedFromConfig'
    BY <2>1, NoneAssumption DEF CallStartup, Goto
  <2>2. ASSUME NEW t \in Caller, CallCleanup(t) PROVE StartedFromConfig'
    BY <2>2, NoneAssumption DEF CallCleanup, Goto
  <2>3. ASSUME NEW t \in Caller, Cancel(t) PROVE StartedFromConfig'
    BY <2>3, NoneAssumption DEF Cancel
  <2>4. ASSUME NEW t \in Caller, InitializeResources(t) PROVE StartedFromConfig'
    BY <2>4, NoneAssumption DEF InitializeResources, ScanFails, ConfigRejected, ConfigAccepted
  <2>5. ASSUME NEW t \in Caller, Configure(t) PROVE StartedFromConfig'
    BY <2>5, NoneAssumption DEF Configure
  <2>6. ASSUME NEW t \in Caller, StartupRefused(t) PROVE StartedFromConfig'
    BY <2>6, NoneAssumption DEF StartupRefused, Return, Goto
  <2>7. ASSUME NEW t \in Caller, StartupLoadFails(t) PROVE StartedFromConfig'
    BY <2>7, NoneAssumption DEF StartupLoadFails, Return, Goto, ResetStopChannel
  <2>8. ASSUME NEW t \in Caller, StartupLoadsRules(t) PROVE StartedFromConfig'
    <3>1. conf \in Config /\ conf' = conf /\ rules' = LoadAll(rules, conf)
      BY <2>8, NoneAssumption DEF StartupLoadsRules
    <3>2. /\ rules'.flow = conf'.flow /\ rules'.circuitBreaker = conf'.circuitBreaker
          /\ conf'.system # {} => rules'.system = conf'.system
      BY <3>1, LoadAllLoads
    <3> QED BY <2>8, <3>2, NoneAssumption DEF StartupLoadsRules, Goto
  <2>9. ASSUME NEW t \in Caller, BeginCleanup(t) PROVE StartedFromConfig'
    BY <2>9, NoneAssumption DEF BeginCleanup, Goto, SignalStop
  <2>10. ASSUME NEW t \in Caller, StartupCancelledEarly(t) PROVE StartedFromConfig'
    BY <2>10, NoneAssumption DEF StartupCancelledEarly, Return, Goto
  <2>11. ASSUME NEW t \in Caller, LaunchWorkers(t) PROVE StartedFromConfig'
    BY <2>11, NoneAssumption DEF LaunchWorkers, Goto, Launched
  <2>12. ASSUME NEW t \in Caller, StartupCancelled(t) PROVE StartedFromConfig'
    BY <2>12, NoneAssumption DEF StartupCancelled, Goto
  <2>13. ASSUME NEW t \in Caller, AttachLimiter(t) PROVE StartedFromConfig'
    BY <2>13, NoneAssumption DEF AttachLimiter, Goto
  <2>14. ASSUME NEW t \in Caller, StartupSucceeds(t) PROVE StartedFromConfig'
    BY <2>14, NoneAssumption DEF StartupSucceeds, Return, Goto
  <2>15. ASSUME NEW t \in Caller, RollBack(t) PROVE StartedFromConfig'
    BY <2>15, NoneAssumption DEF RollBack, Goto, SignalStop
  <2>16. ASSUME NEW t \in Caller, RolledBack(t) PROVE StartedFromConfig'
    BY <2>16, NoneAssumption DEF RolledBack, Return, Goto
  <2>17. ASSUME NEW t \in Caller, CleanupDrained(t) PROVE StartedFromConfig'
    BY <2>17, NoneAssumption DEF CleanupDrained, Return, Goto
  <2>18. ASSUME NEW t \in Caller, CleanupAbandoned(t) PROVE StartedFromConfig'
    BY <2>18, NoneAssumption DEF CleanupAbandoned, Return, Goto
  <2>19. ASSUME NEW n \in 1 .. stops, WaiterStarts(n) PROVE StartedFromConfig'
    BY <2>19 DEF WaiterStarts
  <2>20. ASSUME NEW n \in 1 .. stops, WaiterWakes(n) PROVE StartedFromConfig'
    BY <2>20 DEF WaiterWakes
  <2>21. ASSUME NEW w \in workers, WorkerListens(w) PROVE StartedFromConfig'
    BY <2>21 DEF WorkerListens
  <2>22. ASSUME NEW w \in workers, WorkerGivesUp(w) PROVE StartedFromConfig'
    BY <2>22 DEF WorkerGivesUp, Exit, Woken
  <2>23. ASSUME NEW w \in workers, WorkerStops(w) PROVE StartedFromConfig'
    BY <2>23 DEF WorkerStops, Exit, Woken
  <2>24. CASE Died \/ UNCHANGED vars
    <3>1. UNCHANGED vars
      BY <2>24 DEF Died
    <3> QED BY <3>1 DEF vars
  <2> QED
    BY <2>1, <2>2, <2>3, <2>4, <2>5, <2>6, <2>7, <2>8, <2>9, <2>10, <2>11, <2>12, <2>13,
       <2>14, <2>15, <2>16, <2>17, <2>18, <2>19, <2>20, <2>21, <2>22, <2>23, <2>24
    DEF Next, CallerNext, WaiterNext, WorkerNext, Request, Acquire, Hold
<1> QED BY <1>1, <1>2, LifecycleInvariant, PTL DEF Spec

-----------------------------------------------------------------------------
\* Every variable keeps to its type: every stop channel in use is one that
\* was made, and only goroutines in the group listen.
THEOREM TypeCorrect == Spec => []TypeOK
BY LifecycleInvariant, PTL DEF LifecycleInv

\* A worker nobody told to stop belongs to a started plugin or to the startup
\* in progress (lifecycle_context.go:33-37).
THEOREM WorkersNeverLeak == Spec => []NoLeakedWorkers
BY GroupInvariant, PTL DEF GroupInv

\* A worker of an earlier startup can still be told to stop, or has been: a
\* restart never replaces a stop channel that is open.
THEOREM WorkersStayStoppable == Spec => []StoppableWorkers
BY GroupInvariant, PTL DEF GroupInv

\* Whoever closes a channel, or the waiter it leaves behind, waits until the
\* workers on it are gone.
THEOREM StoppingIsAwaited == Spec => []StoppingWorkersAwaited
BY GroupInvariant, PTL DEF GroupInv

\* A wait for workers under s.mu never has a worker to wait for that has not been
\* told to stop.
THEOREM AwaitedAreSignalled == Spec => []AwaitedWorkersSignalled
<1>1. GroupInv => AwaitedWorkersSignalled
  BY DEF GroupInv, StoppingClosed, StoppableWorkers, AwaitedWorkersSignalled
<1> QED BY <1>1, GroupInvariant, PTL

\* A cleanup that reports success has no worker left, of any startup.
THEOREM DrainedCleanupStopsAll == Spec => []DrainedMeansStopped
<1>1. GroupInv => DrainedMeansStopped
  BY DEF GroupInv, StoppingDrains, DrainedMeansStopped
<1> QED BY <1>1, GroupInvariant, PTL

\* Without a cleanup that gave up waiting, the wait group is never reused too
\* early and the process does not panic.
THEOREM OnlyAbandonedWaitsPanic == Spec => []PanicNeedsAbandonedWait
<1>1. Init => PanicNeedsAbandonedWait
  BY DEF Init, PanicNeedsAbandonedWait
<1> QED BY <1>1, PanicStep, LifecycleInvariant, GroupInvariant, TypeCorrect, PTL DEF Spec

\* A limiter is attached to an initialized plugin, and nothing takes that back.
LimiterAttachedInv == limiter => isInitialized

LEMMA LimiterStep ==
  ASSUME LifecycleInv, LimiterAttachedInv, [Next]_vars
  PROVE  LimiterAttachedInv'
BY LimiterAttached, LifecycleGrows DEF LimiterAttachedInv, LifecycleInv

LEMMA LimiterInitialized == LifecycleInv /\ LimiterAttachedInv => LimiterUsable
BY DEF LifecycleInv, Initialized, LimiterAttachedInv, LimiterUsable

\* The limiter attached to the app never finds the plugin uninitialized.
THEOREM LimiterStaysUsable == Spec => []LimiterUsable
<1>1. Init => LimiterAttachedInv
  BY DEF Init, LimiterAttachedInv
<1> QED BY <1>1, LimiterStep, LimiterInitialized, LifecycleInvariant, PTL DEF Spec

\* Every step of the plugin is one of the abstract StopGroup, or changes nothing
\* it can see.
LEMMA StopGroupStep ==
  ASSUME LifecycleInv, GroupInv, [Next]_vars
  PROVE  [Group!Next]_(Group!vars)
<1> USE DEF callers, lifecycle, channel, group, Group!vars, Group!Next
<1>1. ASSUME NEW t \in Caller,
             \/ CallStartup(t) \/ CallCleanup(t) \/ Cancel(t)
             \/ InitializeResources(t) \/ Configure(t) \/ StartupRefused(t)
             \/ StartupCancelledEarly(t) \/ StartupCancelled(t) \/ AttachLimiter(t)
             \/ StartupSucceeds(t) \/ RolledBack(t) \/ CleanupDrained(t)
             \/ CleanupAbandoned(t)
      PROVE  UNCHANGED Group!vars
  BY <1>1 DEF CallStartup, CallCleanup, Cancel, InitializeResources, Configure,
     StartupRefused, StartupCancelledEarly, StartupCancelled, AttachLimiter,
     StartupSucceeds, RolledBack, CleanupDrained, CleanupAbandoned
<1>2. ASSUME NEW t \in Caller, StartupLoadFails(t) \/ StartupLoadsRules(t)
      PROVE  Group!Renew \/ UNCHANGED Group!vars
  BY <1>2 DEF StartupLoadFails, StartupLoadsRules, ResetStopChannel, Group!Renew
<1>3. ASSUME NEW t \in Caller, LaunchWorkers(t) PROVE Group!Join
  BY <1>3 DEF LaunchWorkers, Goto, Launched, LifecycleInv, TypeOK, Worker, Kind,
              GroupInv, StartingOpen, Group!Join
<1>4. ASSUME NEW t \in Caller, RollBack(t) \/ BeginCleanup(t) PROVE Group!Signal
  BY <1>4 DEF RollBack, BeginCleanup, SignalStop, Group!Signal
<1>5. ASSUME NEW n \in 1 .. stops, WaiterStarts(n) \/ WaiterWakes(n)
      PROVE  UNCHANGED Group!vars
  BY <1>5 DEF WaiterStarts, WaiterWakes
<1>6. ASSUME NEW w \in workers, WorkerListens(w) PROVE UNCHANGED Group!vars
  BY <1>6 DEF WorkerListens
<1>7. ASSUME NEW w \in workers, WorkerGivesUp(w) \/ WorkerStops(w) PROVE Group!Leave(w)
  BY <1>7 DEF WorkerGivesUp, WorkerStops, Exit, Group!Leave
<1>8. CASE Died \/ UNCHANGED vars
  BY <1>8 DEF Died, vars
<1> QED
  BY <1>1, <1>2, <1>3, <1>4, <1>5, <1>6, <1>7, <1>8
  DEF Next, CallerNext, WaiterNext, WorkerNext, Request, Acquire, Hold

LEMMA StopGroupInit == Init => Group!Init
BY DEF Init, Group!Init

\* The plugin's stop channel and wait group are the abstract StopGroup.
THEOREM ImplementsStopGroup == Spec => StopGroupSpec
BY StopGroupInit, StopGroupStep, LifecycleInvariant, GroupInvariant, PTL
DEF Spec, StopGroupSpec, Group!Spec
=============================================================================
