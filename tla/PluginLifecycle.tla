--------------------------- MODULE PluginLifecycle ---------------------------
(***************************************************************************)
(* The lifecycle of the Sentinel plugin: InitializeResources, Configure,   *)
(* StartupTasks and CleanupTasks with their contexts (lifecycle.go,        *)
(* lifecycle_context.go), called in any order by concurrent callers, the   *)
(* metrics and dashboard goroutines a startup launches, and the goroutine  *)
(* in which a cleanup waits for them.                                      *)
(*                                                                         *)
(* Every operation holds s.mu for writing from its first statement to its  *)
(* return. InitializeResources and Configure never block while they hold   *)
(* it and are one action each; startup and cleanup are cut where another   *)
(* goroutine's step can be seen: at the checks of ctx and at the waits.    *)
(***************************************************************************)
EXTENDS SentinelConfig, FiniteSets

CONSTANTS
  Caller,       \* Goroutines of the application that call the plugin.
  None,         \* Not a caller, not a configuration.
  Offered,      \* Configurations that can be scanned or passed to Configure.
  MaxStarts,    \* Bound on the startups that get as far as launching workers.
  MaxStops      \* Bound on the cleanups.

ASSUME OfferedAssumption == Offered \subseteq Config
ASSUME NoneAssumption == None \notin Caller \cup Config
ASSUME BoundsAssumption == MaxStarts \in Nat /\ MaxStops \in Nat

VARIABLES
  mu,                   \* Holder of s.mu, or None.
  pc,                   \* Where each caller is, see Waiting and Holding.
  ctx,                  \* Context of each caller's call, see Context.
  isInitialized, sentinelInitialized,
  core,                 \* sentinelInitOnce and sentinelInitErr.
  conf,                 \* s.conf.
  objects,              \* Which of metricsCollector, dashboardServer exist.
  rules,                \* The rule registries of the Sentinel core.
  limiter,              \* The app uses the plugin as its rate limiter.
  active,               \* History: a startup succeeded, no stop since.
  stopCh, closed,       \* The current stop channel; the closed ones.
  starts,               \* How many startups launched workers.
  workers,              \* Goroutines counted by s.wg.
  listening,            \* Those that reached their wait for the channel.
  stops,                \* How many cleanups began.
  waiter,               \* State of the goroutine each of them spawned.
  panicked              \* The process died of a panic.

lifecycle == <<isInitialized, sentinelInitialized, core, conf, objects>>
channel == <<stopCh, closed>>
group == <<starts, workers, listening, stops, waiter>>
callers == <<mu, pc, ctx>>
vars == <<callers, lifecycle, rules, limiter, active, channel, group, panicked>>

Kind == {"metrics", "dashboard"}

\* A background context, one that may still be cancelled, a cancelled one.
Context == {"background", "live", "done"}

Waiting == {"idle", "startup", "cleanup"}
Holding == {"launch", "attach", "publish", "rollback", "rollbackWait", "stopWait"}

\* "parked" is inside wg.Wait; "released" has been woken but has not run yet.
WaiterState == {"spawned", "parked", "released", "done"}

Worker == [kind : Kind, start : 1 .. starts, channel : 1 .. stopCh]

TypeOK ==
  /\ mu \in Caller \cup {None}
  /\ pc \in [Caller -> Waiting \cup Holding]
  /\ ctx \in [Caller -> Context]
  /\ isInitialized \in BOOLEAN /\ sentinelInitialized \in BOOLEAN
  /\ core \in {"never", "ok", "failed"}
  /\ conf \in Config \cup {None}
  /\ objects \subseteq Kind
  /\ rules \in Registries
  /\ limiter \in BOOLEAN /\ active \in BOOLEAN /\ panicked \in BOOLEAN
  /\ stopCh \in Nat \ {0} /\ closed \subseteq 1 .. stopCh
  /\ starts \in Nat
  /\ workers \subseteq Worker /\ listening \subseteq workers
  /\ stops \in Nat
  /\ waiter \in [1 .. stops -> WaiterState]

Init ==
  /\ mu = None
  /\ pc = [t \in Caller |-> "idle"]
  /\ ctx = [t \in Caller |-> "background"]
  /\ isInitialized = FALSE /\ sentinelInitialized = FALSE
  /\ core = "never"
  /\ conf = None
  /\ objects = {}
  /\ rules = NoRules
  /\ limiter = FALSE /\ active = FALSE /\ panicked = FALSE
  /\ stopCh = 1 /\ closed = {}
  /\ starts = 0 /\ workers = {} /\ listening = {}
  /\ stops = 0 /\ waiter = [n \in {} |-> "done"]

-----------------------------------------------------------------------------
(***************************************************************************)
(* The stop channel and the wait group.                                    *)
(***************************************************************************)
\* Faulty: the channel is replaced whether or not it was closed.
ResetStopChannelAlways == stopCh' = stopCh + 1 /\ UNCHANGED closed

\* Faulty: a closed channel is kept.
ResetStopChannelNever == UNCHANGED channel

\* resetStopChannel
ResetStopChannel ==
  /\ stopCh' = IF stopCh \in closed THEN stopCh + 1 ELSE stopCh
  /\ UNCHANGED closed

\* signalStop: closing a closed channel is the case it avoids.
SignalStop ==
  /\ closed' = closed \cup {stopCh}
  /\ UNCHANGED stopCh

\* What the waiters become when the goroutines `left` are the ones that
\* remain: the last wg.Done wakes everyone inside wg.Wait.
Woken(left) ==
  IF left # {} THEN waiter
  ELSE [n \in 1 .. stops |-> IF waiter[n] = "parked" THEN "released" ELSE waiter[n]]

\* wg.Add(1); go Start(&wg, stopCh), for each object there is.
Launched ==
  {[kind |-> k, start |-> starts + 1, channel |-> stopCh] : k \in objects}

Goto(t, from, to) == ~panicked /\ pc[t] = from /\ pc' = [pc EXCEPT ![t] = to]

Cancelled(t) == ctx[t] = "done"

InFlight(phases) == Cardinality({t \in Caller : pc[t] \in phases})

\* The deferred unlock and the return; the call's context ends with it.
Return(t, from) ==
  /\ Goto(t, from, "idle")
  /\ mu' = None
  /\ ctx' = [ctx EXCEPT ![t] = "background"]

-----------------------------------------------------------------------------
(***************************************************************************)
(* Callers.                                                                *)
(***************************************************************************)
\* A caller calls StartupTasksContext, or StartupTasks (a background ctx).
CallStartup(t) ==
  /\ starts + InFlight({"startup", "launch"}) < MaxStarts
  /\ Goto(t, "idle", "startup")
  /\ \E c \in Context : ctx' = [ctx EXCEPT ![t] = c]
  /\ UNCHANGED <<mu, lifecycle, rules, limiter, active, channel, group, panicked>>

\* ... or CleanupTasksContext, CleanupTasks, Shutdown.
CallCleanup(t) ==
  /\ stops + InFlight({"cleanup"}) < MaxStops
  /\ Goto(t, "idle", "cleanup")
  /\ \E c \in Context : ctx' = [ctx EXCEPT ![t] = c]
  /\ UNCHANGED <<mu, lifecycle, rules, limiter, active, channel, group, panicked>>

\* Its context is cancelled, or runs into its deadline.
Cancel(t) ==
  /\ ~panicked /\ pc[t] # "idle" /\ ctx[t] = "live"
  /\ ctx' = [ctx EXCEPT ![t] = "done"]
  /\ UNCHANGED <<mu, pc, lifecycle, rules, limiter, active, channel, group, panicked>>

-----------------------------------------------------------------------------
(***************************************************************************)
(* InitializeResources, without the failure of the base plugin, which      *)
(* changes nothing.                                                        *)
(***************************************************************************)
\* Faulty: a failed re-initialization leaves the plugin uninitialized.
ScanFailsAndResets ==
  /\ conf' = EmptyConfig
  /\ isInitialized' = FALSE
  /\ UNCHANGED <<sentinelInitialized, core, objects>>

\* Scan fails: s.conf has been replaced already.
ScanFails ==
  /\ conf' = EmptyConfig
  /\ UNCHANGED <<isInitialized, sentinelInitialized, core, objects>>

\* validateAndSetDefaults has filled in the defaults before it rejects.
ConfigRejected(c) ==
  /\ ~Valid(WithDefaults(c))
  /\ conf' = WithDefaults(c)
  /\ UNCHANGED <<isInitialized, sentinelInitialized, core, objects>>

\* The first InitWithConfig decides for the life of the process.
CoreOutcome == IF core = "never" THEN {"ok", "failed"} ELSE {core}

\* Faulty: the objects that are not enabled any more are dropped.
ConfigAcceptedAfresh(c) ==
  /\ Valid(WithDefaults(c))
  /\ conf' = WithDefaults(c)
  /\ core' \in CoreOutcome
  /\ IF core' = "failed"
       THEN UNCHANGED <<isInitialized, sentinelInitialized, objects>>
       ELSE /\ sentinelInitialized' = TRUE
            /\ objects' = (IF c.metrics THEN {"metrics"} ELSE {})
                        \cup (IF c.dashboard THEN {"dashboard"} ELSE {})
            /\ isInitialized' = TRUE

ConfigAccepted(c) ==
  /\ Valid(WithDefaults(c))
  /\ conf' = WithDefaults(c)
  /\ core' \in CoreOutcome
  /\ IF core' = "failed"
       THEN UNCHANGED <<isInitialized, sentinelInitialized, objects>>
       ELSE /\ sentinelInitialized' = TRUE
            /\ objects' = objects \cup (IF c.metrics THEN {"metrics"} ELSE {})
                                  \cup (IF c.dashboard THEN {"dashboard"} ELSE {})
            /\ isInitialized' = TRUE

InitializeResources(t) ==
  /\ ~panicked /\ pc[t] = "idle" /\ mu = None
  /\ ScanFails \/ \E c \in Offered : ConfigRejected(c) \/ ConfigAccepted(c)
  /\ UNCHANGED <<callers, rules, limiter, active, channel, group, panicked>>

(***************************************************************************)
(* Configure, also OnConfigUpdate. No defaults are filled in before the    *)
(* validation, and conf stays replaced when a loader fails.                *)
(***************************************************************************)
Configure(t) ==
  /\ ~panicked /\ pc[t] = "idle" /\ mu = None
  /\ \E c \in Offered :
       /\ Valid(c)
       /\ conf' = c
       /\ rules' \in IF isInitialized
                       THEN LoadedBeforeFailure(rules, c) \cup {LoadAll(rules, c)}
                       ELSE {rules}
  /\ UNCHANGED <<callers, isInitialized, sentinelInitialized, core, objects,
                 limiter, active, channel, group, panicked>>

-----------------------------------------------------------------------------
(***************************************************************************)
(* startupTasksContext.                                                    *)
(***************************************************************************)
\* Refused: ctx is done already, or the plugin is not initialized.
StartupRefused(t) ==
  /\ mu = None
  /\ Cancelled(t) \/ ~isInitialized
  /\ Return(t, "startup")
  /\ UNCHANGED <<lifecycle, rules, limiter, active, channel, group, panicked>>

\* A loader fails: startup returns before its rollback is in place.
StartupLoadFails(t) ==
  /\ mu = None
  /\ ~Cancelled(t) /\ isInitialized
  /\ ResetStopChannel
  /\ rules' \in LoadedBeforeFailure(rules, conf)
  /\ Return(t, "startup")
  /\ UNCHANGED <<lifecycle, limiter, active, group, panicked>>

StartupLoadsRules(t) ==
  /\ mu = None
  /\ ~Cancelled(t) /\ isInitialized
  /\ ResetStopChannel
  /\ rules' = LoadAll(rules, conf)
  /\ Goto(t, "startup", "launch")
  /\ mu' = t
  /\ UNCHANGED <<ctx, lifecycle, limiter, active, group, panicked>>

\* Cancelled while it loaded the rules: nothing to roll back yet.
StartupCancelledEarly(t) ==
  /\ Cancelled(t)
  /\ Return(t, "launch")
  /\ UNCHANGED <<lifecycle, rules, limiter, active, channel, group, panicked>>

LaunchWorkers(t) ==
  /\ ~Cancelled(t)
  /\ Goto(t, "launch", "attach")
  /\ starts' = starts + 1
  /\ workers' = workers \cup Launched
  /\ UNCHANGED <<mu, ctx, lifecycle, rules, limiter, active, channel,
                 listening, stops, waiter, panicked>>

\* Faulty: the rollback does not cover the first check.
StartupCancelledUnrolled(t) ==
  /\ Cancelled(t)
  /\ Return(t, "attach")
  /\ UNCHANGED <<lifecycle, rules, limiter, active, channel, group, panicked>>

\* Cancelled at one of the two checks after the workers were launched.
StartupCancelled(t) ==
  /\ Cancelled(t)
  /\ Goto(t, "attach", "rollback") \/ Goto(t, "publish", "rollback")
  /\ UNCHANGED <<mu, ctx, lifecycle, rules, limiter, active, channel, group, panicked>>

\* Without an app, or when it refuses (a warning only), the plugin is not
\* attached.
AttachLimiter(t) ==
  /\ ~Cancelled(t)
  /\ Goto(t, "attach", "publish")
  /\ limiter' \in {limiter, TRUE}
  /\ UNCHANGED <<mu, ctx, lifecycle, rules, active, channel, group, panicked>>

\* The shared and private resources are published (a failure is a warning
\* only) and startup returns nil.
StartupSucceeds(t) ==
  /\ ~Cancelled(t)
  /\ Return(t, "publish")
  /\ active' = TRUE
  /\ UNCHANGED <<lifecycle, rules, limiter, channel, group, panicked>>

\* Faulty: the rollback does not wait for the workers it stops.
RollBackUnawaited(t) ==
  /\ Return(t, "rollback")
  /\ SignalStop
  /\ active' = FALSE
  /\ UNCHANGED <<lifecycle, rules, limiter, group, panicked>>

\* Faulty: it waits for workers it has not told to stop.
RollBackUnsignalled(t) ==
  /\ Goto(t, "rollback", "rollbackWait")
  /\ active' = FALSE
  /\ UNCHANGED <<mu, ctx, lifecycle, rules, limiter, channel, group, panicked>>

\* The deferred rollback: signalStop, then wg.Wait with no bound.
RollBack(t) ==
  /\ Goto(t, "rollback", "rollbackWait")
  /\ SignalStop
  /\ active' = FALSE
  /\ UNCHANGED <<mu, ctx, lifecycle, rules, limiter, group, panicked>>

RolledBack(t) ==
  /\ workers = {}
  /\ Return(t, "rollbackWait")
  /\ UNCHANGED <<lifecycle, rules, limiter, active, channel, group, panicked>>

-----------------------------------------------------------------------------
(***************************************************************************)
(* cleanupTasksContext.                                                    *)
(***************************************************************************)
\* Faulty: s.mu is released before the wait.
BeginCleanupUnlocked(t) ==
  /\ mu = None /\ UNCHANGED mu
  /\ Goto(t, "cleanup", "stopWait")
  /\ SignalStop
  /\ active' = FALSE
  /\ stops' = stops + 1
  /\ waiter' = [n \in 1 .. stops + 1 |-> IF n \in 1 .. stops THEN waiter[n] ELSE "spawned"]
  /\ UNCHANGED <<ctx, lifecycle, rules, limiter, starts, workers, listening, panicked>>

BeginCleanup(t) ==
  /\ mu = None /\ mu' = t
  /\ Goto(t, "cleanup", "stopWait")
  /\ SignalStop
  /\ active' = FALSE
  /\ stops' = stops + 1
  /\ waiter' = [n \in 1 .. stops + 1 |-> IF n \in 1 .. stops THEN waiter[n] ELSE "spawned"]
  /\ UNCHANGED <<ctx, lifecycle, rules, limiter, starts, workers, listening, panicked>>

\* The wait is over: done is closed, whether or not ctx is done too.
CleanupDrained(t) ==
  /\ Return(t, "stopWait")
  /\ waiter[stops] = "done"
  /\ rules' = NoRules
  /\ UNCHANGED <<lifecycle, limiter, active, channel, group, panicked>>

\* Faulty: the select has lost its ctx.Done case.
CleanupIgnoresContext(t) ==
  /\ Return(t, "stopWait")
  /\ Cancelled(t) /\ waiter[stops] = "done"
  /\ rules' = NoRules
  /\ UNCHANGED <<lifecycle, limiter, active, channel, group, panicked>>

\* The wait is abandoned: ctx is done and done is not closed. The waiter stays.
CleanupAbandoned(t) ==
  /\ Return(t, "stopWait")
  /\ Cancelled(t) /\ waiter[stops] # "done"
  /\ rules' = NoRules
  /\ UNCHANGED <<lifecycle, limiter, active, channel, group, panicked>>

(***************************************************************************)
(* The goroutine that waits for the workers on behalf of a cleanup: wg.Wait *)
(* panics when the group is in use again by the time it runs.              *)
(***************************************************************************)
WaiterStarts(n) ==
  /\ ~panicked /\ n \in 1 .. stops /\ waiter[n] = "spawned"
  /\ waiter' = [waiter EXCEPT ![n] = IF workers = {} THEN "done" ELSE "parked"]
  /\ UNCHANGED <<callers, lifecycle, rules, limiter, active, channel, starts,
                 workers, listening, stops, panicked>>

WaiterWakes(n) ==
  /\ ~panicked /\ n \in 1 .. stops /\ waiter[n] = "released"
  /\ IF workers = {}
       THEN waiter' = [waiter EXCEPT ![n] = "done"] /\ UNCHANGED panicked
       ELSE panicked' = TRUE /\ UNCHANGED waiter
  /\ UNCHANGED <<callers, lifecycle, rules, limiter, active, channel, starts,
                 workers, listening, stops>>

-----------------------------------------------------------------------------
(***************************************************************************)
(* The workers: MetricsCollector.Start and DashboardServer.Start, as far as *)
(* the group sees them.                                                    *)
(***************************************************************************)
Exit(w) ==
  /\ workers' = workers \ {w}
  /\ listening' = listening \ {w}
  /\ waiter' = Woken(workers \ {w})
  /\ UNCHANGED <<callers, lifecycle, rules, limiter, active, channel, starts,
                 stops, panicked>>

\* Faulty: wg.Done is not deferred to the end of the worker.
WorkerListensDone(w) ==
  /\ ~panicked /\ w \in workers \ listening
  /\ listening' = listening \cup {w}
  /\ workers' = workers \ {w}
  /\ waiter' = Woken(workers')
  /\ UNCHANGED <<callers, lifecycle, rules, limiter, active, channel, starts, stops, panicked>>

\* The collector is enabled, the dashboard's port is bound.
WorkerListens(w) ==
  /\ ~panicked /\ w \in workers \ listening
  /\ listening' = listening \cup {w}
  /\ UNCHANGED <<callers, lifecycle, rules, limiter, active, channel, starts,
                 workers, stops, waiter, panicked>>

\* It is disabled, the port is taken.
WorkerGivesUp(w) == ~panicked /\ w \in workers \ listening /\ Exit(w)

\* Faulty: the worker looks at s.stopCh instead of the channel it was given.
WorkerStopsOnCurrent(w) == ~panicked /\ w \in listening /\ stopCh \in closed /\ Exit(w)

\* The channel the worker was launched with is closed.
WorkerStops(w) == ~panicked /\ w \in listening /\ w.channel \in closed /\ Exit(w)

Died == panicked /\ UNCHANGED vars

-----------------------------------------------------------------------------
\* Steps of a caller that holds s.mu, and those that acquire it.
Hold(t) ==
  \/ StartupCancelledEarly(t) \/ LaunchWorkers(t) \/ StartupCancelled(t)
  \/ AttachLimiter(t) \/ StartupSucceeds(t) \/ RollBack(t) \/ RolledBack(t)
  \/ CleanupDrained(t) \/ CleanupAbandoned(t)

Acquire(t) ==
  \/ StartupRefused(t) \/ StartupLoadFails(t) \/ StartupLoadsRules(t)
  \/ BeginCleanup(t)

Request(t) ==
  \/ CallStartup(t) \/ CallCleanup(t) \/ Cancel(t)
  \/ InitializeResources(t) \/ Configure(t)

CallerNext == \E t \in Caller : Request(t) \/ Acquire(t) \/ Hold(t)

WaiterNext == \E n \in 1 .. stops : WaiterStarts(n) \/ WaiterWakes(n)

WorkerNext == \E w \in workers : WorkerListens(w) \/ WorkerGivesUp(w) \/ WorkerStops(w)

Next == CallerNext \/ WaiterNext \/ WorkerNext \/ Died

Spec == Init /\ [][Next]_vars

(***************************************************************************)
(* A goroutine that can run does (weak fairness). sync.RWMutex lets every  *)
(* caller that waits for it in at last: strong fairness.                   *)
(***************************************************************************)
CallersRun == \A t \in Caller : WF_vars(Hold(t)) /\ SF_vars(Acquire(t))

AllWorkers ==
  [kind : Kind, start : 1 .. MaxStarts, channel : 1 .. MaxStarts + MaxStops + 1]

WorkersRun ==
  /\ \A w \in AllWorkers :
       WF_vars(WorkerListens(w) \/ WorkerGivesUp(w)) /\ WF_vars(WorkerStops(w))
  /\ \A n \in 1 .. MaxStops : WF_vars(WaiterStarts(n) \/ WaiterWakes(n))

FairSpec == Spec /\ CallersRun

-----------------------------------------------------------------------------
(***************************************************************************)
(* Properties.                                                             *)
(***************************************************************************)
\* "A cancelled startup never leaks workers" (lifecycle_context.go:36): a
\* worker that nobody told to stop belongs to a plugin that is started, or to
\* the startup in progress.
NoLeakedWorkers ==
  \A w \in workers :
    \/ w.channel \in closed
    \/ active
    \/ \E t \in Caller : pc[t] \in {"attach", "publish", "rollback"}

\* resetStopChannel replaces the channel only when it is closed: a worker of
\* an earlier startup can always be told to stop, or has been.
StoppableWorkers == \A w \in workers : w.channel = stopCh \/ w.channel \in closed

\* A worker that was told to stop is waited for, by the rollback that told it
\* or by the waiter of a cleanup, which outlives a cleanup that gives up.
StoppingWorkersAwaited ==
  (\E w \in workers : w.channel \in closed)
    => \/ \E t \in Caller : pc[t] = "rollbackWait"
       \/ \E n \in 1 .. stops : waiter[n] \in {"spawned", "parked"}

\* Both waits for workers are made with s.mu held, the one of a rollback without
\* a bound (lifecycle_context.go:75): there is no worker they wait for, of any
\* startup, that nobody has told to stop, and nobody else could tell it.
AwaitedWorkersSignalled ==
  \A t \in Caller :
    pc[t] \in {"rollbackWait", "stopWait"} => \A w \in workers : w.channel \in closed

\* When the wait of a cleanup is over there is no worker left, of this startup
\* or of an earlier one: a cleanup that returns nil has stopped everything.
DrainedMeansStopped ==
  \A t \in Caller : pc[t] = "stopWait" /\ waiter[stops] = "done" => workers = {}

\* wg.Wait finds the group in use again (and panics) only in the waiter of a
\* cleanup that gave up: with cleanups that wait to the end it never happens.
PanicNeedsAbandonedWait ==
  panicked => \E n \in 1 .. stops :
                /\ waiter[n] = "released"
                /\ n = stops => \A t \in Caller : pc[t] # "stopWait"

\* Once the rules are loaded, and until startup returns, the registries hold
\* what s.conf says: no startup succeeds on a partly loaded configuration.
StartedFromConfig ==
  \A t \in Caller :
    pc[t] \in {"launch", "attach", "publish"} =>
      /\ rules.flow = conf.flow /\ rules.circuitBreaker = conf.circuitBreaker
      /\ conf.system # {} => rules.system = conf.system

\* The app's rate limiter fails every request while sentinelInitialized is
\* FALSE: once attached it stays usable through any later call, failed
\* re-initializations included.
LimiterUsable ==
  limiter => isInitialized /\ sentinelInitialized /\ core = "ok" /\ conf # None

\* Stop channel and wait group together are the abstract StopGroup.
Group == INSTANCE StopGroup WITH generation <- stopCh, signalled <- closed,
                                 Worker <- [kind : Kind, start : Nat, channel : Nat]

StopGroupSpec == Group!Spec

\* "The wait for workers to exit is bounded by ctx" (lifecycle_context.go:132):
\* a cleanup whose context ends returns with the rules cleared, even if no
\* worker ever runs again.
CancelledCleanupReturns ==
  \A t \in Caller :
    pc[t] = "stopWait" /\ Cancelled(t) ~> (pc[t] = "idle" /\ rules = NoRules) \/ panicked

\* If the workers run no caller waits for ever, for s.mu or for the workers.
EveryCallReturns ==
  WorkersRun => \A t \in Caller : pc[t] # "idle" ~> pc[t] = "idle" \/ panicked

\* A worker whose channel is closed exits, whatever restarts follow.
SignalledWorkersExit ==
  WorkersRun => \A w \in AllWorkers :
    w \in workers /\ w.channel \in closed ~> w \notin workers \/ panicked

\* "The current runtime validates ... the fields that are actually wired into
\* startup and rule loading" (VALIDATION.md:13): what a startup loads has
\* passed validation.
EnforcedValidation == \A t \in Caller : pc[t] = "launch" => Valid(conf)
=============================================================================
