# A formal model of lynx-sentinel

The directory holds TLA+ modules that model the Sentinel plugin of the Lynx
framework (`src/`), configurations with which TLC checks them on small
instances, and proofs, checked by TLAPS, of the properties that matter most for
every instance. It is read beside the Go code: every definition names the
function it stands for, and `PROJECT.json` gives its lines.

    tlc -config lifecycle.cfg MCPluginLifecycle.tla
    tlapm PluginLifecycle_proofs.tla

## 1. The system

lynx-sentinel wraps `github.com/alibaba/sentinel-golang` (the *core*) as a
plugin. The framework initializes the plugin, starts it, reconfigures it and
stops it; the application sends its requests through it; everybody else uses
package-level functions that look the plugin up first.

| Component | State | Operations | Touches |
|---|---|---|---|
| Plugin lifecycle (`lifecycle.go`, `lifecycle_context.go`) | `s.mu`, `isInitialized`, `sentinelInitialized`, `s.conf`, `stopCh`, `wg`, the collector and the dashboard objects | `InitializeResources`, `Configure`/`OnConfigUpdate`, `StartupTasks[Context]`, `CleanupTasks[Context]`/`Shutdown`, `CheckHealth` | starts and stops the workers, loads and clears the rules, attaches the rate limiter |
| Configuration and loading (`types.go`, `lifecycle.go`, `rules.go`) | the configuration; the three rule registries of the core | defaults, validation, `loadFlowRules`, `loadCircuitBreakerRules`, `loadSystemRules`, `reloadRules` | the core |
| Rule management (`rules.go`, `plug.go`) | the registries | `AddFlowRule`, `RemoveFlowRule`, the same for breakers, `ReloadRules`, getters | the core, without `s.mu` |
| Dashboard (`dashboard.go`) | `ds.server`, `ds.running`, the listener, the start times | `Start` (a worker), the goroutine that serves, `IsRunning`, HTTP handlers | is counted by `s.wg`, reads the collector |
| Request path (`api.go`, `middleware.go`) | the entry of each request | `Entry`, `Execute`, `CheckFlow`, HTTP and gRPC middleware, `ProtectFunction` | reads `s.sentinelInitialized` and the collector, opens and exits entries of the core |
| Metrics collector (`metrics.go`) | `mc.mu`, `enabled`, `interval`, counters and response times per resource | `Start` (a worker), `Record*`, `Reset`, `SetEnabled`, `SetInterval`, summaries | is counted by `s.wg` |
| Package-level API (`plug.go`) | none | `GetSentinel`, `WaitForReady`, accessors, `ReloadRules`, `Shutdown`, delegates | the plugin manager or the factory; `s.mu`, `s.stopCh`, the collector and the dashboard without a lock |
| Registration, Lynx access (`plugin_meta.go`, `lynx_compat.go`) | none | constructor, constants | the framework |
| Schema (`conf/`) | none | generated protobuf code | unused by the plugin |

What is hard in it, and hard to test:

* **Waiting under a lock.** Startup and cleanup hold `s.mu` while they wait for
  goroutines. A rollback waits without a bound, a cleanup until its context
  ends.
* **One wait group, many generations.** Workers of successive startups share
  `s.wg`; a cleanup that gives up leaves a goroutine inside `Wait`.
* **A channel that is closed once and replaced.** Replaced too early it strands
  the old workers, kept too long it stops the new ones.
* **Shared registries.** Configuring, starting up and cleaning up write the
  core's rules under `s.mu`; reloading, adding and removing do so without it,
  the last two by reading, computing and writing back.
* **Stale objects.** Requests keep the collector they have read, the dashboard's
  goroutine reads `ds.server` whenever it happens to run, and a failed
  re-initialization leaves parts of itself behind.
* **Unlocked reads.** `WaitForReady` and the accessors read what startups,
  cleanups and re-initializations write under `s.mu`; recorders read `enabled`
  before they take `mc.mu`.
* **Paths that skip steps.** Cancelled startups, loaders that fail, handlers
  that panic.

The properties that make each component correct are listed with the runs in
section 4; `PROJECT.json` lists the hazards by line, with the properties that
would catch each of them.

## 2. Modules

| Module | Models | Uses |
|---|---|---|
| `SentinelConfig` | the configuration, validation, defaults, loaders, as operators | |
| `PluginLifecycle` | the lifecycle, its callers, the workers as `s.wg` sees them, the waiters of cleanups | `SentinelConfig` |
| `StopGroup` | abstract: generations of workers and the signal that stops them | |
| `PackageAPI` | the package-level functions, composed with the running lifecycle | `PluginLifecycle` |
| `SentinelRules` | all writers of the registries, between two calls of the core | `SentinelConfig` |
| `RuleStore` | abstract: registries whose operations are single steps | |
| `DashboardServer` | the dashboard objects and their instances over re-initializations and restarts | |
| `RequestPath` | requests, the collectors that count them and may be switched | |
| `MetricsCollector` | one collector: recorders, readers, its lock, its goroutine | |
| `RequestCounts` | abstract: counters whose requests and summaries are single steps | |
| `HTTPMiddleware` | the HTTP middleware and its status recorder | |
| `PluginLifecycle_proofs`, `PackageAPI_proofs`, `SentinelRules_proofs`, `DashboardServer_proofs`, `RequestPath_proofs`, `MetricsCollector_proofs`, `HTTPMiddleware_proofs` | theorems | the module of the name |
| `FoldLemmas` | what the folds of the community modules compute | |
| `MCPluginLifecycle`, `MCPackageAPI`, `MCSentinelRules`, `MCRequestPath`, `MCMetricsCollector` | values and symmetry for TLC | the module of the name |

`DashboardServer` and `HTTPMiddleware` need no MC module. `PluginLifecycle`
implements `StopGroup`, `SentinelRules` implements `RuleStore`,
`MetricsCollector` implements `RequestCounts`. The last two are what lets the
modules above them take such an operation for one step.
Definitions whose comment begins with "Faulty" are plausible mistakes in the
code; they are used by no specification and show that the properties notice.

### From the code to the state and the actions

**PluginLifecycle.** `mu` is the holder of `s.mu`. `pc[t]` is where a caller is:
outside (`idle`), blocked on `s.mu` (`startup`, `cleanup`) or inside, between
two points where another goroutine's step can be seen: the checks of the
context (`launch`, `attach`, `publish`), the rollback and the two waits.
`InitializeResources` and `Configure` never block while they hold the lock and
are one action each, with a disjunct per return. `stopCh` numbers the stop
channels, `closed` are those that were closed. A worker is the record of its
kind, the startup that launched it and the channel it was given. `waiter[n]` is
the goroutine of the n-th cleanup; `released` is the moment between the wakeup
of `wg.Wait` and its return, in which it panics if the group is in use again.
`LaunchWorkers` does both `wg.Add`s at once, since nothing in between can be
seen by others.

**PackageAPI** extends `PluginLifecycle`: its next-state relation is the
lifecycle's, plus the clients'. `registered` says whether the app's plugin
manager has the plugin. Each client asks `GetSentinel`, which answers with the
app's plugin or with a `fallback` from the factory that nobody else sees.
`at[p]` is where it is in the loop of `WaitForReady` (`asking` before
`IsHealthy`, `unhealthy` after it, `asleep` in the select) or between the two
reads of an accessor (`looked`). `waitsOn[p]` is the stop channel that the
select has read. `ReloadRules` is one step here; its interleaving is in
`SentinelRules`, which implements such a one (`RuleStore`) as long as no edit
of single rules overlaps.

**SentinelRules.** `job[m]` is what goroutine `m` is doing: the registry it has
arrived at and the list it has computed. One call of the core (`GetRules`,
`LoadRules`, `ClearRules`) is atomic. `InitializeResources` is two steps, since
`ReloadRules` may read `s.conf` while it is still empty; what it scans stays in
`s.conf`, valid or not, and reaches the registries with the next startup, or with
a `ReloadRules`. Initializations that fail because the core does are left to
`PluginLifecycle`. Three history variables: `settled` says
whether the registries were left by an operation under `s.mu` that met no
unlocked one; `overlapped` whether a single-rule edit has ever been in flight
with another writer of its registry; `promised` are the rules whose addition
succeeded and that nothing was entitled to remove since.

**DashboardServer.** Object `o` is the o-th `DashboardServer` that
`InitializeResources` created; `object` is the plugin's. Instance `i` is the
i-th goroutine that runs `Start`, `runs[i]` the object it runs on, server `i`
and listener `i` those it creates. In `Shutdown` an instance is `hanging` while
connections are open, which they may stay for ever (`ConnectionsClose` is not
fair), or `draining`; it leaves from either, from `hanging` when the five seconds
are over. `Serve(l)` is the goroutine of
`dashboard.go:60`; it reads `server` when it runs. `overlapped` records the
objects `Start` was run on while an earlier instance of theirs was not gone.

**RequestPath.** `req[r].at` is the next step of a request. `collector` counts
the collectors created, the latest is the plugin's; a request keeps the number
it has read. Whether `GetSentinel` finds the app's plugin is a free choice of
`Arrive`. `open` and `traced` are the core's entries and the errors reported for
them. One resource is modelled: nothing relates the counters of two.
`SetEnabled` disables and enables a collector, the plugin's or one that was
replaced. A record is two steps: `FindEnabled` is the unlocked check of `enabled`
(`SkipRecord` the early return, and the `nil` check of the callers), `RecordPassed`,
`RecordBlocked` and `RecordRT` what is done under the lock. That the two
increments there may be taken for one is what `RequestCounts` says of
`MetricsCollector`. History: `admitted` and `dropped` count the requests let in and
the passed ones a reset threw away, `switchedOff` are the collectors that were
disabled at some time.

**MetricsCollector.** `mu` is the set of those inside `mc.mu`: readers, or one
recorder. `Check` reads `enabled` without it; a passed or blocked request is
two steps under it (`CountRequest`, `CountVerdict`), a summary one step per
resource (`Visit`). `worker` is the goroutine of `Start`; `Tick` is its summary.
`seen`, `late` and `lately` are history: what was recorded since the last reset,
what each goroutine recorded while disabled, and the requests of the current
interval and the one before.

**HTTPMiddleware.** `status` and `wroteHeader` are the `statusRecorder`, `sent`
is what net/http has sent, `open` and `traced` the core as above. `Returns` is
the return of the handler with the comparison that follows, `TraceError` and
`Exit` the calls of the core.

### Abstractions

* A list of rules is a set; of a rule only the fields are kept that validation
  or removal looks at. `threshold` is an integer.
* `LoadRules` stores what it is given, or fails and stores nothing.
* The failure of the embedded base plugin's `InitializeResources` changes
  nothing and is a stutter, and so is an error of `GetSentinel`.
  `min_request_amount` is unsigned, so its check never fails.
* Publishing resources to the runtime leaves no state in the plugin.
* The verdict of the core, the outcome of a handler, a context's cancellation,
  a failing bind are free choices.
* Time is left out: a timeout may happen whenever it is armed. Durations the
  collector stores are integers, and an average is rounded down.
* A worker that `wg.Add` counts while an abandoned waiter enters `Wait` for the
  first time is treated as ordered before or after it.
* An unlocked read of a pointer, a channel or a flag returns its current value,
  although the Go memory model calls it a race.

## 3. Bounds

TLC needs the number of operations bounded; each bound is a constant, is a
guard of the action that uses it up, and is arbitrary in the proofs.

| Bound | Value | Why it is enough |
|---|---|---|
| `MaxStarts`, `MaxStops` (PluginLifecycle) | 2/2; 2/1 for liveness; 1/1 for `lifecycle_validation` and `api` | two generations of workers make every reuse of the channel and the group possible |
| `Offered` (PluginLifecycle) | one with both workers and flow and system rules, one without name and workers and with a breaker rule, one that validation rejects | each default, each refusal and each registry that is replaced, emptied or kept |
| callers | 2; 1 for `lifecycle_validation` and `api` | one inside, one that waits or arrives; in `api` the client is the other goroutine |
| clients (PackageAPI) | 1 | clients share no state |
| `MaxStarts`, `MaxInits` (DashboardServer) | 3/1 in the passing run, 2/2 in the other | an instance, its successor, and the successor of both; objects share nothing but the stop channel, and the proofs hold for any number of both |
| managers (SentinelRules) | 2 | no other bound: the state is finite; the offered configurations load other registries, and one is rejected |
| `MaxCalls`, `MaxCollectors`, `RTWindow` (RequestPath) | 3, 2, 1 | two requests at once and one after them; a collector replaced once; a window that fills up |
| `MaxRecords`, `RTWindow` (MetricsCollector) | 4, 2 | the window overflows twice, with two recorders, two readers (one is the worker), two resources and two times; intervals 0 and 1 |
| `MaxCalls` (HTTPMiddleware) | 3 | an informational code, a status and what follows, of 103, 200, 404, 500 and 503 |

`Caller`, `Manager`, `Request`, `Recorder` and `Resource` are symmetric in the
runs that check no liveness. Deadlock is checked except in the runs of
`DashboardServer` and `HTTPMiddleware`: there every instance or request may have
ended, with none left to begin.

## 4. Runs

| Run | States | Question |
|---|---|---|
| `lifecycle` | 2,144,563 | Is what a startup runs on always a whole configuration, and does every worker belong to somebody who will stop it and wait for it? |
| `lifecycle_liveness` | 15,804 | Does every call return and every signalled worker exit? |
| `lifecycle_validation` | violation | Is what a startup loads validated? |
| `api` | 71,964 | What can somebody rely on who looks at the plugin without its lock? |
| `rules` | 2,215,280 | What does `s.mu` guarantee about the registries, and what do unlocked edits? |
| `rules_lost_update` | violation | Does an added rule stay? |
| `dashboard` | 247,965 | What do `IsRunning`, the start time and the port keep to over restarts? |
| `dashboard_clean` | violation | Is a served dashboard running, after clean stops? |
| `requests` | 4,947,976 | Is every entry exited, every returned error reported, every admission counted once? |
| `metrics` | 1,098,114 | Are summaries, windows and statistics right under concurrent records? |
| `metrics_qps` | violation | Is the reported rate a rate? |
| `http` | 10,816 | Does the core learn what the client was sent? |

**lifecycle.** `StartedFromConfig`: from the moment the rules are loaded
to the return of the startup the registries say what `s.conf` says, whatever
configurations and failed loads came before. `LimiterUsable`: no call makes an
attached rate limiter reject everything. `NoLeakedWorkers`, `StoppableWorkers`
and `StoppingWorkersAwaited` together: a running worker was told to stop and is
waited for, or belongs to an active or starting plugin and can be told.
`DrainedMeansStopped`: a cleanup that returns nil leaves no worker of any
startup. `AwaitedWorkersSignalled`: whoever waits for the group with `s.mu` held
waits for workers that were all told to stop, so that no wait under the lock is
for something only a later holder of the lock could bring about. `PanicNeedsAbandonedWait`: the panic of a reused wait group (`sync`:
"WaitGroup is reused before previous Wait has returned") can happen, but only in
the waiter of a cleanup that had given up. `StopGroupSpec`: the channel and the
group implement `StopGroup`.

**lifecycle_liveness.** `CancelledCleanupReturns`: with fair callers and *no*
fairness for workers and waiters, a cancelled cleanup returns, with the rules
cleared.
`EveryCallReturns`, `SignalledWorkersExit`: if the workers run too, every call
returns and every signalled worker exits, or the process has died of the panic
above.

**api.** `ReadyStaysUsable`: who was told "ready" has the app's plugin, and it
stays initialized and configured whatever is called afterwards.
`NoNilDereference`: an accessor that saw a collector or a dashboard finds one
when it reads the pointer again. `WaitersReturn`: a `WaitForReady` whose context
ends, or whose plugin is initialized or stopped, returns, although `IsHealthy`
may have to wait for a rollback or a cleanup that holds `s.mu`.

**rules.** `ConfiguredWhenSettled`: a `Configure` or startup that met no
unlocked operation leaves exactly its configuration, until the next operation
begins, except that system rules stay when it names none (`rules.go:115`). `ClearedWhenSettled`: such a cleanup
leaves nothing. `SerializedAdditionsStay` and `RuleStoreSpec`: as long as no
edit overlaps with another writer of its registry, an added rule stays until
something may take it, and every operation on a registry, in spite of its two
calls of the core, is one step of `RuleStore`.

**dashboard.** `RunningHasInstance`: a running dashboard has an instance that is
up, in spite of overlaps, and without them an instance that is up is reported.
`UptimeWhileRunning` and `OwnServerEndsWithInstance` hold for every object without
overlaps. `StoppedInstancesLeave`: under fair goroutines what is stopped leaves
the wait group, even if the connections `Shutdown` waits for stay open for ever.
`StoppedListenersClose`: its listener is closed, served or not, unless an instance
overlapped it or its late `Serve` ran on the server of a later one.

**requests.** `EntriesAreExited`: entries are open from the admission to the
exit on every path, panics included. `FailuresReachTheCore`: an exit has an
error reported exactly if the handler returned one or the HTTP middleware sent
a server error, whether or not the collector counted anything; a handler that
panics is exited unreported. `AdmissionsAreCounted`: with resets, switches and
new collectors between the steps of a request, no admission is counted twice,
and a collector that was never disabled misses none. A disabled one does not
count, so of the others only the first half is said.

**metrics.** `SummaryIsSnapshot`: a summary that has visited every resource has
the sums of all three counters, though it takes them from three maps and
skips resources without requests, and its total is what passed and what was
blocked. `RequestCountsSpec`: what readers return and recorders count is what
`RequestCounts` does in single steps, with resets in between.
`OneLateRecord`: the unlocked check of `enabled` lets a goroutine record once
after the collector was disabled, never twice. `WindowIsRecent`: the window is
the end of everything recorded since the last reset. `StatsAreRight`: the
average is the sum of the window's times, in whatever order, divided by their
number; minimum and maximum are taken from the window and bound it and the
average.

**http.** `RecordedIsSent`: the recorder has what net/http sent, in whatever
order a handler writes headers and body. `ReportedIsSent`: at the exit of an
entry whose handler returned, the core has been told of an error exactly if the
client was sent one from 500 up. Both leave aside handlers that begin with an
informational code.

### Disagreements the runs show

1. `lifecycle_validation`: a failed re-initialization has replaced `s.conf`
   already (`lifecycle.go:35`) and leaves `isInitialized` as it was; the next
   startup loads a configuration that was rejected (`VALIDATION.md:13`).
2. `rules_lost_update`: two concurrent `AddFlowRule`s return nil and one rule is
   gone (`rules.go:193`).
3. `dashboard_clean`: the goroutine that serves the first instance's listener
   runs after the restart and serves it on the new server; the restart cannot
   bind, and a dashboard answers that `IsRunning` denies and nobody shuts down
   (`dashboard.go:60`).
4. `metrics_qps`: only `Reset` sets the counters back, so the rate divides all
   requests since then by one interval and never falls (`metrics.go:149`).

### Further disagreements

These were met in the code while modelling it. They are known behaviour, not
properties, and no run reports them.

* `lifecycle.go:76`: a re-initialization without the dashboard or without
  metrics keeps the object of the earlier one. So `GetMetrics` and
  `GetDashboardURL` answer after the feature was disabled, and an old dashboard
  keeps the collector it was given.
* `dashboard.go:57`, `dashboard.go:30`: an instance left behind by an abandoned
  cleanup resets `ds.running` under its successor and deletes the start time the
  successor has stored (the properties of `dashboard` exclude overlapped objects
  where this matters).
* `lifecycle.go:187`: the outcome of the first `InitWithConfig` is kept for the
  life of the process, so after one that failed every initialization fails.
* `rules.go:115`: an empty list of system rules is not loaded, so system rules
  outlive a configuration that has none.
* `rules.go:199`: an edit that has read the registry before a cleanup loads the
  old rules back after it.
* `plug.go:241`: `GetDashboardURL` does not ask whether the server is running.
* `plug.go:313`: `WaitForReady` looks the plugin up once. Called before the
  app has it, it polls a throw-away plugin until its context ends;
  `WaitersReturn` asks nothing of such a wait but that it end with its context.
* `plug.go:272`: `ReloadRules` with a nil `s.conf` panics (`ReloadOfNothing`), and
  one that overlaps a `Configure` may put the replaced rules back.
* `metrics.go:31`: an interval of zero or less panics in the collector's
  goroutine (`StartCrashes`); no validation refuses one.
* `metrics.go:237`: `SetInterval` does not reach the ticker that is running.
* `middleware.go:88`: a handler that sends 103 and then 500 is recorded as 103,
  and the core is not told.
* `api.go:266`: `GetSentinel` falls back to a new, uninitialized plugin, so
  `ProtectFunction` returns an error where its comment promises to call the
  function unprotected.

### Fairness

`WF` of a goroutine's steps: the Go scheduler runs what can run. `SF` of the
acquisition of `s.mu`: `sync.RWMutex` does not let a waiting writer starve.
Nothing is assumed of callers outside a call, of contexts (a live one may never
be cancelled) or of the application's starts and stops.

* `PluginLifecycle`: `FairSpec` is `Spec` with `CallersRun`. That workers get to
  their select and, signalled, exit (`WorkersRun`) is a premise of
  `EveryCallReturns` and `SignalledWorkersExit`, not part of `FairSpec`, so that
  `CancelledCleanupReturns` does without it.
* `PackageAPI`: `ApiFairSpec` adds `WorkersRun` and `ClientsRun`. Readers of
  `sync.RWMutex` are let in at last, and a Go select with several ready cases
  picks among them at random: strong fairness for both.
* `DashboardServer`: weak fairness of `Start` and of the goroutine that serves;
  `Shutdown` is bounded by five seconds. Clients need not close connections.
* The other specifications use no fairness.

## 5. Proofs

All theorems hold for any callers, clients, managers, requests, configurations,
bounds and windows. The assumptions are those the modules declare: the fallback
name is a non-empty name, offered configurations are configurations, `None` is
none of the values it stands beside, bounds are naturals and windows positive,
the sets of requests, recorders and resources are finite, recorders are not
readers, codes are three digits. Every module's type invariant is proved
(`TypeCorrect`, `ApiTypeCorrect`), for `PackageAPI` and `HTTPMiddleware` only proved,
and of the properties of the passing runs everything but liveness.

**PluginLifecycle_proofs.** The invariant has three layers, each inductive
relative to the ones before it.

1. `LifecycleInv` (`LifecycleInvariant`): types; a caller is inside exactly if it
   holds `s.mu`; whoever passed the first check of startup found the plugin
   initialized, and an initialized plugin has a core and a configuration. The
   step is a lemma (`LifecycleStep`), so that `PackageAPI_proofs` can use it.
2. `GroupInv` (`GroupInvariant`, by `GroupInit` and `GroupStep`): who owns the
   workers. The safety properties about workers are not inductive alone: that
   workers are awaited needs that a startup never launches workers on a closed
   channel (`StartingOpen`); that a drained cleanup leaves none needs that
   nothing joins the group while the cleanup waits holding `s.mu`
   (`StoppingDrains`); that the waits are for signalled workers only needs that
   whoever waits has closed the channel (`StoppingClosed`).
3. The properties that need one step more: the registries of a startup past its
   loading are those `LoadAll` computes from `s.conf`, by the discipline of `s.mu`
   (`StartupIsConfigured`); an attached limiter means an initialized plugin
   (`LimiterAttached`, for `LimiterStaysUsable`); the group panics only in the
   waiter of a cleanup that gave up (`PanicStep`, for `OnlyAbandonedWaitsPanic`).

From the second follow `WorkersNeverLeak`, `WorkersStayStoppable`,
`StoppingIsAwaited`, `DrainedCleanupStopsAll`, `AwaitedAreSignalled` and
`ImplementsStopGroup`, the refinement: every action maps to one of
`StopGroup`'s or to a stutter.

**PackageAPI_proofs.** `ApiInv` adds to `LifecycleInv` the types of the clients
and what they know: a client told "ready" has the app's plugin and that is
initialized, a client that looked still finds the object. Steps of the plugin
keep both since initialization and objects are never taken back
(`LifecycleGrows`). `ReadyIsForGood` and `AccessorsFindObjects` follow.

The second part of the module carries the guarantees of the lifecycle over to
the composition. A client's step changes at most the core's rules and whether
the process lives (`ClientsLeavePlugin`); so the step lemmas of
`PluginLifecycle_proofs` do the rest, without a second proof of any of them:
`ClientsKeepWorkers` (the five properties of the workers), `ApiLimiterUsable`, and
`ApiImplementsStopGroup`, the refinement. Two properties of the lifecycle do
*not* hold in the composition, and rightly so: `StartedFromConfig`, since
`Shutdown` on a fallback clears the rules of the process, which all plugins
share, and `PanicNeedsAbandonedWait`, since `ReloadRules` before the first
initialization panics too.

**SentinelRules_proofs.** `RulesInv`: types; only the holder of `s.mu` is in a
locked operation; the lists of `s.conf`, and those about to be loaded, are lists
of an offered configuration or of the empty one.
`SettledInv` strengthens the two `...WhenSettled` properties by `Progress`: while
an operation is the only one at work, the registries it has been through are as
they will be when it is done (`ConfiguredIsSettled`, `ClearedIsSettled`). `SerialInv`
says that an edit in flight that met no other writer has computed its list from
the registry as it is: hence `AdditionsStay`, and `ImplementsRuleStore`, where the
second call of the core is the step of the store and the first one a stutter.

**DashboardServer_proofs.** `DashInv`: types, and how an instance's stage, its
listener and the server of its object go together. `OwnInv` adds `Alone`: an
instance of an object without overlaps is the only one not done, `ds.server` and
the start time are its own while it is at work, `running` is true while it
is up (until `Shutdown` is over), and whoever left a listener behind has shut its server down. From it
`RunningIsTruthful`, `RunningHasUptime` and `OwnServerEnds`.

**RequestPath_proofs.** `PathInvariant` strengthens `EntriesAreExited` by
`Outcomes`: what a request's place says of its handler's
outcome and of what the core was told; from both follow `EveryEntryExits` and
the action property `FailuresAreReported`. `CountingInvariant` is behind
`EveryAdmissionIsCounted`: a record that has found its collector enabled has one
(`Counting`), and the counters and the set of requests that are admitted and not
counted yet make up the admissions, exactly as long as the collector was never
disabled (`Balanced`; `UncountedMoves` and `KnownKeeps` for the steps).

**MetricsCollector_proofs.** `LateInv` for `AtMostOneLateRecord`: whoever recorded
late is idle, and the collector is disabled. `WindowStaysRecent` rests on two lemmas about
sequences, stated by index (`Recent`): appending and trimming keeps the window
the end of the history, and such a window is a suffix.

`SumInv` is the invariant behind the summaries. `Held`: a recorder is inside
`mc.mu` exactly between its two increments, and then alone. `Balanced`: per
resource the total is what passed and what was blocked, plus one for the request
a recorder is in the middle of (`Pending`). `Adds`: while a reader walks the
resources, what it has added up and what is left to visit make the sum over
all, for each of the three counters; it begins with the resources that have
requests only, and may, since the others have nothing in the other two maps
either (`BeginsRight`). `SummariesAreSnapshots` follows, and
`ImplementsRequestCounts`: the verdict of a request (`CountVerdict`) is its abstract
step, the last `Visit` of a summary (or its beginning, if there is nothing to
visit) is the abstract summary, everything else stutters. `StatsStayRight`
takes the equation of the fold that adds up a window (`StatsRecur`) and shows
that as the window is read the minimum and the maximum keep their bounds and the
sum is that of the times read (`MinGrows`, `MaxGrows`, `StatsBound`); the average
lies between by `QuotientBetween`.

**FoldLemmas.** The folds of the community modules are recursive functions, so
that even their equations have to be proved. The library's induction
theorems cannot be instantiated by the provers, but its theorem that a
well-founded relation has minimal elements takes a set and can: each inductive
argument here considers a smallest set (`SmallestBadSet`) or a least number
(`LargestNatural`) for which the claim fails. `RecursionExists` and
`RecursionUnique` say that a recursion on the subsets of a finite set has exactly
one solution, `SumRecurs` that `MapThenSumSet` is one, and `SumTakes` that any
element may be taken out of a sum first, whichever one `CHOOSE` prefers.

**HTTPMiddleware_proofs.** `HTTPInv`: an entry is open from the admission to the
exit; header written, status recorded and status sent agree; the core has been
told when the handler's request reaches its exit. `RecorderIsRight` and the
action property `ReportsAreRight` follow.

**Model-checked only.** Liveness (`CancelledCleanupReturns`, `EveryCallReturns`,
`SignalledWorkersExit`, `WaitersReturn`, `StoppedInstancesLeave`,
`StoppedListenersClose`), which is beyond the prover.

## 6. Not modelled

* The algorithms of the core: flow shaping, breakers, system load. External;
  their verdict is a free choice.
* The dashboard's HTTP handlers: they render what they read and change nothing.
  Which collector a dashboard shows is left out with them.
* Getters, rendering of statistics other than those of `StatsAreRight`,
  `GetPluginInfo`, `CheckHealth` beyond what `IsHealthy` reads, resource names,
  logging.
* `conf/`: generated code without a user.

## 7. Plan

Done, in this order: the lifecycle with `StopGroup`; the dashboard; the rules;
the request path; the package-level functions over the lifecycle; dashboards
over re-initializations; `RuleStore` and its refinement; the collector and the HTTP
middleware on their own; proofs for all of them; the sums and statistics of the
collector, `RequestCounts` and its refinement; the guarantees of the lifecycle
carried over to the package-level functions.

Left:

1. The dashboard composed with the lifecycle, so that `overlapped` follows from
   an abandoned cleanup instead of being a choice of the environment.
2. Larger instances of `api`, with two clients and a second startup.
3. The actions of `RequestPath` that count, as steps of `RequestCounts`.
