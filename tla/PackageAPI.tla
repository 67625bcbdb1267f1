------------------------------ MODULE PackageAPI ------------------------------
(***************************************************************************)
(* The package-level functions (plug.go) that look at the plugin or change *)
(* it, called while other goroutines run its lifecycle (PluginLifecycle).  *)
(*                                                                         *)
(* Every one of them first asks GetSentinel for a plugin. That is the one  *)
(* the app's plugin manager has, "app", the plugin of PluginLifecycle. If  *)
(* there is none it is a new one from the factory, "fallback": nobody else *)
(* ever sees that one, so it stays uninitialized, without configuration,   *)
(* collector or dashboard, its stop channel open and its mutex free; but   *)
(* the rules it loads and clears are those of the process.                 *)
(*                                                                         *)
(* GetSentinel's own errors change nothing and are stutters. The functions *)
(* for single requests are in RequestPath, those for single rules, and     *)
(* ReloadRules between two calls of the core, in SentinelRules.            *)
(***************************************************************************)
EXTENDS PluginLifecycle

CONSTANT Client         \* Goroutines that call the package-level functions.

VARIABLES
  registered,   \* The app's plugin manager has the plugin.
  at,           \* Where each client is, see Polling and Returned.
  uses,         \* What GetSentinel gave it.
  deadline,     \* The context it passed to WaitForReady.
  waitsOn,      \* The stop channel its select has read; 0: a fallback's.
  found         \* The object an accessor of the plugin has seen there.

clients == <<at, uses, deadline, waitsOn, found>>
api == <<registered, clients>>
apiVars == <<vars, api>>

\* Within WaitForReady: before IsHealthy, after it, in the select.
Polling == {"asking", "unhealthy", "asleep"}

\* What WaitForReady returned.
Returned == {"ready", "stopped", "cancelled"}

ApiTypeOK ==
  /\ TypeOK
  /\ registered \in BOOLEAN
  /\ at \in [Client -> {"idle", "looked"} \cup Polling \cup Returned]
  /\ uses \in [Client -> {"app", "fallback"}]
  /\ deadline \in [Client -> Context]
  /\ waitsOn \in [Client -> 0 .. stopCh]
  /\ found \in [Client -> Kind]

ApiInit ==
  /\ Init
  /\ registered = FALSE
  /\ at = [p \in Client |-> "idle"]
  /\ uses = [p \in Client |-> "fallback"]
  /\ deadline = [p \in Client |-> "background"]
  /\ waitsOn = [p \in Client |-> 0]
  /\ found = [p \in Client |-> "metrics"]

Move(p, from, to) == ~panicked /\ at[p] = from /\ at' = [at EXCEPT ![p] = to]

GetSentinel == IF registered THEN "app" ELSE "fallback"

\* The plugin manager loads the plugin, or unloads it.
Register ==
  /\ ~panicked
  /\ registered' = ~registered
  /\ UNCHANGED <<vars, clients>>

-----------------------------------------------------------------------------
(***************************************************************************)
(* WaitForReady.                                                           *)
(***************************************************************************)
CallWaitForReady(p) ==
  /\ Move(p, "idle", "asking")
  /\ uses' = [uses EXCEPT ![p] = GetSentinel]
  /\ \E c \in Context : deadline' = [deadline EXCEPT ![p] = c]
  /\ UNCHANGED <<vars, registered, waitsOn, found>>

\* Its context is cancelled, or runs into its deadline.
CancelWait(p) ==
  /\ ~panicked /\ at[p] \in Polling /\ deadline[p] = "live"
  /\ deadline' = [deadline EXCEPT ![p] = "done"]
  /\ UNCHANGED <<vars, registered, at, uses, waitsOn, found>>

\* IsHealthy, under s.mu for reading.
FindsHealthy(p) ==
  /\ uses[p] = "app" /\ mu = None
  /\ isInitialized /\ sentinelInitialized
  /\ Move(p, "asking", "ready")
  /\ UNCHANGED <<vars, registered, uses, deadline, waitsOn, found>>

FindsUnhealthy(p) ==
  /\ uses[p] = "app" => mu = None /\ ~(isInitialized /\ sentinelInitialized)
  /\ Move(p, "asking", "unhealthy")
  /\ UNCHANGED <<vars, registered, uses, deadline, waitsOn, found>>

\* The select reads s.stopCh, with no lock, and then waits.
Sleep(p) ==
  /\ Move(p, "unhealthy", "asleep")
  /\ waitsOn' = [waitsOn EXCEPT ![p] = IF uses[p] = "app" THEN stopCh ELSE 0]
  /\ UNCHANGED <<vars, registered, uses, deadline, found>>

WakesOnTick(p) ==
  /\ Move(p, "asleep", "asking")
  /\ waitsOn' = [waitsOn EXCEPT ![p] = 0]
  /\ UNCHANGED <<vars, registered, uses, deadline, found>>

WakesOnStop(p) ==
  /\ waitsOn[p] \in closed
  /\ Move(p, "asleep", "stopped")
  /\ waitsOn' = [waitsOn EXCEPT ![p] = 0]
  /\ UNCHANGED <<vars, registered, uses, deadline, found>>

WakesOnCancel(p) ==
  /\ deadline[p] = "done"
  /\ Move(p, "asleep", "cancelled")
  /\ waitsOn' = [waitsOn EXCEPT ![p] = 0]
  /\ UNCHANGED <<vars, registered, uses, deadline, found>>

\* The client goes on to something else, without what it had.
Proceed(p) ==
  /\ \E r \in Returned : Move(p, r, "idle")
  /\ uses' = [uses EXCEPT ![p] = "fallback"]
  /\ deadline' = [deadline EXCEPT ![p] = "background"]
  /\ UNCHANGED <<vars, registered, waitsOn, found>>

-----------------------------------------------------------------------------
(***************************************************************************)
(* GetMetrics, GetResourceStats, GetAllResourceStats, ResetMetrics and     *)
(* GetDashboardURL read the pointer twice, with no lock: to compare it     *)
(* with nil, then to use it. A fallback never has one: an error.           *)
(***************************************************************************)
Look(p) ==
  /\ GetSentinel = "app"
  /\ Move(p, "idle", "looked")
  /\ \E k \in objects : found' = [found EXCEPT ![p] = k]
  /\ UNCHANGED <<vars, registered, uses, deadline, waitsOn>>

\* A nil would end the process.
UseObject(p) ==
  /\ found[p] \in objects
  /\ Move(p, "looked", "idle")
  /\ found' = [found EXCEPT ![p] = "metrics"]
  /\ UNCHANGED <<vars, registered, uses, deadline, waitsOn>>

-----------------------------------------------------------------------------
(***************************************************************************)
(* ReloadRules and Shutdown; Shutdown of the app's plugin is a CallCleanup. *)
(***************************************************************************)
ReloadRules(p) ==
  /\ ~panicked /\ at[p] = "idle"
  /\ GetSentinel = "app" /\ conf # None
  /\ rules' \in LoadedBeforeFailure(rules, conf) \cup {LoadAll(rules, conf)}
  /\ UNCHANGED <<callers, lifecycle, limiter, active, channel, group, panicked, api>>

\* The first loader dereferences s.conf.
ReloadOfNothing(p) ==
  /\ ~panicked /\ at[p] = "idle"
  /\ GetSentinel = "fallback" \/ conf = None
  /\ panicked' = TRUE
  /\ UNCHANGED <<callers, lifecycle, rules, limiter, active, channel, group, api>>

\* CleanupTasks of the fallback: nothing to stop, the rules are cleared.
ShutdownFallback(p) ==
  /\ ~panicked /\ at[p] = "idle"
  /\ GetSentinel = "fallback"
  /\ rules' = NoRules
  /\ UNCHANGED <<callers, lifecycle, limiter, active, channel, group, panicked, api>>

-----------------------------------------------------------------------------
Poll(p) ==
  \/ FindsHealthy(p) \/ FindsUnhealthy(p) \/ Sleep(p)
  \/ WakesOnTick(p) \/ WakesOnStop(p) \/ WakesOnCancel(p)

ClientNext(p) ==
  \/ CallWaitForReady(p) \/ CancelWait(p) \/ Poll(p) \/ Proceed(p)
  \/ Look(p) \/ UseObject(p)
  \/ ReloadRules(p) \/ ReloadOfNothing(p) \/ ShutdownFallback(p)

ApiNext ==
  \/ Next /\ UNCHANGED api
  \/ Register
  \/ \E p \in Client : ClientNext(p)

ApiSpec == ApiInit /\ [][ApiNext]_apiVars

(***************************************************************************)
(* Goroutines that can run do. A reader of sync.RWMutex is let in at last, *)
(* and a select with several ready cases takes each of them again and      *)
(* again: strong fairness for both.                                        *)
(***************************************************************************)
ClientsRun ==
  \A p \in Client :
    /\ WF_apiVars(Sleep(p)) /\ WF_apiVars(WakesOnTick(p))
    /\ SF_apiVars(FindsHealthy(p)) /\ SF_apiVars(FindsUnhealthy(p))
    /\ SF_apiVars(WakesOnStop(p)) /\ SF_apiVars(WakesOnCancel(p))

ApiFairSpec == ApiSpec /\ CallersRun /\ WorkersRun /\ ClientsRun

-----------------------------------------------------------------------------
\* Who was told "ready" can go on: whatever is called afterwards, the plugin it
\* asked stays initialized and configured. (A cleanup does not change that.)
ReadyStaysUsable ==
  \A p \in Client :
    at[p] = "ready" =>
      /\ uses[p] = "app"
      /\ isInitialized /\ sentinelInitialized /\ core = "ok" /\ conf # None

\* No accessor dereferences nil: what it has seen in the plugin without s.mu
\* is still there when it reads the pointer again, re-initializations included.
NoNilDereference == \A p \in Client : at[p] = "looked" => found[p] \in objects

\* "It polls ... until the plugin reports healthy, the context is canceled, or
\* the plugin stops" (plug.go:310), and then returns.
WaitersReturn ==
  \A p \in Client :
    /\ at[p] \in Polling
    /\ \/ deadline[p] = "done"
       \/ uses[p] = "app" /\ (isInitialized \/ stopCh \in closed)
    ~> at[p] \notin Polling \/ panicked
=============================================================================
