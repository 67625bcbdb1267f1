-------------------------- MODULE PackageAPI_proofs --------------------------
(***************************************************************************)
(* Proofs about PackageAPI, for any callers, clients and configurations:   *)
(* what a client has found in the plugin without s.mu, or was told by      *)
(* WaitForReady, stays true. It rests on the invariant of the lifecycle,   *)
(* which no client breaks, and on two things the lifecycle never takes     *)
(* back: the initialization and the objects.                               *)
(***************************************************************************)
EXTENDS PackageAPI, PluginLifecycle_proofs

ClientTypes ==
  /\ registered \in BOOLEAN
  /\ at \in [Client -> {"idle", "looked"} \cup Polling \cup Returned]
  /\ uses \in [Client -> {"app", "fallback"}]
  /\ deadline \in [Client -> Context]
  /\ waitsOn \in [Client -> 0 .. stopCh]
  /\ found \in [Client -> Kind]

\* A client that was told "ready" asked the app's plugin when it was
\* initialized; one that has looked has found an object there.
Known ==
  \A p \in Client :
    /\ at[p] = "ready" => uses[p] = "app" /\ isInitialized
    /\ at[p] = "looked" => found[p] \in objects

ApiInv == LifecycleInv /\ ClientTypes /\ Known

-----------------------------------------------------------------------------
\* A client moves from one of its places to another.
LEMMA MoveDoes ==
  ASSUME ClientTypes, NEW p \in Client, NEW from, NEW to, Move(p, from, to),
         to \in {"idle", "looked"} \cup Polling \cup Returned
  PROVE  /\ at[p] = from /\ at'[p] = to
         /\ \A o \in Client \ {p} : at'[o] = at[o]
         /\ at' \in [Client -> {"idle", "looked"} \cup Polling \cup Returned]
BY DEF Move, ClientTypes

\* Steps of a client that leave the plugin alone.
LEMMA ClientKeeps ==
  ASSUME ApiInv, UNCHANGED vars, ClientTypes',
         \A p \in Client :
           \/ at'[p] = at[p] /\ uses'[p] = uses[p] /\ found'[p] = found[p]
           \/ at'[p] \notin {"ready", "looked"}
           \/ at'[p] = "ready" /\ uses'[p] = "app" /\ isInitialized
           \/ at'[p] = "looked" /\ found'[p] \in objects
  PROVE  ApiInv'
<1>1. LifecycleInv'
  <2>1. [Next]_vars
    OBVIOUS
  <2> QED BY <2>1, LifecycleStep DEF ApiInv
<1>2. Known'
  BY DEF ApiInv, Known, vars, lifecycle
<1> QED BY <1>1, <1>2 DEF ApiInv

\* Steps that touch the rules, or end the process, and nothing else.
LEMMA RulesKeep ==
  ASSUME ApiInv, rules' \in Registries, panicked' \in BOOLEAN,
         UNCHANGED <<callers, lifecycle, limiter, active, channel, group, api>>
  PROVE  ApiInv'
<1> USE DEF callers, lifecycle, channel, group, api, clients
<1>1. TypeOK'
  BY DEF ApiInv, LifecycleInv, TypeOK, Worker
<1>2. Locked' /\ Initialized'
  BY DEF ApiInv, LifecycleInv, Locked, Initialized
<1>3. ClientTypes' /\ Known'
  BY DEF ApiInv, ClientTypes, Known
<1> QED BY <1>1, <1>2, <1>3 DEF ApiInv, LifecycleInv

THEOREM ApiInvariant == ApiSpec => []ApiInv
<1> USE DEF api, clients
<1>1. ApiInit => ApiInv
  <2> SUFFICES ASSUME ApiInit PROVE ApiInv
    OBVIOUS
  <2>1. LifecycleInv
    BY LifecycleInit DEF ApiInit
  <2>2. ClientTypes
    <3>1. waitsOn \in [Client -> 0 .. stopCh]
      BY DEF ApiInit, Init
    <3> QED BY <3>1 DEF ApiInit, ClientTypes, Context, Kind
  <2>3. Known
    BY DEF ApiInit, Known
  <2> QED BY <2>1, <2>2, <2>3 DEF ApiInv
<1>2. ApiInv /\ [ApiNext]_apiVars => ApiInv'
  <2> SUFFICES ASSUME ApiInv, [ApiNext]_apiVars PROVE ApiInv'
    OBVIOUS
  <2>0. /\ LifecycleInv /\ TypeOK /\ ClientTypes /\ Known
        /\ stopCh \in Nat \ {0} /\ conf \in Config \cup {None} /\ rules \in Registries
    BY DEF ApiInv, LifecycleInv, TypeOK
  <2>1. CASE [Next]_vars /\ UNCHANGED api
    <3>1. LifecycleInv'
      BY <2>0, <2>1, LifecycleStep
    <3>2. /\ isInitialized => isInitialized'
          /\ objects \subseteq objects'
          /\ stopCh' \in {stopCh, stopCh + 1}
      BY <2>0, <2>1, LifecycleGrows
    <3>3. 0 .. stopCh \subseteq 0 .. stopCh'
      BY <2>0, <3>2
    <3>4. ClientTypes'
      BY <2>0, <2>1, <3>3 DEF ClientTypes
    <3>5. Known'
      BY <2>0, <2>1, <3>2 DEF Known
    <3> QED BY <3>1, <3>4, <3>5 DEF ApiInv
  <2>2. CASE Register
    BY <2>0, <2>2, ClientKeeps DEF Register, ClientTypes, vars, channel
  <2>3. ASSUME NEW p \in Client, CallWaitForReady(p) PROVE ApiInv'
    <3>1. ClientTypes'
      BY <2>0, <2>3, MoveDoes
         DEF CallWaitForReady, ClientTypes, GetSentinel, Polling, Returned, vars, channel
    <3> QED BY <2>0, <2>3, <3>1, MoveDoes, ClientKeeps DEF CallWaitForReady, ClientTypes, Polling
  <2>4. ASSUME NEW p \in Client, CancelWait(p) PROVE ApiInv'
    <3>1. ClientTypes'
      BY <2>0, <2>4 DEF CancelWait, ClientTypes, Context, vars, channel
    <3> QED BY <2>4, <3>1, ClientKeeps DEF CancelWait
  <2>5. ASSUME NEW p \in Client, FindsHealthy(p) PROVE ApiInv'
    <3>1. ClientTypes'
      BY <2>0, <2>5, MoveDoes DEF FindsHealthy, ClientTypes, Returned, vars, channel
    <3> QED BY <2>0, <2>5, <3>1, MoveDoes, ClientKeeps DEF FindsHealthy, Returned
  <2>6. ASSUME NEW p \in Client, FindsUnhealthy(p) PROVE ApiInv'
    <3>1. ClientTypes'
      BY <2>0, <2>6, MoveDoes DEF FindsUnhealthy, ClientTypes, Polling, vars, channel
    <3> QED BY <2>0, <2>6, <3>1, MoveDoes, ClientKeeps DEF FindsUnhealthy, Polling
  <2>7. ASSUME NEW p \in Client, Sleep(p) PROVE ApiInv'
    <3>1. ClientTypes'
      BY <2>0, <2>7, MoveDoes DEF Sleep, ClientTypes, Polling, vars, channel
    <3> QED BY <2>0, <2>7, <3>1, MoveDoes, ClientKeeps DEF Sleep, Polling
  <2>8. ASSUME NEW p \in Client, WakesOnTick(p) \/ WakesOnStop(p) \/ WakesOnCancel(p)
        PROVE  ApiInv'
    <3>1. PICK to \in {"asking", "stopped", "cancelled"} :
            /\ Move(p, "asleep", to) /\ waitsOn' = [waitsOn EXCEPT ![p] = 0]
            /\ UNCHANGED <<vars, registered, uses, deadline, found>>
      BY <2>8 DEF WakesOnTick, WakesOnStop, WakesOnCancel
    <3>2. ClientTypes'
      BY <2>0, <3>1, MoveDoes DEF ClientTypes, Polling, Returned, vars, channel
    <3> QED BY <2>0, <3>1, <3>2, MoveDoes, ClientKeeps DEF Polling, Returned
  <2>9. ASSUME NEW p \in Client, Proceed(p) PROVE ApiInv'
    <3>1. PICK r \in Returned : Move(p, r, "idle")
      BY <2>9 DEF Proceed
    <3>2. ClientTypes'
      BY <2>0, <2>9, <3>1, MoveDoes DEF Proceed, ClientTypes, Context, vars, channel
    <3> QED BY <2>0, <2>9, <3>1, <3>2, MoveDoes, ClientKeeps DEF Proceed, ClientTypes
  <2>10. ASSUME NEW p \in Client, Look(p) PROVE ApiInv'
    <3>1. PICK k \in objects : found' = [found EXCEPT ![p] = k]
      BY <2>10 DEF Look
    <3>2. ClientTypes'
      BY <2>0, <2>10, <3>1, MoveDoes DEF Look, ClientTypes, TypeOK, vars, channel
    <3> QED BY <2>0, <2>10, <3>1, <3>2, MoveDoes, ClientKeeps DEF Look, ClientTypes
  <2>11. ASSUME NEW p \in Client, UseObject(p) PROVE ApiInv'
    <3>1. ClientTypes'
      BY <2>0, <2>11, MoveDoes DEF UseObject, ClientTypes, Kind, vars, channel
    <3> QED BY <2>0, <2>11, <3>1, MoveDoes, ClientKeeps DEF UseObject, ClientTypes
  <2>12. ASSUME NEW p \in Client, ReloadRules(p) PROVE ApiInv'
    <3>1. rules' \in Registries
      BY <2>0, <2>12, LoadersTyped DEF ReloadRules
    <3> QED BY <2>0, <2>12, <3>1, RulesKeep DEF ReloadRules, TypeOK
  <2>13. ASSUME NEW p \in Client, ReloadOfNothing(p) PROVE ApiInv'
    BY <2>0, <2>13, RulesKeep DEF ReloadOfNothing
  <2>14. ASSUME NEW p \in Client, ShutdownFallback(p) PROVE ApiInv'
    BY <2>0, <2>14, ConfigTypes, RulesKeep DEF ShutdownFallback, TypeOK
  <2>15. CASE UNCHANGED apiVars
    BY <2>1, <2>15 DEF apiVars
  <2> QED
    BY <2>1, <2>2, <2>3, <2>4, <2>5, <2>6, <2>7, <2>8, <2>9, <2>10, <2>11, <2>12, <2>13, <2>14,
       <2>15
    DEF ApiNext, ClientNext, Poll
<1> QED BY <1>1, <1>2, PTL DEF ApiSpec

-----------------------------------------------------------------------------
\* The plugin and its clients keep their types.
THEOREM ApiTypeCorrect == ApiSpec => []ApiTypeOK
<1>1. ApiInv => ApiTypeOK
  BY DEF ApiInv, LifecycleInv, ClientTypes, ApiTypeOK
<1> QED BY <1>1, ApiInvariant, PTL

\* A plugin WaitForReady reported stays initialized and configured, whatever
\* re-initializations, cleanups and failures follow.
THEOREM ReadyIsForGood == ApiSpec => []ReadyStaysUsable
<1>1. ApiInv => ReadyStaysUsable
  BY DEF ApiInv, Known, LifecycleInv, Initialized, ReadyStaysUsable
<1> QED BY <1>1, ApiInvariant, PTL

\* The accessors read the collector and the dashboard twice without s.mu, and
\* never find nil the second time.
THEOREM AccessorsFindObjects == ApiSpec => []NoNilDereference
<1>1. ApiInv => NoNilDereference
  BY DEF ApiInv, Known, NoNilDereference
<1> QED BY <1>1, ApiInvariant, PTL

-----------------------------------------------------------------------------
(***************************************************************************)
(* What the plugin guarantees without clients it guarantees with them.     *)
(***************************************************************************)
\* A client's step may change the rules or end the process, and leaves the rest
\* of the plugin alone.
LEMMA ClientsLeavePlugin ==
  ASSUME [ApiNext]_apiVars
  PROVE  [Next]_vars \/ UNCHANGED <<callers, lifecycle, limiter, active, channel, group>>
<1> USE DEF vars
<1>1. ASSUME NEW p \in Client, CallWaitForReady(p) \/ CancelWait(p) \/ Poll(p) \/ Proceed(p)
      PROVE  UNCHANGED vars
  BY <1>1 DEF CallWaitForReady, CancelWait, Poll, FindsHealthy, FindsUnhealthy, Sleep,
              WakesOnTick, WakesOnStop, WakesOnCancel, Proceed
<1>2. ASSUME NEW p \in Client, Look(p) \/ UseObject(p) PROVE UNCHANGED vars
  BY <1>2 DEF Look, UseObject
<1>3. ASSUME NEW p \in Client, ReloadRules(p) \/ ReloadOfNothing(p) \/ ShutdownFallback(p)
      PROVE  UNCHANGED <<callers, lifecycle, limiter, active, channel, group>>
  BY <1>3 DEF ReloadRules, ReloadOfNothing, ShutdownFallback
<1> QED BY <1>1, <1>2, <1>3 DEF ApiNext, ClientNext, Register, apiVars

THEOREM ApiGroupInvariant == ApiSpec => []GroupInv
<1>1. ApiInit => GroupInv
  BY GroupInit DEF ApiInit
<1>2. ApiInv /\ GroupInv /\ [ApiNext]_apiVars => GroupInv'
  <2> SUFFICES ASSUME ApiInv, GroupInv, [ApiNext]_apiVars PROVE GroupInv'
    OBVIOUS
  <2>1. CASE [Next]_vars
    BY <2>1, GroupStep DEF ApiInv
  <2>2. CASE UNCHANGED <<callers, lifecycle, limiter, active, channel, group>>
    BY <2>2 DEF callers, channel, group, GroupInv, StartingOpen, StoppingDrains,
       StoppingClosed, NoLeakedWorkers, StoppableWorkers, StoppingWorkersAwaited
  <2> QED BY <2>1, <2>2, ClientsLeavePlugin
<1> QED BY <1>1, <1>2, ApiInvariant, PTL DEF ApiSpec

\* Shutdown, ReloadRules and the rest of the package-level functions, called at
\* any moment, leak no worker, strand none on a replaced channel, and let no
\* cleanup report success too early.
THEOREM ClientsKeepWorkers ==
  ApiSpec => [](/\ NoLeakedWorkers /\ StoppableWorkers /\ StoppingWorkersAwaited
                /\ AwaitedWorkersSignalled /\ DrainedMeansStopped)
<1>1. GroupInv => /\ NoLeakedWorkers /\ StoppableWorkers /\ StoppingWorkersAwaited
                  /\ AwaitedWorkersSignalled /\ DrainedMeansStopped
  BY DEF GroupInv, StoppingClosed, StoppingDrains, NoLeakedWorkers, StoppableWorkers,
     StoppingWorkersAwaited, AwaitedWorkersSignalled, DrainedMeansStopped
<1> QED BY <1>1, ApiGroupInvariant, PTL

\* ... and the stop channel and the wait group are still those of StopGroup.
THEOREM ApiImplementsStopGroup == ApiSpec => StopGroupSpec
<1>1. ApiInit => Group!Init
  BY StopGroupInit DEF ApiInit
<1>2. ApiInv /\ GroupInv /\ [ApiNext]_apiVars => [Group!Next]_(Group!vars)
  <2> SUFFICES ASSUME ApiInv, GroupInv, [ApiNext]_apiVars
               PROVE  [Group!Next]_(Group!vars)
    OBVIOUS
  <2>1. CASE [Next]_vars
    BY <2>1, StopGroupStep DEF ApiInv
  <2>2. CASE UNCHANGED <<callers, lifecycle, limiter, active, channel, group>>
    BY <2>2 DEF channel, group, Group!vars
  <2> QED BY <2>1, <2>2, ClientsLeavePlugin
<1> QED
  BY <1>1, <1>2, ApiInvariant, ApiGroupInvariant, PTL
  DEF ApiSpec, StopGroupSpec, Group!Spec

\* The app's rate limiter stays usable whatever the clients call.
THEOREM ApiLimiterUsable == ApiSpec => []LimiterUsable
<1>1. ApiInit => LimiterAttachedInv
  BY DEF ApiInit, Init, LimiterAttachedInv
<1>2. ApiInv /\ LimiterAttachedInv /\ [ApiNext]_apiVars => LimiterAttachedInv'
  <2> SUFFICES ASSUME ApiInv, LimiterAttachedInv, [ApiNext]_apiVars PROVE LimiterAttachedInv'
    OBVIOUS
  <2>1. CASE [Next]_vars
    BY <2>1, LimiterStep DEF ApiInv
  <2>2. CASE UNCHANGED <<callers, lifecycle, limiter, active, channel, group>>
    BY <2>2 DEF lifecycle, LimiterAttachedInv
  <2> QED BY <2>1, <2>2, ClientsLeavePlugin
<1>3. ApiInv /\ LimiterAttachedInv => LimiterUsable
  BY LimiterInitialized DEF ApiInv
<1> QED BY <1>1, <1>2, <1>3, ApiInvariant, PTL DEF ApiSpec
=============================================================================
