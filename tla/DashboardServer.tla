--------------------------- MODULE DashboardServer ---------------------------
(***************************************************************************)
(* The dashboards of the plugin (dashboard.go) over its re-initializations *)
(* and restarts. InitializeResources puts a new DashboardServer object in  *)
(* s.dashboardServer when the dashboard is enabled, and leaves the old one *)
(* there when it is not; object o is the o-th one created. Every startup   *)
(* that launches workers runs Start on the object it finds: instance i is  *)
(* the i-th of these goroutines, server i the http.Server it stores in     *)
(* ds.server, listener i the one it binds.                                 *)
(*                                                                         *)
(* Start hands its listener to one more goroutine, which is in no wait     *)
(* group and reads ds.server only when it runs; Start itself reads the     *)
(* field again to shut the server down. A startup may follow another one   *)
(* that was not stopped, or a cleanup that gave up waiting                 *)
(* (PluginLifecycle): "overlapped" records the objects Start was run on    *)
(* while an earlier instance of theirs was not gone.                       *)
(*                                                                         *)
(* Of net/http: Shutdown marks the server, closes the listeners it serves  *)
(* and waits for open connections, which may stay open for ever, but not   *)
(* longer than its context (5 s); Serve on a marked server returns at      *)
(* once; whenever Serve returns it closes the listener. Two objects may or *)
(* may not have the same port.                                             *)
(***************************************************************************)
EXTENDS Integers

CONSTANTS
  MaxStarts,      \* Bound on the instances.
  MaxInits        \* Bound on the initializations that create an object.

ASSUME BoundsAssumption == MaxStarts \in Nat /\ MaxInits \in Nat

Instance == 1 .. MaxStarts
Object == 1 .. MaxInits
None == 0               \* A nil pointer.

VARIABLES
  object,       \* s.dashboardServer: the latest object, or None.
  launched,     \* How many instances have been launched.
  runs,         \* The object each of them runs on.
  inst,         \* Where each of them is, see Stage.
  stopped,      \* Instances whose stop channel is closed.
  server,       \* ds.server of each object.
  shut,         \* Servers that Shutdown has been called on.
  listener,     \* State of each listener, see ListenerState.
  servedBy,     \* The server that serves, or served, each listener.
  running,      \* ds.running of each object.
  uptime,       \* Objects with an entry in dashboardStartTimes.
  overlapped    \* History: objects whose instances overlapped.

threads == <<launched, runs, inst, stopped>>
net == <<shut, listener, servedBy>>
vars == <<object, threads, net, server, running, uptime, overlapped>>

\* In Shutdown: "hanging" on open connections, or "draining", which soon ends.
Stage == {"none", "launched", "prepared", "bound", "serving", "draining", "hanging",
          "leaving", "done"}

\* From setRunning(true) to the deferred setRunning(false).
Up == {"serving", "draining", "hanging"}

\* "handed" is with the goroutine that will call Serve.
ListenerState == {"none", "bound", "handed", "served", "closed"}

TypeOK ==
  /\ object \in Object \cup {None} /\ launched \in 0 .. MaxStarts
  /\ runs \in [Instance -> Object \cup {None}]
  /\ inst \in [Instance -> Stage]
  /\ stopped \subseteq Instance
  /\ server \in [Object -> Instance \cup {None}]
  /\ shut \subseteq Instance
  /\ listener \in [Instance -> ListenerState]
  /\ servedBy \in [Instance -> Instance \cup {None}]
  /\ running \in [Object -> BOOLEAN]
  /\ uptime \subseteq Object /\ overlapped \subseteq Object

Init ==
  /\ object = None /\ launched = 0
  /\ runs = [i \in Instance |-> None]
  /\ inst = [i \in Instance |-> "none"]
  /\ stopped = {}
  /\ server = [o \in Object |-> None]
  /\ shut = {}
  /\ listener = [i \in Instance |-> "none"]
  /\ servedBy = [i \in Instance |-> None]
  /\ running = [o \in Object |-> FALSE]
  /\ uptime = {} /\ overlapped = {}

Goto(i, from, to) == inst[i] = from /\ inst' = [inst EXCEPT ![i] = to]

Taken == {"bound", "handed", "served"}

\* By a listener of the same object, so on the same port for certain.
PortTaken(o) == \E l \in Instance : runs[l] = o /\ listener[l] \in Taken

-----------------------------------------------------------------------------
(***************************************************************************)
(* The plugin around the dashboard.                                        *)
(***************************************************************************)
\* InitializeResources with dashboard.enabled.
Initialize ==
  /\ object < MaxInits /\ object' = object + 1
  /\ UNCHANGED <<threads, net, server, running, uptime, overlapped>>

\* Startup: go s.dashboardServer.Start(&s.wg, s.stopCh).
Launch ==
  /\ object # None
  /\ launched < MaxStarts /\ launched' = launched + 1
  /\ runs' = [runs EXCEPT ![launched + 1] = object]
  /\ inst' = [inst EXCEPT ![launched + 1] = "launched"]
  /\ overlapped' = overlapped \cup
       {o \in {object} : \E i \in Instance : runs[i] = o /\ inst[i] # "done"}
  /\ UNCHANGED <<object, net, stopped, server, running, uptime>>

\* Cleanup, or the rollback of a startup: signalStop, which reaches every
\* instance launched since the last one.
Stop ==
  /\ launched \notin stopped \cup {0}
  /\ stopped' = 1 .. launched
  /\ UNCHANGED <<object, launched, runs, inst, net, server, running, uptime, overlapped>>

-----------------------------------------------------------------------------
(***************************************************************************)
(* DashboardServer.Start.                                                  *)
(***************************************************************************)
\* Faulty: the new http.Server is not stored.
PrepareUnstored(i) ==
  /\ Goto(i, "launched", "prepared")
  /\ uptime' = uptime \cup {runs[i]}
  /\ UNCHANGED <<object, launched, runs, stopped, net, server, running, overlapped>>

\* Faulty: the start time is not.
PrepareUntimed(i) ==
  /\ Goto(i, "launched", "prepared")
  /\ server' = [server EXCEPT ![runs[i]] = i]
  /\ UNCHANGED <<object, launched, runs, stopped, net, running, uptime, overlapped>>

\* Up to the bind: the start time and the new http.Server are stored.
Prepare(i) ==
  /\ Goto(i, "launched", "prepared")
  /\ uptime' = uptime \cup {runs[i]}
  /\ server' = [server EXCEPT ![runs[i]] = i]
  /\ UNCHANGED <<object, launched, runs, stopped, net, running, overlapped>>

\* The port is in use, by an earlier listener or by another process.
BindFails(i) ==
  /\ Goto(i, "prepared", "leaving")
  /\ running' = [running EXCEPT ![runs[i]] = FALSE]
  /\ UNCHANGED <<object, launched, runs, stopped, net, server, uptime, overlapped>>

Bind(i) ==
  /\ ~PortTaken(runs[i])
  /\ Goto(i, "prepared", "bound")
  /\ listener' = [listener EXCEPT ![i] = "bound"]
  /\ UNCHANGED <<object, launched, runs, stopped, shut, servedBy, server,
                 running, uptime, overlapped>>

\* Faulty: the bind is not recorded.
AnnounceUnset(i) ==
  /\ Goto(i, "bound", "serving")
  /\ listener' = [listener EXCEPT ![i] = "handed"]
  /\ UNCHANGED <<object, launched, runs, stopped, shut, servedBy, server,
                 running, uptime, overlapped>>

\* setRunning(true), and the goroutine that will call Serve.
Announce(i) ==
  /\ Goto(i, "bound", "serving")
  /\ running' = [running EXCEPT ![runs[i]] = TRUE]
  /\ listener' = [listener EXCEPT ![i] = "handed"]
  /\ UNCHANGED <<object, launched, runs, stopped, shut, servedBy, server,
                 uptime, overlapped>>

\* Shutdown of server s: its listeners are closed.
Closed(s) ==
  [l \in Instance |-> IF listener[l] = "served" /\ servedBy[l] = s THEN "closed"
                      ELSE listener[l]]

\* Faulty: the server refuses new work but its listener is not closed.
BeginShutdownOpen(i) ==
  /\ i \in stopped
  /\ Goto(i, "serving", "draining")
  /\ shut' = shut \cup {server[runs[i]]}
  /\ UNCHANGED <<object, launched, runs, stopped, listener, servedBy, server, running, uptime,
                 overlapped>>

\* <-stopCh, then Shutdown of what ds.server is now. Connections may be open
\* if that server has served a listener.
BeginShutdown(i) ==
  /\ i \in stopped
  /\ \/ Goto(i, "serving", "draining")
     \/ /\ \E l \in Instance : servedBy[l] = server[runs[i]]
        /\ Goto(i, "serving", "hanging")
  /\ shut' = shut \cup {server[runs[i]]}
  /\ listener' = Closed(server[runs[i]])
  /\ UNCHANGED <<object, launched, runs, stopped, servedBy, server, running, uptime, overlapped>>

\* The connections a Shutdown waits for are closed, if they ever are.
ConnectionsClose(i) ==
  /\ Goto(i, "hanging", "draining")
  /\ UNCHANGED <<object, launched, runs, stopped, net, server, running, uptime, overlapped>>

\* Faulty: the deferred setRunning(false) is missing.
EndShutdownRunning(i) ==
  /\ \E from \in {"draining", "hanging"} : Goto(i, from, "leaving")
  /\ UNCHANGED <<object, launched, runs, stopped, net, server, running, uptime, overlapped>>

\* Faulty: Shutdown gets a context without an end.
EndShutdownUnbounded(i) ==
  /\ Goto(i, "draining", "leaving")
  /\ running' = [running EXCEPT ![runs[i]] = FALSE]
  /\ UNCHANGED <<object, launched, runs, stopped, net, server, uptime, overlapped>>

\* Shutdown returns, from "hanging" after 5 s; setRunning(false).
EndShutdown(i) ==
  /\ \E from \in {"draining", "hanging"} : Goto(i, from, "leaving")
  /\ running' = [running EXCEPT ![runs[i]] = FALSE]
  /\ UNCHANGED <<object, launched, runs, stopped, net, server, uptime, overlapped>>

\* The remaining deferred calls: the start time is deleted, wg.Done.
Leave(i) ==
  /\ Goto(i, "leaving", "done")
  /\ uptime' = uptime \ {runs[i]}
  /\ UNCHANGED <<object, launched, runs, stopped, net, server, running, overlapped>>

-----------------------------------------------------------------------------
\* The goroutine of listener l runs: ds.server.Serve(listener).
Serve(l) ==
  /\ listener[l] = "handed"
  /\ LET s == server[runs[l]]
     IN  IF s \in shut
           THEN listener' = [listener EXCEPT ![l] = "closed"] /\ UNCHANGED servedBy
           ELSE /\ listener' = [listener EXCEPT ![l] = "served"]
                /\ servedBy' = [servedBy EXCEPT ![l] = s]
  /\ UNCHANGED <<object, threads, shut, server, running, uptime, overlapped>>

\* Accept fails for good: Serve returns, which is logged and nothing else.
ServeFails(l) ==
  /\ listener[l] = "served"
  /\ listener' = [listener EXCEPT ![l] = "closed"]
  /\ UNCHANGED <<object, threads, shut, servedBy, server, running, uptime, overlapped>>

-----------------------------------------------------------------------------
Start(i) ==
  \/ Prepare(i) \/ BindFails(i) \/ Bind(i) \/ Announce(i)
  \/ BeginShutdown(i) \/ EndShutdown(i) \/ Leave(i)

Next ==
  \/ Initialize \/ Launch \/ Stop
  \/ \E i \in Instance : Start(i) \/ ConnectionsClose(i) \/ Serve(i) \/ ServeFails(i)

Spec == Init /\ [][Next]_vars

\* Goroutines that can run do, and a timeout comes; nothing makes the
\* application start or stop, or a client close its connection.
FairSpec == Spec /\ \A i \in Instance : WF_vars(Start(i)) /\ WF_vars(Serve(i))

-----------------------------------------------------------------------------
\* IsRunning never reports a server whose goroutine is gone, however instances
\* overlap: the last write to ds.running is the one of an instance that stays.
\* As long as none of an object do, it reports exactly the instances that are
\* up: no late write resets the flag under the one that serves.
RunningHasInstance ==
  \A o \in Object :
    LET up == \E i \in Instance : runs[i] = o /\ inst[i] \in Up
    IN  (running[o] => up) /\ (o \notin overlapped => running[o] = up)

\* As long as no instance of an object overlaps another, a dashboard that
\* reports "running" knows its start time (handleHealth).
UptimeWhileRunning == \A o \in Object \ overlapped : running[o] => o \in uptime

\* As long as no instance of an object overlaps another, a listener served by
\* the server of its own instance is served only between that instance's bind
\* and its Shutdown, and with IsRunning true; what other objects do meanwhile
\* does not matter.
OwnServerEndsWithInstance ==
  \A l \in Instance :
    runs[l] \notin overlapped /\ listener[l] = "served" /\ servedBy[l] = l
      => inst[l] = "serving" /\ running[runs[l]]

\* An instance that was told to stop leaves the wait group, even if clients
\* keep their connections open for ever.
StoppedInstancesLeave == \A i \in Instance : i \in stopped ~> inst[i] = "done"

\* And its listener is closed in the end, served or not, unless an instance
\* overlapped it or its late Serve ran on the server of a later one.
StoppedListenersClose ==
  \A l \in Instance :
    l \in stopped ~> \/ listener[l] \in {"none", "closed"}
                     \/ runs[l] \in overlapped
                     \/ servedBy[l] \notin {None, l}

\* "IsRunning returns whether the server actually bound its listener and is
\* serving" (dashboard.go:299): once every instance has settled, after clean
\* stops and restarts only, a dashboard that is served is running.
TruthfulAfterCleanStops ==
  /\ overlapped = {}
  /\ \A i \in 1 .. launched : inst[i] \in {"serving", "done"}
  => \A l \in Instance : listener[l] = "served" => running[runs[l]]
=============================================================================
