----------------------------- MODULE RequestPath -----------------------------
(***************************************************************************)
(* Requests under the protection of Sentinel (api.go, middleware.go), the  *)
(* metrics collector that counts them (metrics.go) and the way they find   *)
(* the plugin (GetSentinel, plug.go), for one resource: the counters of    *)
(* different resources have nothing in common.                             *)
(*                                                                         *)
(* A request reads sentinelInitialized and metricsCollector under s.mu and *)
(* goes on without it. Meanwhile the plugin may be initialized again,      *)
(* which puts a new collector in place of the old one, the metrics may be  *)
(* reset, and a collector may be disabled and enabled: a record looks at   *)
(* that before it locks the collector, and counts later or not at all. The *)
(* verdict of the core (github.com/alibaba/sentinel-golang) is a free      *)
(* choice; of its state the open entries and the errors reported for them  *)
(* are kept.                                                               *)
(***************************************************************************)
EXTENDS Integers, FiniteSets

CONSTANTS
  Request,        \* Goroutines that make requests, one after the other.
  RTWindow,       \* How many response times are kept (100).
  MaxCalls,       \* Bound on the requests.
  MaxCollectors   \* Bound on the collectors created.

ASSUME RequestAssumption == IsFiniteSet(Request)
ASSUME BoundsAssumption ==
  RTWindow \in Nat \ {0} /\ MaxCalls \in Nat /\ MaxCollectors \in Nat

VARIABLES
  initialized,    \* sentinelInitialized
  collector,      \* metricsCollector: the latest one created, 0 if none.
  metrics,        \* What each collector has counted.
  disabled,       \* The collectors whose enabled is false.
  req,            \* What each goroutine is doing.
  open, traced,   \* The core: entries not exited; those with an error.
  calls,          \* How many requests were made.
  admitted,       \* History: requests let in, by the collector they read.
  dropped,        \* History: passed requests a reset threw away.
  switchedOff     \* History: the collectors that were disabled at some time.

plugin == <<initialized, collector>>
switch == <<disabled, switchedOff>>
history == <<calls, admitted, dropped>>
vars == <<plugin, metrics, switch, req, open, traced, history>>

Collector == 1 .. collector

\* "execute": Execute, ExecuteWithContext, the rate limiters and interceptors;
\* "protect": ProtectFunction, ProtectFunctionWithContext; "http":
\* CreateHTTPMiddleware; "entry": Entry, CheckFlow, which run no handler.
Kind == {"execute", "protect", "http", "entry"}

Place == {"idle", "snapshot", "verdict", "passed", "blocked", "again", "handler",
          "time", "trace", "exit"}

\* Where a request is about to call RecordPassed, RecordBlocked or RecordRT.
Recording == {"passed", "blocked", "time"}

\* found: GetSentinel returned the app's plugin; otherwise it made a new one.
\* counting: the record has found the collector enabled and will count.
\* outcome: of its handler, once that has been called.
Call == [at : Place, kind : Kind, found : BOOLEAN, collector : 0 .. collector,
         counting : BOOLEAN, outcome : {"none", "ok", "error", "panic"}]

Counts == [total : Nat, passed : Nat, blocked : Nat, samples : 0 .. RTWindow]

TypeOK ==
  /\ initialized \in BOOLEAN
  /\ collector \in 0 .. MaxCollectors
  /\ metrics \in [Collector -> Counts]
  /\ req \in [Request -> Call]
  /\ open \subseteq Request /\ traced \subseteq Request
  /\ disabled \subseteq Collector /\ switchedOff \subseteq Collector
  /\ calls \in 0 .. MaxCalls
  /\ admitted \in [Collector -> Nat] /\ dropped \in [Collector -> Nat]

NoCall == [at |-> "idle", kind |-> "entry", found |-> FALSE, collector |-> 0,
           counting |-> FALSE, outcome |-> "none"]

NoCounts == [total |-> 0, passed |-> 0, blocked |-> 0, samples |-> 0]

Init ==
  /\ initialized = FALSE
  /\ collector = 0 /\ metrics = [c \in Collector |-> NoCounts]
  /\ disabled = {} /\ switchedOff = {}
  /\ req = [r \in Request |-> NoCall]
  /\ open = {} /\ traced = {}
  /\ calls = 0
  /\ admitted = [c \in Collector |-> 0] /\ dropped = [c \in Collector |-> 0]

-----------------------------------------------------------------------------
(***************************************************************************)
(* The plugin around the requests.                                         *)
(***************************************************************************)
\* InitializeResources succeeds, with or without metrics.enabled.
Initialize ==
  /\ initialized' = TRUE
  /\ UNCHANGED <<switch, req, open, traced, calls>>
  /\ \/ UNCHANGED <<collector, metrics, admitted, dropped>>
     \/ /\ collector < MaxCollectors
        /\ collector' = collector + 1
        /\ LET Extend(f, value) == [c \in 1 .. collector + 1 |->
                                      IF c \in Collector THEN f[c] ELSE value]
           IN  /\ metrics' = Extend(metrics, NoCounts)
               /\ admitted' = Extend(admitted, 0)
               /\ dropped' = Extend(dropped, 0)

\* ResetMetrics: the counters of the current collector start over.
Reset ==
  /\ collector > 0
  /\ metrics' = [metrics EXCEPT ![collector] = NoCounts]
  /\ dropped' = [dropped EXCEPT ![collector] = @ + metrics[collector].passed]
  /\ UNCHANGED <<plugin, switch, req, open, traced, calls, admitted>>

\* SetEnabled, through a collector's pointer: it is published as a resource.
SetEnabled(c) ==
  /\ \/ disabled' = disabled \cup {c} /\ switchedOff' = switchedOff \cup {c}
     \/ disabled' = disabled \ {c} /\ UNCHANGED switchedOff
  /\ UNCHANGED <<plugin, metrics, req, open, traced, history>>

-----------------------------------------------------------------------------
(***************************************************************************)
(* Entry.                                                                  *)
(***************************************************************************)
\* A goroutine whose request is over keeps nothing of it.
Moved(q, place) == IF place = "idle" THEN NoCall ELSE [q EXCEPT !.at = place]

Goto(r, from, to) == req[r].at = from /\ req' = [req EXCEPT ![r] = Moved(@, to)]

\* Package-level functions look the plugin up, which the app may load and
\* unload, or get a new one from the factory that nobody has initialized.
Arrive(r) ==
  /\ calls < MaxCalls /\ calls' = calls + 1
  /\ req[r].at = "idle"
  /\ \E k \in Kind, found \in BOOLEAN :
       req' = [req EXCEPT ![r] = [NoCall EXCEPT !.at = "snapshot", !.kind = k,
                                                !.found = found]]
  /\ UNCHANGED <<plugin, metrics, switch, open, traced, admitted, dropped>>

\* Not initialized, or (there is none in the HTTP middleware) its context is
\* done: nothing is counted.
Refused(r) ==
  /\ Goto(r, "snapshot", "idle")
  /\ ~req[r].found \/ ~initialized \/ req[r].kind # "http"
  /\ UNCHANGED <<plugin, metrics, switch, open, traced, history>>

\* runtimeState
Snapshot(r) ==
  /\ req[r].at = "snapshot" /\ req[r].found /\ initialized
  /\ req' = [req EXCEPT ![r].at = "verdict", ![r].collector = collector]
  /\ UNCHANGED <<plugin, metrics, switch, open, traced, history>>

\* api.Entry
Admit(r) ==
  /\ Goto(r, "verdict", "passed")
  /\ open' = open \cup {r}
  /\ admitted' = IF req[r].collector = 0 THEN admitted
                 ELSE [admitted EXCEPT ![req[r].collector] = @ + 1]
  /\ UNCHANGED <<plugin, metrics, switch, traced, calls, dropped>>

Block(r) ==
  /\ Goto(r, "verdict", "blocked")
  /\ UNCHANGED <<plugin, metrics, switch, open, traced, history>>

AfterEntry(kind) ==
  CASE kind = "entry" -> "exit" [] kind = "http" -> "handler" [] OTHER -> "again"

\* Where a request goes from its record, whether that counts or returns early.
\* After the time is recorded an error is (RecordError, which only logs).
AfterRecord(q) ==
  CASE q.at = "passed" -> AfterEntry(q.kind)
    [] q.at = "blocked" -> "idle"
    [] q.at = "time" -> IF q.outcome = "error" THEN "trace" ELSE "exit"

\* RecordPassed, RecordBlocked and RecordRT look at enabled without a lock ...
FindEnabled(r) ==
  /\ req[r].at \in Recording /\ ~req[r].counting
  /\ req[r].collector \in Collector \ disabled
  /\ req' = [req EXCEPT ![r].counting = TRUE]
  /\ UNCHANGED <<plugin, metrics, switch, open, traced, history>>

\* Faulty: an error that is not recorded is not reported to the core either.
SkipRecordUntraced(r) ==
  /\ req[r].at \in Recording /\ ~req[r].counting
  /\ req[r].collector \notin Collector \ disabled
  /\ req' = [req EXCEPT ![r] = Moved(@, IF @.at = "time" THEN "exit" ELSE AfterRecord(@))]
  /\ UNCHANGED <<plugin, metrics, switch, open, traced, history>>

\* ... and return if it is false; without a collector there is no record.
SkipRecord(r) ==
  /\ req[r].at \in Recording /\ ~req[r].counting
  /\ req[r].collector \notin Collector \ disabled
  /\ req' = [req EXCEPT ![r] = Moved(@, AfterRecord(@))]
  /\ UNCHANGED <<plugin, metrics, switch, open, traced, history>>

\* The rest of a record, under the lock of the collector.
Record(r, place, counts) ==
  /\ req[r].at = place /\ req[r].counting
  /\ metrics' = [metrics EXCEPT ![req[r].collector] = counts]
  /\ req' = [req EXCEPT ![r] = [Moved(@, AfterRecord(@)) EXCEPT !.counting = FALSE]]
  /\ UNCHANGED <<plugin, switch, open, traced, history>>

Counted(r) == metrics[req[r].collector]

\* Faulty: only requests with a handler are counted.
RecordPassedIfRun(r) ==
  Record(r, "passed", IF req[r].kind = "entry" THEN Counted(r)
                      ELSE [Counted(r) EXCEPT !.total = @ + 1, !.passed = @ + 1])

RecordPassed(r) ==
  Record(r, "passed", [Counted(r) EXCEPT !.total = @ + 1, !.passed = @ + 1])

RecordBlocked(r) ==
  Record(r, "blocked", [Counted(r) EXCEPT !.total = @ + 1, !.blocked = @ + 1])

-----------------------------------------------------------------------------
(***************************************************************************)
(* Execute and CreateHTTPMiddleware, from the admission to the exit.       *)
(***************************************************************************)
\* Execute reads the collector once more.
SnapshotAgain(r) ==
  /\ req[r].at = "again"
  /\ req' = [req EXCEPT ![r].at = "handler", ![r].collector = collector]
  /\ UNCHANGED <<plugin, metrics, switch, open, traced, history>>

\* Where a request goes when its handler ends: a panic runs only the
\* deferred Exit; the HTTP middleware takes no time but reports a 5xx status.
AfterHandler(kind, outcome) ==
  CASE outcome = "panic" -> "exit"
    [] kind # "http" -> "time"
    [] outcome = "error" -> "trace"
    [] OTHER -> "exit"

\* Faulty: the exit is not deferred, so a panic skips it.
HandlerUndeferred(r) ==
  /\ req[r].at = "handler"
  /\ \E o \in {"ok", "error", "panic"} :
       req' = [req EXCEPT ![r] = IF o = "panic" THEN NoCall
                                 ELSE [req[r] EXCEPT !.at = AfterHandler(req[r].kind, o),
                                                     !.outcome = o]]
  /\ UNCHANGED <<plugin, metrics, switch, open, traced, history>>

Handler(r) ==
  /\ req[r].at = "handler"
  /\ \E o \in {"ok", "error", "panic"} :
       req' = [req EXCEPT ![r].at = AfterHandler(req[r].kind, o),
                          ![r].outcome = o]
  /\ UNCHANGED <<plugin, metrics, switch, open, traced, history>>

\* Faulty: one sample too many is kept.
WindowedLate(samples) == IF samples > RTWindow THEN samples ELSE samples + 1

\* Appended; the oldest goes when there are more than the window holds.
Windowed(samples) == IF samples + 1 > RTWindow THEN samples ELSE samples + 1

RecordRT(r) ==
  Record(r, "time", [Counted(r) EXCEPT !.samples = Windowed(@)])

\* api.TraceError
TraceError(r) ==
  /\ Goto(r, "trace", "exit")
  /\ traced' = traced \cup {r}
  /\ UNCHANGED <<plugin, metrics, switch, open, history>>

\* The deferred Exit, CheckFlow's, or that of the caller of Entry.
Exit(r) ==
  /\ Goto(r, "exit", "idle")
  /\ open' = open \ {r} /\ traced' = traced \ {r}
  /\ UNCHANGED <<plugin, metrics, switch, history>>

-----------------------------------------------------------------------------
Next ==
  \/ Initialize \/ Reset \/ \E c \in Collector : SetEnabled(c)
  \/ \E r \in Request :
       \/ Arrive(r) \/ Refused(r) \/ Snapshot(r)
       \/ Admit(r) \/ Block(r) \/ FindEnabled(r) \/ SkipRecord(r)
       \/ RecordPassed(r) \/ RecordBlocked(r) \/ RecordRT(r)
       \/ SnapshotAgain(r) \/ Handler(r) \/ TraceError(r) \/ Exit(r)

Spec == Init /\ [][Next]_vars

-----------------------------------------------------------------------------
\* An entry of the core is open exactly while its request is under way, panic
\* or not: "otherwise concurrency/statistic counters never decrement and
\* flow/breaker rules eventually block all traffic" (middleware.go:60).
EntriesAreExited ==
  \A r \in Request :
    r \in open <=> req[r].at \in {"passed", "again", "handler", "time", "trace", "exit"}

\* When the entry of a request is exited the core has been told of the error
\* its handler returned, or of the server error it sent, and of nothing else.
\* A handler that panicked has returned no error: it is exited unreported.
FailuresReachTheCore ==
  [][\A r \in open \ open' : r \in traced <=> req[r].outcome = "error"]_vars

\* No request that was let in is counted twice, whatever resets, switches and
\* new collectors come between its steps; and if the collector it read was
\* never disabled none is lost: it is counted, or was thrown away by a reset,
\* or its record is still to come.
AdmissionsAreCounted ==
  \A c \in Collector :
    LET pending == {r \in Request : req[r].at = "passed" /\ req[r].collector = c}
        known == metrics[c].passed + dropped[c] + Cardinality(pending)
    IN  known <= admitted[c] /\ (c \notin switchedOff => known = admitted[c])
=============================================================================
