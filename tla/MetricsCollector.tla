-------------------------- MODULE MetricsCollector --------------------------
(***************************************************************************)
(* The metrics collector (metrics.go): goroutines that record requests and *)
(* response times, goroutines that sum up what was recorded (the accessors *)
(* of the package, the dashboard's handlers and the collector's own tick), *)
(* and whoever has it from the runtime's private resources and resets it,  *)
(* switches it or changes its interval.                                    *)
(*                                                                         *)
(* Recorders read "enabled" before they lock mc.mu. Under the lock a       *)
(* request is two increments in two maps, a summary one step per resource. *)
(* A resource is in the map of requests exactly if it has a request.       *)
(* Times and intervals are integers; the interval is any number a          *)
(* configuration or SetInterval can give it.                               *)
(***************************************************************************)
EXTENDS Integers, FiniteSets, SequencesExt

CONSTANTS
  Recorder,     \* Goroutines that record, one after the other.
  Reader,       \* Goroutines that sum up.
  Worker,       \* The reader that is the collector's own goroutine.
  Resource,
  Time,         \* Response times.
  Interval,     \* Intervals offered to NewMetricsCollector and SetInterval.
  RTWindow,     \* How many response times are kept (100).
  MaxRecords    \* Bound on the records since the last reset.

ASSUME SetsAssumption ==
  /\ IsFiniteSet(Recorder) /\ IsFiniteSet(Resource)
  /\ Worker \in Reader /\ Recorder \cap Reader = {}
ASSUME TimesAssumption == Time \subseteq Nat /\ Interval \subseteq Int
ASSUME BoundsAssumption == RTWindow \in Nat \ {0} /\ MaxRecords \in Nat

VARIABLES
  enabled, interval,        \* mc.enabled, mc.interval
  total, passed, blocked,   \* The counters of each resource.
  rt,                       \* Its response times.
  mu,                       \* Who has mc.mu: readers, or one recorder.
  job,                      \* What each recorder is doing.
  sum,                      \* What each reader has added up.
  worker,                   \* The goroutine of Start.
  seen,                     \* History: response times since the last reset.
  late,                     \* History: records of each recorder while disabled.
  lately                    \* History: requests before and since the last tick.

counters == <<total, passed, blocked>>
settings == <<enabled, interval>>
history == <<seen, late, lately>>
vars == <<settings, counters, rt, mu, job, sum, worker, history>>

Record == {"passed", "blocked", "rt"}

Job ==
  [at : {"idle"}] \cup
  [at : {"checked", "counted"}, record : Record, resource : Resource, time : Time]

\* left: the resources it still has to visit.
Sum == [left : SUBSET Resource, total : Nat, passed : Nat, blocked : Nat]

TypeOK ==
  /\ enabled \in BOOLEAN /\ interval \in Interval
  /\ total \in [Resource -> Nat]
  /\ passed \in [Resource -> Nat] /\ blocked \in [Resource -> Nat]
  /\ rt \in [Resource -> Seq(Time)] /\ \A r \in Resource : Len(rt[r]) <= RTWindow
  /\ mu \subseteq Recorder \cup Reader
  /\ job \in [Recorder -> Job] /\ sum \in [Reader -> Sum]
  /\ worker \in {"new", "ticking", "done", "crashed"}
  /\ seen \in [Resource -> Seq(Time)]
  /\ late \in [Recorder -> Nat]
  /\ lately \in [Resource -> [before : Nat, since : Nat]]

Idle == [at |-> "idle"]
NoSum == [left |-> {}, total |-> 0, passed |-> 0, blocked |-> 0]
Zero == [r \in Resource |-> 0]

\* NewMetricsCollector
Init ==
  /\ enabled = TRUE /\ interval \in Interval
  /\ total = Zero /\ passed = Zero /\ blocked = Zero
  /\ rt = [r \in Resource |-> <<>>]
  /\ mu = {}
  /\ job = [g \in Recorder |-> Idle]
  /\ sum = [q \in Reader |-> NoSum]
  /\ worker = "new"
  /\ seen = [r \in Resource |-> <<>>]
  /\ late = [g \in Recorder |-> 0]
  /\ lately = [r \in Resource |-> [before |-> 0, since |-> 0]]

-----------------------------------------------------------------------------
(***************************************************************************)
(* RecordPassed, RecordBlocked and RecordRT; RecordError only logs.        *)
(***************************************************************************)
Records ==
  MapThenSumSet(LAMBDA r : total[r] + Len(seen[r]), Resource)
    + Cardinality({g \in Recorder : job[g].at = "checked"})

\* Faulty: "enabled" is not looked at.
CheckNothing(g) ==
  /\ Records < MaxRecords
  /\ job[g] = Idle
  /\ \E k \in Record, r \in Resource, t \in Time :
       job' = [job EXCEPT ![g] = [at |-> "checked", record |-> k, resource |-> r, time |-> t]]
  /\ UNCHANGED <<settings, counters, rt, mu, sum, worker, history>>

Check(g) ==
  /\ Records < MaxRecords
  /\ job[g] = Idle /\ enabled
  /\ \E k \in Record, r \in Resource, t \in Time :
       job' = [job EXCEPT ![g] = [at |-> "checked", record |-> k, resource |-> r, time |-> t]]
  /\ UNCHANGED <<settings, counters, rt, mu, sum, worker, history>>

\* Faulty: under the lock for reading.
CountRequestShared(g) ==
  /\ job[g].at = "checked" /\ job[g].record # "rt"
  /\ mu \subseteq Reader /\ mu' = mu \cup {g}
  /\ total' = [total EXCEPT ![job[g].resource] = @ + 1]
  /\ lately' = [lately EXCEPT ![job[g].resource].since = @ + 1]
  /\ job' = [job EXCEPT ![g].at = "counted"]
  /\ UNCHANGED <<settings, passed, blocked, rt, sum, worker, seen, late>>

CountRequest(g) ==
  /\ job[g].at = "checked" /\ job[g].record # "rt"
  /\ mu = {} /\ mu' = {g}
  /\ total' = [total EXCEPT ![job[g].resource] = @ + 1]
  /\ lately' = [lately EXCEPT ![job[g].resource].since = @ + 1]
  /\ job' = [job EXCEPT ![g].at = "counted"]
  /\ UNCHANGED <<settings, passed, blocked, rt, sum, worker, seen, late>>

Counted(g) == late' = [late EXCEPT ![g] = IF enabled THEN @ ELSE @ + 1]

CountVerdict(g) ==
  /\ job[g].at = "counted"
  /\ IF job[g].record = "passed"
       THEN passed' = [passed EXCEPT ![job[g].resource] = @ + 1] /\ UNCHANGED blocked
       ELSE blocked' = [blocked EXCEPT ![job[g].resource] = @ + 1] /\ UNCHANGED passed
  /\ mu' = mu \ {g}
  /\ job' = [job EXCEPT ![g] = Idle]
  /\ Counted(g)
  /\ UNCHANGED <<settings, total, rt, sum, worker, seen, lately>>

\* Faulty: the newest goes when the window is full.
WindowedOldest(s) == IF Len(s) > RTWindow THEN Front(s) ELSE s

\* Faulty: one too many is kept.
WindowedLate(s) == IF Len(s) > RTWindow + 1 THEN Tail(s) ELSE s

\* The oldest goes when there are more than the window holds.
Windowed(s) == IF Len(s) > RTWindow THEN Tail(s) ELSE s

RecordRT(g) ==
  /\ job[g].at = "checked" /\ job[g].record = "rt"
  /\ mu = {}
  /\ LET r == job[g].resource
     IN  /\ rt' = [rt EXCEPT ![r] = Windowed(Append(@, job[g].time))]
         /\ seen' = [seen EXCEPT ![r] = Append(@, job[g].time)]
  /\ job' = [job EXCEPT ![g] = Idle]
  /\ Counted(g)
  /\ UNCHANGED <<settings, counters, mu, sum, worker, lately>>

-----------------------------------------------------------------------------
(***************************************************************************)
(* GetMetricsSummary, GetAllResourceStats and collectMetrics visit every   *)
(* resource under the lock for reading.                                    *)
(***************************************************************************)
BeginSum(q) ==
  /\ q \notin mu /\ mu \subseteq Reader /\ mu' = mu \cup {q}
  /\ sum' = [sum EXCEPT ![q] = [NoSum EXCEPT !.left = {r \in Resource : total[r] > 0}]]

Summarize(q) ==
  /\ q # Worker
  /\ BeginSum(q)
  /\ UNCHANGED <<settings, counters, rt, job, worker, history>>

Visit(q) ==
  /\ q \in mu
  /\ \E r \in sum[q].left :
       sum' = [sum EXCEPT ![q] = [left |-> @.left \ {r}, total |-> @.total + total[r],
                                  passed |-> @.passed + passed[r],
                                  blocked |-> @.blocked + blocked[r]]]
  /\ UNCHANGED <<settings, counters, rt, mu, job, worker, history>>

\* The result is returned, or logged.
EndSum(q) ==
  /\ q \in mu /\ sum[q].left = {}
  /\ mu' = mu \ {q}
  /\ sum' = [sum EXCEPT ![q] = NoSum]
  /\ UNCHANGED <<settings, counters, rt, job, worker, history>>

\* A response time t, added to those of a.
Adding(a, t) ==
  [sum |-> a.sum + t,
   min |-> IF t < a.min THEN t ELSE a.min,
   max |-> IF t > a.max THEN t ELSE a.max]

\* The loop of calculateResourceStats, over a window that is not empty.
RTTotals(s) == FoldLeft(Adding, [sum |-> 0, min |-> s[1], max |-> s[1]], s)

\* Faulty: the average is taken over a full window.
RTStatsOfFull(s) ==
  LET all == RTTotals(s)
  IN  [avg |-> all.sum \div RTWindow, min |-> all.min, max |-> all.max]

\* AvgRT, MinRT and MaxRT; the average to the integer below.
RTStats(s) ==
  LET all == RTTotals(s)
  IN  [avg |-> all.sum \div Len(s), min |-> all.min, max |-> all.max]

-----------------------------------------------------------------------------
(***************************************************************************)
(* Reset, SetEnabled, SetInterval, under the lock for writing.             *)
(***************************************************************************)
\* Faulty: under the lock for reading.
ResetShared ==
  /\ mu \subseteq Reader
  /\ total' = Zero /\ passed' = Zero /\ blocked' = Zero
  /\ rt' = [r \in Resource |-> <<>>] /\ seen' = [r \in Resource |-> <<>>]
  /\ lately' = [r \in Resource |-> [before |-> 0, since |-> 0]]
  /\ UNCHANGED <<settings, mu, job, sum, worker, late>>

Reset ==
  /\ mu = {}
  /\ total' = Zero /\ passed' = Zero /\ blocked' = Zero
  /\ rt' = [r \in Resource |-> <<>>] /\ seen' = [r \in Resource |-> <<>>]
  /\ lately' = [r \in Resource |-> [before |-> 0, since |-> 0]]
  /\ UNCHANGED <<settings, mu, job, sum, worker, late>>

SetEnabled ==
  /\ mu = {}
  /\ enabled' \in BOOLEAN
  /\ late' = IF enabled' THEN [g \in Recorder |-> 0] ELSE late
  /\ UNCHANGED <<interval, counters, rt, mu, job, sum, worker, seen, lately>>

SetInterval ==
  /\ mu = {}
  /\ interval' \in Interval
  /\ UNCHANGED <<enabled, counters, rt, mu, job, sum, worker, history>>

-----------------------------------------------------------------------------
(***************************************************************************)
(* MetricsCollector.Start.                                                 *)
(***************************************************************************)
StartDisabled ==
  /\ worker = "new" /\ ~enabled /\ worker' = "done"
  /\ UNCHANGED <<settings, counters, rt, mu, job, sum, history>>

\* time.NewTicker panics.
StartCrashes ==
  /\ worker = "new" /\ enabled /\ interval <= 0 /\ worker' = "crashed"
  /\ UNCHANGED <<settings, counters, rt, mu, job, sum, history>>

Start ==
  /\ worker = "new" /\ enabled /\ interval > 0 /\ worker' = "ticking"
  /\ UNCHANGED <<settings, counters, rt, mu, job, sum, history>>

\* An interval of the ticker is over: collectMetrics.
Tick ==
  /\ worker = "ticking"
  /\ BeginSum(Worker)
  /\ lately' = [r \in Resource |-> [before |-> lately[r].since, since |-> 0]]
  /\ UNCHANGED <<settings, counters, rt, job, worker, seen, late>>

\* The stop channel is closed, between two ticks.
Stop ==
  /\ worker = "ticking" /\ Worker \notin mu /\ worker' = "done"
  /\ UNCHANGED <<settings, counters, rt, mu, job, sum, history>>

\* With the process.
Died == worker = "crashed" /\ UNCHANGED vars

-----------------------------------------------------------------------------
Alive ==
  /\ worker # "crashed"
  /\ \/ \E g \in Recorder : Check(g) \/ CountRequest(g) \/ CountVerdict(g) \/ RecordRT(g)
     \/ \E q \in Reader : Summarize(q) \/ Visit(q) \/ EndSum(q)
     \/ Reset \/ SetEnabled \/ SetInterval
     \/ StartDisabled \/ StartCrashes \/ Start \/ Tick \/ Stop

Next == Alive \/ Died

Spec == Init /\ [][Next]_vars

-----------------------------------------------------------------------------
\* A summary that has visited every resource is the sum of the counters at one
\* moment, and its requests are its passed and its blocked ones: nobody records
\* while it is added up.
SummaryIsSnapshot ==
  \A q \in Reader :
    q \in mu /\ sum[q].left = {} =>
      /\ sum[q].total = sum[q].passed + sum[q].blocked
      /\ sum[q].total = MapThenSumSet(LAMBDA r : total[r], Resource)
      /\ sum[q].passed = MapThenSumSet(LAMBDA r : passed[r], Resource)
      /\ sum[q].blocked = MapThenSumSet(LAMBDA r : blocked[r], Resource)

Summary(q) ==
  IF q \in mu /\ sum[q].left = {}
  THEN {[total |-> sum[q].total, passed |-> sum[q].passed, blocked |-> sum[q].blocked]}
  ELSE {}

Counts == INSTANCE RequestCounts WITH summary <- [q \in Reader |-> Summary(q)]

\* To whoever records, resets and reads them the counters are those of
\* RequestCounts: the two increments of a request are one step, and so are the
\* many of a summary.
RequestCountsSpec == Counts!Spec

\* After SetEnabled(false) every goroutine records at most what it had checked
\* before.
OneLateRecord == \A g \in Recorder : late[g] <= 1

\* "Keep only recent RT values (last 100 requests)" (metrics.go:98): the window
\* holds the latest response times since the last reset, in their order.
WindowIsRecent ==
  \A r \in Resource :
    /\ IsSuffix(rt[r], seen[r])
    /\ rt[r] = seen[r] \/ Len(rt[r]) = RTWindow

\* AvgRT is the average of the times in the window, whatever their order;
\* MinRT and MaxRT are among them, bound all of them, and the average too.
StatsAreRight ==
  \A r \in Resource : rt[r] # <<>> =>
    LET stats == RTStats(rt[r])
        all == MapThenSumSet(LAMBDA i : rt[r][i], 1 .. Len(rt[r]))
    IN  /\ stats.avg = all \div Len(rt[r])
        /\ {stats.min, stats.max} \subseteq ToSet(rt[r])
        /\ \A t \in ToSet(rt[r]) \cup {stats.avg} : stats.min <= t /\ t <= stats.max

\* "Calculate QPS (requests per second) ... Simple QPS calculation based on
\* interval" (metrics.go:142): the requests divided by the interval were made
\* in the current interval or in the one before.
QPSIsRecent ==
  \A r \in Resource : total[r] <= lately[r].before + lately[r].since
=============================================================================
