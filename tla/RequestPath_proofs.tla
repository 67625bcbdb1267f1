-------------------------- MODULE RequestPath_proofs --------------------------
(***************************************************************************)
(* Proofs about RequestPath, for any set of goroutines, any window and any *)
(* bounds: first what a request's place says about its entry, its outcome  *)
(* and the core, then the counters, which need the cardinality of the set  *)
(* of requests that are admitted and not counted yet.                      *)
(***************************************************************************)
EXTENDS RequestPath, FiniteSetTheorems, TLAPS

\* What happened so far to a request's handler, and what the core was told.
Outcomes ==
  \A r \in Request :
    /\ req[r].at \in {"snapshot", "verdict", "passed", "again", "handler"} =>
         req[r].outcome = "none"
    /\ req[r].at = "time" => req[r].outcome \in {"ok", "error"}
    /\ req[r].at = "trace" => req[r].outcome = "error"
    /\ r \in traced <=> req[r].at = "exit" /\ req[r].outcome = "error"

\* A record that will count has found a collector; what was disabled is known.
Counting ==
  /\ \A r \in Request :
       req[r].counting => req[r].at \in Recording /\ req[r].collector \in Collector
  /\ disabled \subseteq switchedOff

\* Admitted by collector c and not counted by it yet.
Uncounted(c) == {r \in Request : req[r].at = "passed" /\ req[r].collector = c}

-----------------------------------------------------------------------------
\* No response time beyond the window is kept.
LEMMA WindowKept ==
  ASSUME NEW n \in 0 .. RTWindow
  PROVE  Windowed(n) \in 0 .. RTWindow
BY BoundsAssumption DEF Windowed

\* Without a new collector the types of the calls and the counters stay.
LEMMA SameTypes == collector' = collector => Collector' = Collector /\ Call' = Call
BY DEF Collector, Call

\* One goroutine's request may become any request.
LEMMA ReqTyped ==
  ASSUME TypeOK, NEW r \in Request, NEW q \in Call
  PROVE  [req EXCEPT ![r] = q] \in [Request -> Call]
BY DEF TypeOK

\* Moving a request keeps the type, with a collector read, an enabled
\* collector found or an outcome seen on the way.
LEMMA MovedTyped ==
  ASSUME TypeOK, NEW q \in Call, NEW p \in Place
  PROVE  /\ [q EXCEPT !.at = p] \in Call
         /\ [q EXCEPT !.at = p, !.collector = collector] \in Call
         /\ [q EXCEPT !.counting = TRUE] \in Call
         /\ \A o \in {"ok", "error", "panic"} : [q EXCEPT !.at = p, !.outcome = o] \in Call
         /\ Moved(q, p) \in Call
         /\ [Moved(q, p) EXCEPT !.counting = FALSE] \in Call
<1>1. collector \in 0 .. collector /\ 0 \in 0 .. collector
  BY BoundsAssumption DEF TypeOK
<1>2. NoCall \in Call
  BY <1>1 DEF NoCall, Call, Place, Kind
<1>3. [q EXCEPT !.at = p] \in Call
  BY DEF Call
<1>4. [q EXCEPT !.at = p, !.collector = collector] \in Call
  BY <1>1 DEF Call
<1>5. [q EXCEPT !.counting = TRUE] \in Call
  BY DEF Call
<1>6. ASSUME NEW o \in {"ok", "error", "panic"}
      PROVE  [q EXCEPT !.at = p, !.outcome = o] \in Call
  BY DEF Call
<1>7. Moved(q, p) \in Call
  BY <1>2, <1>3 DEF Moved
<1>8. ASSUME NEW x \in Call PROVE [x EXCEPT !.counting = FALSE] \in Call
  BY DEF Call
<1> QED BY <1>3, <1>4, <1>5, <1>6, <1>7, <1>8

\* A record leads to a place.
LEMMA AfterRecordTyped ==
  ASSUME NEW q \in Call, q.at \in Recording
  PROVE  AfterRecord(q) \in Place
BY DEF Recording, AfterRecord, AfterEntry, Place

\* What the three records do to the counters of a collector keeps the type.
LEMMA CountsTyped ==
  ASSUME NEW m \in Counts
  PROVE  /\ [m EXCEPT !.total = @ + 1, !.passed = @ + 1] \in Counts
         /\ [m EXCEPT !.total = @ + 1, !.blocked = @ + 1] \in Counts
         /\ [m EXCEPT !.samples = Windowed(@)] \in Counts
<1>1. /\ m.total + 1 \in Nat /\ m.passed + 1 \in Nat /\ m.blocked + 1 \in Nat
      /\ Windowed(m.samples) \in 0 .. RTWindow
      /\ m \in [total : Nat, passed : Nat, blocked : Nat, samples : 0 .. RTWindow]
  BY WindowKept DEF Counts
<1>2. [m EXCEPT !.total = @ + 1, !.passed = @ + 1] \in Counts
  BY <1>1 DEF Counts
<1>3. [m EXCEPT !.total = @ + 1, !.blocked = @ + 1] \in Counts
  BY <1>1 DEF Counts
<1>4. [m EXCEPT !.samples = Windowed(@)] \in Counts
  BY <1>1 DEF Counts
<1> QED BY <1>2, <1>3, <1>4

\* A record of a request that has found its collector.
LEMMA RecordTyped ==
  ASSUME TypeOK, Counting, NEW r \in Request, NEW place \in Recording, NEW counts \in Counts,
         Record(r, place, counts)
  PROVE  TypeOK'
<1>1. req[r] \in Call /\ req[r].at \in Recording
  BY DEF TypeOK, Record
<1>2. req' \in [Request -> Call]
  BY <1>1, AfterRecordTyped, MovedTyped, ReqTyped, Zenon DEF Record
<1>3. metrics' \in [Collector -> Counts]
  BY DEF Record, TypeOK
<1> QED BY <1>2, <1>3, SameTypes, Zenon DEF Record, plugin, switch, history, TypeOK

\* The three records are records with counters of their type.
LEMMA RecordsCount ==
  ASSUME TypeOK, Counting, NEW r \in Request,
         RecordPassed(r) \/ RecordBlocked(r) \/ RecordRT(r)
  PROVE  \E place \in Recording, counts \in Counts :
           /\ Record(r, place, counts)
           /\ counts.passed = IF place = "passed" THEN metrics[req[r].collector].passed + 1
                              ELSE metrics[req[r].collector].passed
<1> DEFINE m == metrics[req[r].collector]
<1>1. req[r].counting
  BY DEF RecordPassed, RecordBlocked, RecordRT, Record
<1>2. m \in Counts
  BY <1>1 DEF Counting, TypeOK
<1>3. CASE RecordPassed(r)
  <2> DEFINE counts == [m EXCEPT !.total = @ + 1, !.passed = @ + 1]
  <2>1. counts \in Counts /\ counts.passed = m.passed + 1
    BY <1>2, CountsTyped DEF Counts
  <2>2. Record(r, "passed", counts)
    BY <1>3 DEF RecordPassed, Counted
  <2> QED BY <2>1, <2>2 DEF Recording
<1>4. CASE RecordBlocked(r)
  <2> DEFINE counts == [m EXCEPT !.total = @ + 1, !.blocked = @ + 1]
  <2>1. counts \in Counts /\ counts.passed = m.passed
    BY <1>2, CountsTyped DEF Counts
  <2>2. Record(r, "blocked", counts)
    BY <1>4 DEF RecordBlocked, Counted
  <2> QED BY <2>1, <2>2 DEF Recording
<1>5. CASE RecordRT(r)
  <2> DEFINE counts == [m EXCEPT !.samples = Windowed(@)]
  <2>1. counts \in Counts /\ counts.passed = m.passed
    BY <1>2, CountsTyped DEF Counts
  <2>2. Record(r, "time", counts)
    BY <1>5 DEF RecordRT, Counted
  <2> QED BY <2>1, <2>2 DEF Recording
<1> QED BY <1>3, <1>4, <1>5

\* Every variable keeps its type, and who will count has found its collector.
THEOREM CountingInvariant == Spec => [](TypeOK /\ Counting)
<1>1. ASSUME Init PROVE TypeOK /\ Counting
  <2>1. req \in [Request -> Call]
    BY <1>1 DEF Init, NoCall, Call, Place, Kind
  <2>2. /\ metrics \in [Collector -> Counts]
        /\ admitted \in [Collector -> Nat] /\ dropped \in [Collector -> Nat]
    BY <1>1 DEF Init, Collector
  <2>3. collector \in 0 .. MaxCollectors /\ calls \in 0 .. MaxCalls
    BY <1>1, BoundsAssumption DEF Init
  <2>4. initialized \in BOOLEAN /\ disabled \subseteq Collector /\ switchedOff \subseteq Collector
    BY <1>1 DEF Init
  <2>5. open \subseteq Request /\ traced \subseteq Request
    BY <1>1 DEF Init
  <2>6. Counting
    BY <1>1 DEF Init, NoCall, Counting
  <2> QED BY <2>1, <2>2, <2>3, <2>4, <2>5, <2>6 DEF TypeOK
<1>2. TypeOK /\ Counting /\ [Next]_vars => TypeOK'
  <2> SUFFICES ASSUME TypeOK, Counting, [Next]_vars PROVE TypeOK'
    OBVIOUS
  <2>0. \A r \in Request : req[r] \in Call
    BY DEF TypeOK
  <2>1. CASE Initialize
    <3>1. collector' \in 0 .. MaxCollectors /\ 0 .. collector \subseteq 0 .. collector'
      BY <2>1, BoundsAssumption DEF Initialize, TypeOK
    <3>2. metrics' \in [Collector' -> Counts]
      <4>1. NoCounts \in Counts
        BY BoundsAssumption DEF NoCounts, Counts
      <4> QED BY <2>1, <4>1 DEF Initialize, TypeOK, Collector
    <3>3. admitted' \in [Collector' -> Nat] /\ dropped' \in [Collector' -> Nat]
      <4>1. CASE UNCHANGED <<collector, admitted, dropped>>
        BY <4>1 DEF TypeOK, Collector
      <4>2. CASE collector' = collector + 1
        <5>1. /\ admitted' = [c \in 1 .. collector + 1 |->
                                 IF c \in Collector THEN admitted[c] ELSE 0]
              /\ dropped' = [c \in 1 .. collector + 1 |-> IF c \in Collector THEN dropped[c] ELSE 0]
          BY <2>1, <4>2, BoundsAssumption DEF Initialize, TypeOK
        <5> QED BY <4>2, <5>1 DEF TypeOK, Collector
      <4> QED BY <2>1, <4>1, <4>2 DEF Initialize
    <3>4. initialized' = TRUE /\ UNCHANGED <<switch, req, open, traced, calls>>
      BY <2>1 DEF Initialize
    <3>5. req' \in [Request -> Call']
      <4>1. Call \subseteq Call'
        BY <3>1 DEF Call
      <4> QED BY <3>4, <4>1 DEF TypeOK
    <3>6. disabled' \subseteq Collector' /\ switchedOff' \subseteq Collector'
      <4>1. Collector \subseteq Collector'
        BY <3>1, BoundsAssumption DEF Collector, TypeOK
      <4> QED BY <3>4, <4>1 DEF TypeOK, switch
    <3> QED BY <3>1, <3>2, <3>3, <3>4, <3>5, <3>6 DEF TypeOK
  <2>2. CASE Reset
    <3>1. NoCounts \in Counts
      BY BoundsAssumption DEF NoCounts, Counts
    <3>2. metrics[collector].passed \in Nat
      BY <2>2 DEF Reset, TypeOK, Collector, Counts
    <3>3. metrics' \in [Collector -> Counts]
      BY <2>2, <3>1 DEF Reset, TypeOK
    <3>4. dropped' \in [Collector -> Nat]
      <4>1. collector \in Collector
        BY <2>2 DEF Reset, TypeOK, Collector
      <4>2. dropped[collector] + metrics[collector].passed \in Nat
        BY <3>2, <4>1 DEF TypeOK
      <4> QED BY <2>2, <4>2 DEF Reset, TypeOK
    <3> QED BY <2>2, <3>3, <3>4, SameTypes, Zenon DEF Reset, plugin, switch, TypeOK
  <2>3. ASSUME NEW c \in Collector, SetEnabled(c) PROVE TypeOK'
    <3>1. disabled' \subseteq Collector /\ switchedOff' \subseteq Collector
      BY <2>3 DEF SetEnabled, TypeOK
    <3> QED BY <2>3, <3>1, SameTypes, Zenon DEF SetEnabled, plugin, history, TypeOK
  <2>4. ASSUME NEW r \in Request, Arrive(r) PROVE TypeOK'
    <3>1. PICK k \in Kind, found \in BOOLEAN :
            req' = [req EXCEPT ![r] = [NoCall EXCEPT !.at = "snapshot", !.kind = k,
                                                     !.found = found]]
      BY <2>4 DEF Arrive
    <3>2. [NoCall EXCEPT !.at = "snapshot", !.kind = k, !.found = found] \in Call
      <4>1. 0 \in 0 .. collector
        BY BoundsAssumption DEF TypeOK
      <4> QED BY <4>1, Zenon DEF NoCall, Call, Place
    <3>3. req' \in [Request -> Call]
      BY <3>1, <3>2, ReqTyped
    <3>4. calls' \in 0 .. MaxCalls
      BY <2>4, BoundsAssumption DEF Arrive, TypeOK
    <3> QED BY <2>4, <3>3, <3>4, SameTypes, Zenon DEF Arrive, plugin, switch, TypeOK
  <2>5. ASSUME NEW r \in Request, NEW from, NEW to \in Place, Goto(r, from, to)
        PROVE  req' \in [Request -> Call]
    BY <2>0, <2>5, MovedTyped, ReqTyped, Zenon DEF Goto
  <2>6. ASSUME NEW r \in Request, Refused(r) \/ Block(r) \/ TraceError(r) \/ Exit(r)
        PROVE  TypeOK'
    <3>1. \E from, to \in Place : Goto(r, from, to)
      BY <2>6 DEF Refused, Block, TraceError, Exit, Place
    <3>2. req' \in [Request -> Call]
      BY <2>5, <3>1
    <3>3. open' \subseteq Request /\ traced' \subseteq Request
      BY <2>6 DEF Refused, Block, TraceError, Exit, TypeOK
    <3>4. UNCHANGED <<plugin, metrics, switch, history>>
      BY <2>6 DEF Refused, Block, TraceError, Exit
    <3> QED BY <3>2, <3>3, <3>4, SameTypes, Zenon DEF plugin, switch, history, TypeOK
  <2>7. ASSUME NEW r \in Request, Admit(r) PROVE TypeOK'
    <3>1. req' \in [Request -> Call]
      BY <2>5, <2>7 DEF Admit, Place
    <3>2. admitted' \in [Collector -> Nat]
      <4>1. req[r].collector \in 0 .. collector
        BY DEF TypeOK, Call
      <4> QED BY <2>7, <4>1 DEF Admit, TypeOK, Collector
    <3> QED BY <2>7, <3>1, <3>2, SameTypes, Zenon DEF Admit, plugin, switch, TypeOK
  <2>8. ASSUME NEW r \in Request, Snapshot(r) \/ SnapshotAgain(r) PROVE TypeOK'
    <3>1. PICK p \in Place :
            req' = [req EXCEPT ![r] = [req[r] EXCEPT !.at = p, !.collector = collector]]
      BY <2>8 DEF Snapshot, SnapshotAgain, Place, TypeOK
    <3>2. req' \in [Request -> Call]
      <4> DEFINE q == [req[r] EXCEPT !.at = p, !.collector = collector]
      <4>1. q \in Call
        BY <2>0, MovedTyped, Zenon
      <4> QED BY <3>1, <4>1, ReqTyped
    <3>3. UNCHANGED <<plugin, metrics, switch, open, traced, history>>
      BY <2>8 DEF Snapshot, SnapshotAgain
    <3> QED BY <3>2, <3>3, SameTypes, Zenon DEF plugin, switch, history, TypeOK
  <2>9. ASSUME NEW r \in Request, Handler(r) PROVE TypeOK'
    <3>1. PICK o \in {"ok", "error", "panic"} :
            req' = [req EXCEPT ![r].at = AfterHandler(req[r].kind, o), ![r].outcome = o]
      BY <2>9 DEF Handler
    <3>2. AfterHandler(req[r].kind, o) \in Place
      BY DEF AfterHandler, Place
    <3>3. req' = [req EXCEPT ![r] = [req[r] EXCEPT !.at = AfterHandler(req[r].kind, o),
                                                   !.outcome = o]]
      BY <3>1, Zenon DEF TypeOK
    <3>4. req' \in [Request -> Call]
      BY <2>0, <3>2, <3>3, MovedTyped, ReqTyped, Zenon
    <3> QED BY <2>9, <3>4, SameTypes, Zenon DEF Handler, plugin, switch, history, TypeOK
  <2>10. ASSUME NEW r \in Request, FindEnabled(r) \/ SkipRecord(r) PROVE TypeOK'
    <3>1. req' \in [Request -> Call]
      <4>1. CASE FindEnabled(r)
        <5>1. req' = [req EXCEPT ![r] = [req[r] EXCEPT !.counting = TRUE]]
          BY <4>1 DEF FindEnabled, TypeOK
        <5> QED BY <2>0, <5>1, MovedTyped, ReqTyped, Zenon DEF Place
      <4>2. CASE SkipRecord(r)
        BY <2>0, <4>2, AfterRecordTyped, MovedTyped, ReqTyped, Zenon DEF SkipRecord
      <4> QED BY <2>10, <4>1, <4>2
    <3>2. UNCHANGED <<plugin, metrics, switch, open, traced, history>>
      BY <2>10 DEF FindEnabled, SkipRecord
    <3> QED BY <3>1, <3>2, SameTypes, Zenon DEF plugin, switch, history, TypeOK
  <2>11. ASSUME NEW r \in Request, RecordPassed(r) \/ RecordBlocked(r) \/ RecordRT(r)
         PROVE  TypeOK'
    BY <2>11, RecordsCount, RecordTyped
  <2>12. CASE UNCHANGED vars
    BY <2>12, SameTypes DEF vars, plugin, switch, history, TypeOK
  <2> QED
    BY <2>1, <2>2, <2>3, <2>4, <2>6, <2>7, <2>8, <2>9, <2>10, <2>11, <2>12 DEF Next
<1>3. TypeOK /\ Counting /\ [Next]_vars => Counting'
  <2> SUFFICES ASSUME TypeOK, Counting, [Next]_vars PROVE Counting'
    OBVIOUS
  <2>0. req \in [Request -> Call]
    BY DEF TypeOK
  <2>1. CASE Initialize
    <3>1. Collector \subseteq Collector' /\ UNCHANGED <<req, disabled, switchedOff>>
      BY <2>1, BoundsAssumption DEF Initialize, Collector, TypeOK, switch
    <3> QED BY <3>1 DEF Counting
  <2>2. ASSUME NEW c \in Collector, SetEnabled(c) PROVE Counting'
    BY <2>2 DEF SetEnabled, Counting, Collector, plugin
  <2>3. CASE Reset \/ UNCHANGED vars
    BY <2>3 DEF Reset, vars, plugin, switch, Counting, Collector
  <2>4. ASSUME NEW r \in Request, UNCHANGED <<plugin, switch>>,
               \A n \in Request \ {r} : req'[n] = req[n],
               req'[r].counting => req'[r].at \in Recording /\ req'[r].collector \in Collector
        PROVE  Counting'
    BY <2>4 DEF Counting, Collector, plugin, switch
  <2>5. ASSUME NEW r \in Request, NEW from, from \notin Recording, NEW to, Goto(r, from, to)
        PROVE  /\ \A n \in Request \ {r} : req'[n] = req[n]
               /\ ~req'[r].counting
    BY <2>0, <2>5 DEF Goto, Moved, NoCall, Counting, Call
  <2>6. ASSUME NEW r \in Request,
               Refused(r) \/ Admit(r) \/ Block(r) \/ TraceError(r) \/ Exit(r)
        PROVE  Counting'
    <3>1. UNCHANGED <<plugin, switch>>
      BY <2>6 DEF Refused, Admit, Block, TraceError, Exit
    <3>2. \E from, to : from \notin Recording /\ Goto(r, from, to)
      BY <2>6 DEF Refused, Admit, Block, TraceError, Exit, Recording
    <3> QED BY <2>4, <2>5, <3>1, <3>2
  <2>7. ASSUME NEW r \in Request,
               Arrive(r) \/ Snapshot(r) \/ SnapshotAgain(r) \/ Handler(r)
        PROVE  Counting'
    <3>1. UNCHANGED <<plugin, switch>> /\ \A n \in Request \ {r} : req'[n] = req[n]
      BY <2>0, <2>7 DEF Arrive, Snapshot, SnapshotAgain, Handler
    <3>2. ~req'[r].counting
      <4>1. CASE Arrive(r)
        BY <2>0, <4>1 DEF Arrive, NoCall
      <4>2. CASE Snapshot(r) \/ SnapshotAgain(r) \/ Handler(r)
        <5>1. ~req[r].counting
          BY <4>2 DEF Snapshot, SnapshotAgain, Handler, Counting, Recording
        <5>2. req'[r].counting = req[r].counting
          BY <2>0, <4>2 DEF Snapshot, SnapshotAgain, Handler, Call
        <5> QED BY <5>1, <5>2
      <4> QED BY <2>7, <4>1, <4>2
    <3> QED BY <2>4, <3>1, <3>2
  <2>8. ASSUME NEW r \in Request, FindEnabled(r) PROVE Counting'
    <3>1. UNCHANGED <<plugin, switch>> /\ \A n \in Request \ {r} : req'[n] = req[n]
      BY <2>0, <2>8 DEF FindEnabled
    <3>2. req'[r].at \in Recording /\ req'[r].collector \in Collector
      BY <2>0, <2>8 DEF FindEnabled, Call
    <3> QED BY <2>4, <3>1, <3>2
  <2>9. ASSUME NEW r \in Request, SkipRecord(r) PROVE Counting'
    <3>1. UNCHANGED <<plugin, switch>> /\ \A n \in Request \ {r} : req'[n] = req[n]
      BY <2>0, <2>9 DEF SkipRecord
    <3>2. ~req'[r].counting
      BY <2>0, <2>9 DEF SkipRecord, Moved, NoCall, Call
    <3> QED BY <2>4, <3>1, <3>2
  <2>10. ASSUME NEW r \in Request, RecordPassed(r) \/ RecordBlocked(r) \/ RecordRT(r)
         PROVE  Counting'
    <3>1. PICK place \in Recording, counts \in Counts : Record(r, place, counts)
      BY <2>10, RecordsCount
    <3>2. UNCHANGED <<plugin, switch>> /\ \A n \in Request \ {r} : req'[n] = req[n]
      BY <2>0, <3>1 DEF Record
    <3>3. ~req'[r].counting
      BY <2>0, <3>1 DEF Record, Moved, NoCall, Call
    <3> QED BY <2>4, <3>2, <3>3
  <2> QED
    BY <2>1, <2>2, <2>3, <2>6, <2>7, <2>8, <2>9, <2>10 DEF Next
<1> QED BY <1>1, <1>2, <1>3, PTL DEF Spec

\* Every variable keeps its type.
THEOREM TypeCorrect == Spec => []TypeOK
BY CountingInvariant, PTL

-----------------------------------------------------------------------------
\* An entry is open exactly while its request is between its admission and its
\* exit, and the core knows of an error exactly when the handler has failed
\* and the exit is next.
THEOREM PathInvariant == Spec => [](EntriesAreExited /\ Outcomes)
<1>1. Init => EntriesAreExited /\ Outcomes
  BY DEF Init, NoCall, EntriesAreExited, Outcomes
<1>2. TypeOK /\ Counting /\ EntriesAreExited /\ Outcomes /\ [Next]_vars => (EntriesAreExited /\ Outcomes)'
  <2> SUFFICES ASSUME TypeOK, Counting, EntriesAreExited, Outcomes, [Next]_vars
               PROVE  (EntriesAreExited /\ Outcomes)'
    OBVIOUS
  <2> USE DEF EntriesAreExited, Outcomes
  <2> req \in [Request -> Call]
    BY DEF TypeOK
  <2>1. CASE Initialize \/ Reset \/ UNCHANGED vars \/ \E c \in Collector : SetEnabled(c)
    BY <2>1 DEF Initialize, Reset, SetEnabled, plugin, vars
  <2>2. ASSUME NEW r \in Request, Arrive(r) PROVE (EntriesAreExited /\ Outcomes)'
    BY <2>2 DEF Arrive, NoCall
  <2>3. ASSUME NEW r \in Request, Refused(r) PROVE (EntriesAreExited /\ Outcomes)'
    BY <2>3 DEF Refused, Goto, Moved, NoCall, Call
  <2>4. ASSUME NEW r \in Request, Snapshot(r) PROVE (EntriesAreExited /\ Outcomes)'
    BY <2>4 DEF Snapshot, Call
  <2>5. ASSUME NEW r \in Request, Admit(r) PROVE (EntriesAreExited /\ Outcomes)'
    BY <2>5 DEF Admit, Goto, Moved, Call
  <2>6. ASSUME NEW r \in Request, Block(r) PROVE (EntriesAreExited /\ Outcomes)'
    BY <2>6 DEF Block, Goto, Moved, Call
  <2>7. ASSUME NEW r \in Request, FindEnabled(r) PROVE (EntriesAreExited /\ Outcomes)'
    <3>1. /\ UNCHANGED <<open, traced>>
          /\ \A q \in Request : req'[q].at = req[q].at /\ req'[q].outcome = req[q].outcome
      BY <2>7 DEF FindEnabled, Call
    <3> QED BY <3>1
  <2>8. ASSUME NEW r \in Request, req[r].at \in Recording, UNCHANGED <<open, traced>>,
               \A q \in Request \ {r} : req'[q] = req[q],
               req'[r].at = AfterRecord(req[r]),
               req[r].at # "blocked" => req'[r].outcome = req[r].outcome
        PROVE  (EntriesAreExited /\ Outcomes)'
    BY <2>8 DEF Recording, AfterRecord, AfterEntry, Call
  <2>9. ASSUME NEW r \in Request, SkipRecord(r) PROVE (EntriesAreExited /\ Outcomes)'
    <3>1. /\ req[r].at \in Recording /\ UNCHANGED <<open, traced>>
          /\ \A q \in Request \ {r} : req'[q] = req[q]
          /\ req'[r] = Moved(req[r], AfterRecord(req[r]))
      BY <2>9 DEF SkipRecord
    <3>2. AfterRecord(req[r]) = "idle" <=> req[r].at = "blocked"
      BY <3>1 DEF Recording, AfterRecord, AfterEntry
    <3>3. /\ req'[r].at = AfterRecord(req[r])
          /\ req[r].at # "blocked" => req'[r].outcome = req[r].outcome
      BY <3>1, <3>2 DEF Moved, NoCall, Call
    <3> QED BY <2>8, <3>1, <3>3
  <2>10. ASSUME NEW r \in Request, RecordPassed(r) \/ RecordBlocked(r) \/ RecordRT(r)
         PROVE  (EntriesAreExited /\ Outcomes)'
    <3>1. PICK place \in Recording, counts \in Counts : Record(r, place, counts)
      BY <2>10, RecordsCount
    <3>2. /\ req[r].at \in Recording /\ UNCHANGED <<open, traced>>
          /\ \A q \in Request \ {r} : req'[q] = req[q]
          /\ req'[r] = [Moved(req[r], AfterRecord(req[r])) EXCEPT !.counting = FALSE]
      BY <3>1 DEF Record
    <3>3. AfterRecord(req[r]) = "idle" <=> req[r].at = "blocked"
      BY <3>2 DEF Recording, AfterRecord, AfterEntry
    <3>4. /\ req'[r].at = AfterRecord(req[r])
          /\ req[r].at # "blocked" => req'[r].outcome = req[r].outcome
      BY <3>2, <3>3 DEF Moved, NoCall, Call
    <3> QED BY <2>8, <3>2, <3>4
  <2>11. ASSUME NEW r \in Request, SnapshotAgain(r) PROVE (EntriesAreExited /\ Outcomes)'
    BY <2>11 DEF SnapshotAgain, Call
  <2>12. ASSUME NEW r \in Request, Handler(r) PROVE (EntriesAreExited /\ Outcomes)'
    BY <2>12 DEF Handler, AfterHandler, Call
  <2>13. ASSUME NEW r \in Request, TraceError(r) PROVE (EntriesAreExited /\ Outcomes)'
    BY <2>13 DEF TraceError, Goto, Moved, Call
  <2>14. ASSUME NEW r \in Request, Exit(r) PROVE (EntriesAreExited /\ Outcomes)'
    BY <2>14 DEF Exit, Goto, Moved, NoCall, Call
  <2> QED
    BY <2>1, <2>2, <2>3, <2>4, <2>5, <2>6, <2>7, <2>9, <2>10, <2>11, <2>12, <2>13, <2>14
    DEF Next
<1> QED BY <1>1, <1>2, CountingInvariant, PTL DEF Spec

\* Every entry is exited: none is open once its request is over.
THEOREM EveryEntryExits == Spec => []EntriesAreExited
BY PathInvariant, PTL

\* The error a handler returned, or the server error it sent, is reported to
\* the core before the exit, whether its collector counts or is disabled.
THEOREM FailuresAreReported == Spec => FailuresReachTheCore
<1>1. TypeOK /\ EntriesAreExited /\ Outcomes /\ Next =>
        \A r \in open \ open' : r \in traced <=> req[r].outcome = "error"
  <2> SUFFICES ASSUME TypeOK, EntriesAreExited, Outcomes, Next, NEW r \in open \ open'
               PROVE  r \in traced <=> req[r].outcome = "error"
    BY Zenon
  <2>1. PICK q \in Request : Exit(q)
    BY ZenonT(40)
       DEF Next, Initialize, Reset, SetEnabled, Arrive, Refused, Snapshot, Admit, Block,
           FindEnabled, SkipRecord, Record, RecordPassed, RecordBlocked, RecordRT,
           SnapshotAgain, Handler, TraceError
  <2>2. r = q /\ req[r].at = "exit"
    BY <2>1 DEF Exit, Goto
  <2> QED BY <2>2 DEF Outcomes
<1> QED BY <1>1, PathInvariant, TypeCorrect, PTL DEF Spec, FailuresReachTheCore

-----------------------------------------------------------------------------
LEMMA UncountedIsFinite == \A c : IsFiniteSet(Uncounted(c))
<1>1. ASSUME NEW c PROVE IsFiniteSet(Uncounted(c))
  <2>1. Uncounted(c) \in SUBSET Request
    BY DEF Uncounted
  <2> QED BY <2>1, RequestAssumption, FS_Subset
<1> QED BY <1>1

\* A request joins or leaves the uncounted ones of one collector.
LEMMA UncountedMoves ==
  ASSUME NEW c, NEW r \in Request
  PROVE  /\ Cardinality(Uncounted(c)) \in Nat
         /\ r \notin Uncounted(c) =>
              Cardinality(Uncounted(c) \cup {r}) = Cardinality(Uncounted(c)) + 1
         /\ r \in Uncounted(c) =>
              Cardinality(Uncounted(c) \ {r}) = Cardinality(Uncounted(c)) - 1
BY UncountedIsFinite, FS_CardinalityType, FS_AddElement, FS_RemoveElement

\* What the admissions of a collector came to so far.
Known(c) == metrics[c].passed + dropped[c] + Cardinality(Uncounted(c))

Balanced(c) == Known(c) <= admitted[c] /\ (c \notin switchedOff => Known(c) = admitted[c])

LEMMA BalancedIs == AdmissionsAreCounted <=> \A c \in Collector : Balanced(c)
BY Zenon DEF AdmissionsAreCounted, Balanced, Known, Uncounted

\* A step that leaves what is known of a collector, or a request less of it
\* when the collector was disabled.
LEMMA KnownKeeps ==
  ASSUME TypeOK, NEW c \in Collector, Balanced(c),
         admitted'[c] = admitted[c], Known(c)' \in Int, Known(c) \in Int,
         switchedOff \subseteq switchedOff',
         Known(c)' = Known(c) \/ (Known(c)' <= Known(c) /\ c \in switchedOff)
  PROVE  Balanced(c)'
<1>1. admitted[c] \in Nat
  BY DEF TypeOK
<1>2. Known(c)' <= admitted'[c]
  BY <1>1 DEF Balanced
<1>3. c \notin switchedOff' => Known(c)' = admitted'[c]
  BY DEF Balanced
<1> QED BY <1>2, <1>3 DEF Balanced

\* The admissions of a collector are the requests it has counted, the ones a
\* reset threw away and the ones whose record is to come, and none twice; only
\* a collector that was disabled misses some.
THEOREM EveryAdmissionIsCounted == Spec => []AdmissionsAreCounted
<1>1. Init => AdmissionsAreCounted
  BY DEF Init, AdmissionsAreCounted, Collector
<1>2. TypeOK /\ Counting /\ AdmissionsAreCounted /\ [Next]_vars => AdmissionsAreCounted'
  <2> SUFFICES ASSUME TypeOK, Counting, \A c \in Collector : Balanced(c), [Next]_vars,
                      NEW c \in Collector'
               PROVE  Balanced(c)'
    BY BalancedIs, Zenon DEF AdmissionsAreCounted, Balanced, Known, Uncounted
  <2>0. req \in [Request -> Call] /\ \A r \in Request : req[r].collector \in 0 .. collector
    BY DEF TypeOK, Call
  <2>1. \A d \in Collector :
          /\ metrics[d] \in Counts /\ metrics[d].passed \in Nat
          /\ admitted[d] \in Nat /\ dropped[d] \in Nat
          /\ Cardinality(Uncounted(d)) \in Nat /\ Known(d) \in Int
    <3>1. \A d : Cardinality(Uncounted(d)) \in Nat
      BY UncountedIsFinite, FS_CardinalityType
    <3> QED BY <3>1 DEF TypeOK, Counts, Known
  <2>2. ASSUME c \in Collector, switchedOff \subseteq switchedOff', admitted'[c] = admitted[c],
               metrics'[c].passed + dropped'[c] = metrics[c].passed + dropped[c],
               metrics'[c].passed + dropped'[c] \in Int,
               \/ Uncounted(c)' = Uncounted(c)
               \/ /\ c \in switchedOff
                  /\ \E r \in Uncounted(c) : Uncounted(c)' = Uncounted(c) \ {r}
        PROVE  Balanced(c)'
    <3>1. Cardinality(Uncounted(c)') \in Nat
      BY <2>2, UncountedIsFinite, FS_CardinalityType, FS_RemoveElement
    <3>2. \/ Cardinality(Uncounted(c)') = Cardinality(Uncounted(c))
          \/ c \in switchedOff /\ Cardinality(Uncounted(c)') = Cardinality(Uncounted(c)) - 1
      <4>1. CASE Uncounted(c)' = Uncounted(c)
        BY <4>1
      <4>2. CASE c \in switchedOff /\ \E r \in Uncounted(c) : Uncounted(c)' = Uncounted(c) \ {r}
        <5>1. PICK r \in Uncounted(c) : Uncounted(c)' = Uncounted(c) \ {r}
          BY <4>2
        <5>2. r \in Request
          BY DEF Uncounted
        <5> QED BY <4>2, <5>1, <5>2, UncountedMoves
      <4> QED BY <2>2, <4>1, <4>2
    <3>3. /\ Known(c) = metrics[c].passed + dropped[c] + Cardinality(Uncounted(c))
          /\ Known(c)' = metrics[c].passed + dropped[c] + Cardinality(Uncounted(c)')
      BY <2>2 DEF Known
    <3>4. \/ Known(c)' = Known(c)
          \/ Known(c)' <= Known(c) /\ c \in switchedOff
      BY <2>1, <2>2, <3>2, <3>3
    <3>5. Known(c)' \in Int /\ Known(c) \in Int
      BY <2>1, <2>2, <3>1, <3>3
    <3> QED BY <2>2, <3>4, <3>5, KnownKeeps
  <2>3. CASE Initialize
    <3>1. CASE c \in Collector
      <4>1. /\ metrics'[c].passed = metrics[c].passed /\ dropped'[c] = dropped[c]
            /\ admitted'[c] = admitted[c]
        BY <2>3, <3>1 DEF Initialize, TypeOK, Collector
      <4>2. Uncounted(c)' = Uncounted(c) /\ switchedOff' = switchedOff
        BY <2>3 DEF Initialize, Uncounted, switch
      <4> QED BY <2>1, <2>2, <3>1, <4>1, <4>2
    <3>2. CASE c \notin Collector
      <4>1. c = collector + 1 /\ c # 0
        BY <2>3, <3>2, BoundsAssumption DEF Initialize, Collector, TypeOK
      <4>2. admitted'[c] = 0 /\ dropped'[c] = 0 /\ metrics'[c].passed = 0
        BY <2>3, <3>2, <4>1 DEF Initialize, Collector, NoCounts, TypeOK
      <4>3. \A r \in Request : req'[r].collector \in 0 .. collector
        BY <2>0, <2>3 DEF Initialize
      <4>4. Uncounted(c)' = {}
        BY <4>1, <4>3, BoundsAssumption DEF Uncounted, TypeOK
      <4> QED BY <4>2, <4>4, FS_EmptySet DEF Balanced, Known
    <3> QED BY <3>1, <3>2
  <2>4. CASE Reset
    <3>1. /\ c \in Collector /\ Uncounted(c)' = Uncounted(c) /\ admitted'[c] = admitted[c]
          /\ switchedOff' = switchedOff
      BY <2>4 DEF Reset, plugin, switch, Collector, Uncounted
    <3>2. metrics'[c].passed + dropped'[c] = metrics[c].passed + dropped[c]
      BY <2>1, <2>4, <3>1 DEF Reset, TypeOK, NoCounts, Counts
    <3> QED BY <2>1, <2>2, <3>1, <3>2
  <2>5. ASSUME NEW d \in Collector, SetEnabled(d) PROVE Balanced(c)'
    <3>1. /\ c \in Collector /\ Uncounted(c)' = Uncounted(c)
          /\ UNCHANGED <<metrics, admitted, dropped>> /\ switchedOff \subseteq switchedOff'
      BY <2>5 DEF SetEnabled, plugin, history, Collector, Uncounted
    <3> QED BY <2>1, <2>2, <3>1
  <2>6. ASSUME NEW r \in Request, Admit(r) PROVE Balanced(c)'
    <3>1. c \in Collector /\ metrics' = metrics /\ dropped' = dropped /\ switchedOff' = switchedOff
      BY <2>6 DEF Admit, plugin, switch, Collector
    <3>2. /\ req[r].at = "verdict" /\ req'[r] = [req[r] EXCEPT !.at = "passed"]
          /\ \A q \in Request \ {r} : req'[q] = req[q]
      BY <2>0, <2>6 DEF Admit, Goto, Moved
    <3>3. CASE c = req[r].collector
      <4>1. r \notin Uncounted(c) /\ Uncounted(c)' = Uncounted(c) \cup {r}
        BY <2>0, <3>2, <3>3 DEF Uncounted, Call
      <4>2. admitted'[c] = admitted[c] + 1
        BY <2>6, <3>1, <3>3 DEF Admit, TypeOK, Collector
      <4>3. Cardinality(Uncounted(c)') = Cardinality(Uncounted(c)) + 1
        BY <4>1, UncountedMoves
      <4>4. Known(c)' = Known(c) + 1
        BY <2>1, <3>1, <4>3 DEF Known
      <4> QED BY <2>1, <3>1, <4>2, <4>4 DEF Balanced
    <3>4. CASE c # req[r].collector
      <4>1. Uncounted(c)' = Uncounted(c)
        BY <2>0, <3>2, <3>4 DEF Uncounted, Call
      <4>2. admitted'[c] = admitted[c]
        BY <2>6, <3>4 DEF Admit, TypeOK
      <4> QED BY <2>1, <2>2, <3>1, <4>1, <4>2
    <3> QED BY <3>3, <3>4
  <2>7. ASSUME NEW r \in Request, RecordPassed(r) \/ RecordBlocked(r) \/ RecordRT(r)
        PROVE  Balanced(c)'
    <3> DEFINE d == req[r].collector
    <3>1. PICK place \in Recording, counts \in Counts :
            /\ Record(r, place, counts)
            /\ counts.passed = IF place = "passed" THEN metrics[d].passed + 1 ELSE metrics[d].passed
      BY <2>7, RecordsCount
    <3>2. /\ c \in Collector /\ admitted' = admitted /\ dropped' = dropped
          /\ switchedOff' = switchedOff
      BY <3>1 DEF Record, plugin, switch, history, Collector
    <3>3. d \in Collector /\ req[r].at = place
      BY <3>1 DEF Record, Counting
    <3>4. /\ req'[r].at # "passed" /\ \A q \in Request \ {r} : req'[q] = req[q]
          /\ metrics' = [metrics EXCEPT ![d] = counts]
      <4>1. AfterRecord(req[r]) # "passed"
        BY <3>1, <3>3 DEF Recording, AfterRecord, AfterEntry
      <4>2. Moved(req[r], AfterRecord(req[r])).at # "passed"
        BY <2>0, <4>1 DEF Moved, NoCall, Call
      <4>3. req'[r].at = Moved(req[r], AfterRecord(req[r])).at
        BY <2>0, <3>1 DEF Record, Moved, NoCall, Call
      <4> QED BY <2>0, <3>1, <4>2, <4>3 DEF Record
    <3>5. CASE c = d /\ place = "passed"
      <4>1. r \in Uncounted(c) /\ Uncounted(c)' = Uncounted(c) \ {r}
        BY <3>3, <3>4, <3>5 DEF Uncounted
      <4>2. metrics'[c].passed = metrics[c].passed + 1
        BY <3>1, <3>3, <3>4, <3>5 DEF TypeOK
      <4>3. Cardinality(Uncounted(c)') = Cardinality(Uncounted(c)) - 1
        BY <4>1, UncountedMoves
      <4>4. Known(c)' = Known(c)
        BY <2>1, <3>2, <4>2, <4>3 DEF Known
      <4> QED BY <2>1, <3>2, <4>4, KnownKeeps
    <3>6. CASE ~(c = d /\ place = "passed")
      <4>1. Uncounted(c)' = Uncounted(c)
        BY <3>3, <3>4, <3>6 DEF Uncounted
      <4>2. metrics'[c].passed = metrics[c].passed
        BY <3>1, <3>3, <3>4, <3>6 DEF TypeOK
      <4> QED BY <2>1, <2>2, <3>2, <4>1, <4>2
    <3> QED BY <3>5, <3>6
  <2>8. ASSUME NEW r \in Request, SkipRecord(r) PROVE Balanced(c)'
    <3>1. c \in Collector /\ UNCHANGED <<metrics, admitted, dropped, switchedOff>>
      BY <2>8 DEF SkipRecord, plugin, switch, history, Collector
    <3>2. /\ req[r].at \in Recording /\ req[r].collector \notin Collector \ disabled
          /\ req'[r] = Moved(req[r], AfterRecord(req[r]))
          /\ \A q \in Request \ {r} : req'[q] = req[q]
      BY <2>0, <2>8 DEF SkipRecord
    <3>3. req'[r].at # "passed"
      BY <2>0, <3>2 DEF Recording, AfterRecord, AfterEntry, Moved, NoCall, Call
    <3>4. CASE r \in Uncounted(c)
      <4>1. Uncounted(c)' = Uncounted(c) \ {r}
        BY <3>2, <3>3 DEF Uncounted
      <4>2. c \in switchedOff
        BY <3>1, <3>2, <3>4 DEF Uncounted, Counting
      <4> QED BY <2>1, <2>2, <3>1, <3>4, <4>1, <4>2
    <3>5. CASE r \notin Uncounted(c)
      <4>1. Uncounted(c)' = Uncounted(c)
        BY <3>2, <3>3, <3>5 DEF Uncounted
      <4> QED BY <2>1, <2>2, <3>1, <4>1
    <3> QED BY <3>4, <3>5
  <2>9. ASSUME NEW r \in Request, FindEnabled(r) PROVE Balanced(c)'
    <3>1. c \in Collector /\ UNCHANGED <<metrics, admitted, dropped, switchedOff>>
      BY <2>9 DEF FindEnabled, plugin, switch, history, Collector
    <3>2. \A q \in Request : req'[q].at = req[q].at /\ req'[q].collector = req[q].collector
      BY <2>0, <2>9 DEF FindEnabled, Call
    <3>3. Uncounted(c)' = Uncounted(c)
      BY <3>2 DEF Uncounted
    <3> QED BY <2>1, <2>2, <3>1, <3>3
  <2>10. ASSUME NEW r \in Request,
                \/ Arrive(r) \/ Refused(r) \/ Snapshot(r) \/ Block(r)
                \/ SnapshotAgain(r) \/ Handler(r) \/ TraceError(r) \/ Exit(r)
         PROVE  Balanced(c)'
    <3>1. c \in Collector /\ UNCHANGED <<metrics, admitted, dropped, switchedOff>>
      BY <2>10 DEF Arrive, Refused, Snapshot, Block, SnapshotAgain, Handler, TraceError, Exit,
                   plugin, switch, history, Collector
    <3>2. \A q \in Request \ {r} : req'[q] = req[q]
      BY <2>0, <2>10 DEF Arrive, Refused, Snapshot, Block, SnapshotAgain, Handler, TraceError,
                         Exit, Goto
    <3>3. req[r].at # "passed"
      BY <2>10 DEF Arrive, Refused, Snapshot, Block, SnapshotAgain, Handler, TraceError, Exit,
                   Goto
    <3>4. req'[r].at # "passed"
      <4>1. CASE Refused(r) \/ Block(r) \/ TraceError(r) \/ Exit(r)
        BY <2>0, <4>1 DEF Refused, Block, TraceError, Exit, Goto, Moved, NoCall, Call
      <4>2. CASE Arrive(r)
        BY <2>0, <4>2 DEF Arrive, NoCall
      <4>3. CASE Snapshot(r) \/ SnapshotAgain(r)
        BY <2>0, <4>3 DEF Snapshot, SnapshotAgain, Call
      <4>4. CASE Handler(r)
        BY <2>0, <4>4 DEF Handler, AfterHandler, Call
      <4> QED BY <2>10, <4>1, <4>2, <4>3, <4>4
    <3>5. Uncounted(c)' = Uncounted(c)
      BY <3>2, <3>3, <3>4 DEF Uncounted
    <3> QED BY <2>1, <2>2, <3>1, <3>5
  <2>11. CASE UNCHANGED vars
    <3>1. /\ c \in Collector /\ Uncounted(c)' = Uncounted(c)
          /\ UNCHANGED <<metrics, admitted, dropped, switchedOff>>
      BY <2>11 DEF vars, plugin, switch, history, Uncounted, Collector
    <3> QED BY <2>1, <2>2, <3>1
  <2> QED
    BY <2>3, <2>4, <2>5, <2>6, <2>7, <2>8, <2>9, <2>10, <2>11 DEF Next
<1> QED BY <1>1, <1>2, CountingInvariant, PTL DEF Spec
=============================================================================
