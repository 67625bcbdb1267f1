----------------------- MODULE MetricsCollector_proofs -----------------------
(***************************************************************************)
(* Proofs about MetricsCollector, for any goroutines, resources, response  *)
(* times, intervals and window: types, what is recorded after a collector  *)
(* was disabled, what the window of response times holds, what summaries   *)
(* and statistics say, and that the counters are those of RequestCounts.   *)
(***************************************************************************)
EXTENDS MetricsCollector, FoldLemmas, SequenceTheorems

\* What a job at work looks like.
Working ==
  [at : {"checked", "counted"}, record : Record, resource : Resource, time : Time]

LEMMA JobCases ==
  ASSUME NEW j \in Job
  PROVE  j = Idle \/ (j \in Working /\ j.at # "idle")
BY DEF Job, Working, Idle

LEMMA JobTypes == Idle \in Job /\ Working \subseteq Job
BY DEF Job, Working, Idle

\* Appending to a full window drops its oldest time, so it keeps its length.
LEMMA WindowedIs ==
  ASSUME NEW s \in Seq(Time), Len(s) <= RTWindow, NEW t \in Time
  PROVE  /\ Windowed(Append(s, t)) \in Seq(Time)
         /\ Len(s) < RTWindow => Windowed(Append(s, t)) = Append(s, t)
         /\ Len(s) = RTWindow => Windowed(Append(s, t)) = Tail(Append(s, t))
         /\ Len(Windowed(Append(s, t))) <= RTWindow
<1>1. /\ Append(s, t) \in Seq(Time) /\ Append(s, t) # <<>>
      /\ Len(Append(s, t)) = Len(s) + 1 /\ Len(s) \in Nat
  BY AppendProperties, LenProperties
<1>2. Tail(Append(s, t)) \in Seq(Time) /\ Len(Tail(Append(s, t))) = Len(s)
  BY <1>1, HeadTailProperties
<1> QED BY <1>1, <1>2, BoundsAssumption DEF Windowed

\* An increment of one of the maps of counters.
LEMMA Increment ==
  ASSUME NEW f \in [Resource -> Nat], NEW r \in Resource
  PROVE  [f EXCEPT ![r] = @ + 1] \in [Resource -> Nat]
OBVIOUS

\* Every variable of the collector and of those who use it keeps its type.
THEOREM TypeCorrect == Spec => []TypeOK
<1>1. Init => TypeOK
  <2> SUFFICES ASSUME Init PROVE TypeOK
    OBVIOUS
  <2>1. /\ rt \in [Resource -> Seq(Time)] /\ \A r \in Resource : Len(rt[r]) <= RTWindow
        /\ seen \in [Resource -> Seq(Time)]
    BY BoundsAssumption, EmptySeq DEF Init
  <2>2. job \in [Recorder -> Job] /\ sum \in [Reader -> Sum]
    BY JobTypes DEF Init, Sum, NoSum
  <2> QED BY <2>1, <2>2 DEF Init, TypeOK, Zero
<1>2. TypeOK /\ [Next]_vars => TypeOK'
  <2> SUFFICES ASSUME TypeOK, [Next]_vars PROVE TypeOK'
    OBVIOUS
  <2> USE DEF settings, counters, history
  <2>0. /\ job \in [Recorder -> Job] /\ sum \in [Reader -> Sum]
        /\ total \in [Resource -> Nat] /\ passed \in [Resource -> Nat]
        /\ blocked \in [Resource -> Nat] /\ late \in [Recorder -> Nat]
        /\ lately \in [Resource -> [before : Nat, since : Nat]]
        /\ rt \in [Resource -> Seq(Time)] /\ seen \in [Resource -> Seq(Time)]
    BY DEF TypeOK
  <2>1. ASSUME NEW g \in Recorder, Check(g) PROVE TypeOK'
    <3>1. PICK k \in Record, r \in Resource, t \in Time :
            job' = [job EXCEPT ![g] = [at |-> "checked", record |-> k, resource |-> r, time |-> t]]
      BY <2>1 DEF Check
    <3>2. job' \in [Recorder -> Job]
      BY <2>0, <3>1, JobTypes DEF Working
    <3> QED BY <2>1, <3>2 DEF Check, TypeOK
  <2>2. ASSUME NEW g \in Recorder, CountRequest(g) PROVE TypeOK'
    <3>1. job[g] \in Working /\ job[g].resource \in Resource
      BY <2>0, <2>2, JobCases DEF CountRequest, Idle, Working
    <3>2. [job[g] EXCEPT !.at = "counted"] \in Working
      BY <3>1 DEF Working
    <3>3. job' \in [Recorder -> Job]
      BY <2>0, <2>2, <3>2, JobTypes DEF CountRequest
    <3>4. total' \in [Resource -> Nat]
      BY <2>0, <2>2, <3>1, Increment DEF CountRequest
    <3>5. lately' \in [Resource -> [before : Nat, since : Nat]]
      <4> DEFINE r == job[g].resource
      <4>1. lately' = [lately EXCEPT ![r] = [lately[r] EXCEPT !.since = lately[r].since + 1]]
        BY <2>2 DEF CountRequest
      <4>2. [lately[r] EXCEPT !.since = lately[r].since + 1] \in [before : Nat, since : Nat]
        <5>1. lately[r] \in [before : Nat, since : Nat]
          BY <2>0, <3>1
        <5> QED BY <5>1
      <4> HIDE DEF r
      <4> QED BY <2>0, <4>1, <4>2
    <3> QED BY <2>2, <3>3, <3>4, <3>5 DEF CountRequest, TypeOK
  <2>3. ASSUME NEW g \in Recorder, CountVerdict(g) PROVE TypeOK'
    <3>1. job[g].resource \in Resource
      BY <2>0, <2>3, JobCases DEF CountVerdict, Idle, Working
    <3>2. job' \in [Recorder -> Job]
      BY <2>0, <2>3, JobTypes DEF CountVerdict
    <3>3. passed' \in [Resource -> Nat] /\ blocked' \in [Resource -> Nat]
      <4> DEFINE r == job[g].resource
      <4>1. \/ passed' = [passed EXCEPT ![r] = passed[r] + 1] /\ blocked' = blocked
            \/ blocked' = [blocked EXCEPT ![r] = blocked[r] + 1] /\ passed' = passed
        BY <2>3 DEF CountVerdict
      <4>2. r \in Resource
        BY <3>1
      <4>3. /\ [passed EXCEPT ![r] = passed[r] + 1] \in [Resource -> Nat]
            /\ [blocked EXCEPT ![r] = blocked[r] + 1] \in [Resource -> Nat]
        BY <2>0, <4>2, Increment
      <4> HIDE DEF r
      <4> QED BY <2>0, <4>1, <4>3
    <3>4. late' \in [Recorder -> Nat]
      BY <2>0, <2>3 DEF CountVerdict, Counted
    <3> QED BY <2>3, <3>2, <3>3, <3>4 DEF CountVerdict, TypeOK
  <2>4. ASSUME NEW g \in Recorder, RecordRT(g) PROVE TypeOK'
    <3>1. job[g].resource \in Resource /\ job[g].time \in Time
      BY <2>0, <2>4, JobCases DEF RecordRT, Idle, Working
    <3>2. job' \in [Recorder -> Job]
      BY <2>0, <2>4, JobTypes DEF RecordRT
    <3>3. late' \in [Recorder -> Nat]
      BY <2>0, <2>4 DEF RecordRT, Counted
    <3> DEFINE r == job[g].resource
               w == Windowed(Append(rt[r], job[g].time))
    <3>4. w \in Seq(Time) /\ Len(w) <= RTWindow
      BY <2>0, <3>1, WindowedIs DEF TypeOK
    <3>5. rt' = [rt EXCEPT ![r] = w] /\ seen' = [seen EXCEPT ![r] = Append(seen[r], job[g].time)]
      BY <2>4 DEF RecordRT
    <3> HIDE DEF w
    <3>6. rt' \in [Resource -> Seq(Time)] /\ \A h \in Resource : Len(rt'[h]) <= RTWindow
      BY <2>0, <3>1, <3>4, <3>5 DEF TypeOK
    <3>7. seen' \in [Resource -> Seq(Time)]
      BY <2>0, <3>1, <3>5, AppendProperties
    <3> QED BY <2>4, <3>2, <3>3, <3>6, <3>7 DEF RecordRT, TypeOK
  <2>5. ASSUME NEW q \in Reader, BeginSum(q) PROVE mu' \subseteq Recorder \cup Reader /\ sum' \in [Reader -> Sum]
    BY <2>0, <2>5 DEF BeginSum, TypeOK, Sum, NoSum
  <2>6. ASSUME NEW q \in Reader, Summarize(q) PROVE TypeOK'
    BY <2>5, <2>6 DEF Summarize, TypeOK
  <2>7. ASSUME NEW q \in Reader, Visit(q) PROVE TypeOK'
    <3>1. PICK r \in sum[q].left :
            sum' = [sum EXCEPT ![q] =
              [left |-> sum[q].left \ {r}, total |-> sum[q].total + total[r],
               passed |-> sum[q].passed + passed[r], blocked |-> sum[q].blocked + blocked[r]]]
      BY <2>7 DEF Visit
    <3>2. sum[q] \in Sum /\ r \in Resource
      BY <2>0, <3>1 DEF Sum
    <3>3. /\ sum[q].left \ {r} \in SUBSET Resource
          /\ sum[q].total + total[r] \in Nat
          /\ sum[q].passed + passed[r] \in Nat /\ sum[q].blocked + blocked[r] \in Nat
      BY <2>0, <3>2, SMTT(30) DEF Sum
    <3> DEFINE next == [left |-> sum[q].left \ {r}, total |-> sum[q].total + total[r],
                        passed |-> sum[q].passed + passed[r],
                        blocked |-> sum[q].blocked + blocked[r]]
    <3>4. sum' \in [Reader -> Sum]
      <4>1. next \in Sum
        BY <3>3 DEF Sum
      <4>2. sum' = [sum EXCEPT ![q] = next] /\ sum \in [Reader -> Sum]
        BY <2>0, <3>1
      <4> HIDE DEF next
      <4> QED BY <4>1, <4>2
    <3> QED BY <2>7, <3>4 DEF Visit, TypeOK
  <2>8. ASSUME NEW q \in Reader, EndSum(q) PROVE TypeOK'
    <3>1. NoSum \in Sum
      BY DEF NoSum, Sum
    <3> QED BY <2>0, <2>8, <3>1 DEF EndSum, TypeOK
  <2>9. CASE Reset
    <3>1. /\ rt' \in [Resource -> Seq(Time)] /\ seen' \in [Resource -> Seq(Time)]
          /\ \A r \in Resource : Len(rt'[r]) <= RTWindow
      BY <2>9, BoundsAssumption, EmptySeq DEF Reset
    <3> QED BY <2>9, <3>1 DEF Reset, TypeOK, Zero
  <2>10. CASE SetEnabled
    BY <2>0, <2>10 DEF SetEnabled, TypeOK
  <2>11. CASE SetInterval
    BY <2>11 DEF SetInterval, TypeOK
  <2>12. CASE StartDisabled \/ StartCrashes \/ Start \/ Stop
    BY <2>12 DEF StartDisabled, StartCrashes, Start, Stop, TypeOK
  <2>13. CASE Tick
    <3>1. lately' \in [Resource -> [before : Nat, since : Nat]]
      BY <2>0, <2>13 DEF Tick
    <3>2. mu' \subseteq Recorder \cup Reader /\ sum' \in [Reader -> Sum]
      BY <2>5, <2>13, SetsAssumption DEF Tick
    <3> QED BY <2>13, <3>1, <3>2 DEF Tick, TypeOK
  <2>14. CASE UNCHANGED vars
    BY <2>14 DEF vars, TypeOK
  <2> QED
    BY <2>1, <2>2, <2>3, <2>4, <2>6, <2>7, <2>8, <2>9, <2>10, <2>11, <2>12, <2>13, <2>14
    DEF Next, Alive, Died
<1> QED BY <1>1, <1>2, PTL DEF Spec

-----------------------------------------------------------------------------
(***************************************************************************)
(* What is recorded after SetEnabled(false).                               *)
(***************************************************************************)
\* Who has made a late record is at rest, and cannot begin another one.
LateInv ==
  \A g \in Recorder :
    /\ enabled => late[g] = 0
    /\ late[g] = 0 \/ (late[g] = 1 /\ job[g] = Idle)

\* The check of mc.enabled and the record are two steps, so a goroutine may
\* record once after the collector was disabled, and not twice.
THEOREM AtMostOneLateRecord == Spec => []OneLateRecord
<1>1. Init => LateInv
  BY DEF Init, LateInv
<1>2. TypeOK /\ LateInv /\ [Next]_vars => LateInv'
  <2> SUFFICES ASSUME TypeOK, LateInv, [Next]_vars PROVE LateInv'
    OBVIOUS
  <2> USE DEF settings, counters, history, Idle
  <2>0. job \in [Recorder -> Job] /\ late \in [Recorder -> Nat]
    BY DEF TypeOK
  <2>1. ASSUME NEW g \in Recorder, Check(g) PROVE LateInv'
    BY <2>0, <2>1 DEF Check, LateInv
  <2>2. ASSUME NEW g \in Recorder, CountRequest(g) PROVE LateInv'
    BY <2>0, <2>2 DEF CountRequest, LateInv
  <2>3. ASSUME NEW g \in Recorder, job[g] # Idle, job' = [job EXCEPT ![g] = Idle],
               Counted(g), enabled' = enabled
        PROVE  LateInv'
    BY <2>0, <2>3 DEF Counted, LateInv
  <2>4. ASSUME NEW g \in Recorder, CountVerdict(g) \/ RecordRT(g) PROVE LateInv'
    BY <2>3, <2>4 DEF CountVerdict, RecordRT
  <2>5. CASE SetEnabled
    BY <2>0, <2>5 DEF SetEnabled, LateInv
  <2>6. CASE UNCHANGED <<enabled, job, late>>
    BY <2>6 DEF LateInv
  <2>7. ASSUME NEW q \in Reader, Summarize(q) \/ Visit(q) \/ EndSum(q)
        PROVE  UNCHANGED <<enabled, job, late>>
    BY <2>7 DEF Summarize, Visit, EndSum
  <2>8. CASE \/ Reset \/ SetInterval \/ StartDisabled \/ StartCrashes \/ Start \/ Tick \/ Stop
             \/ UNCHANGED vars
    BY <2>6, <2>8 DEF Reset, SetInterval, StartDisabled, StartCrashes, Start, Tick, Stop, vars
  <2> QED BY <2>1, <2>2, <2>4, <2>5, <2>6, <2>7, <2>8 DEF Next, Alive, Died
<1>3. LateInv => OneLateRecord
  BY DEF LateInv, OneLateRecord
<1> QED BY <1>1, <1>2, <1>3, TypeCorrect, PTL DEF Spec

-----------------------------------------------------------------------------
(***************************************************************************)
(* The window of response times.                                           *)
(***************************************************************************)
\* The k-th time of the window w, counted from its end, is that of s.
Recent(w, s) ==
  /\ Len(w) <= Len(s)
  /\ \A k \in 1 .. Len(w) : w[k] = s[Len(s) - Len(w) + k]
  /\ Len(w) = Len(s) \/ Len(w) = RTWindow

LEMMA RecentAppended ==
  ASSUME NEW w \in Seq(Time), NEW s \in Seq(Time), Len(w) <= RTWindow, Recent(w, s), NEW t \in Time
  PROVE  Recent(Windowed(Append(w, t)), Append(s, t))
<1>1. /\ Len(w) \in Nat /\ Len(s) \in Nat /\ RTWindow \in Nat
      /\ Append(w, t) \in Seq(Time) /\ Len(Append(w, t)) = Len(w) + 1
      /\ Len(Append(s, t)) = Len(s) + 1
      /\ \A k \in 1 .. Len(w) : Append(w, t)[k] = w[k]
      /\ \A k \in 1 .. Len(s) : Append(s, t)[k] = s[k]
      /\ Append(w, t)[Len(w) + 1] = t /\ Append(s, t)[Len(s) + 1] = t
  BY AppendProperties, LenProperties, BoundsAssumption
<1>2. \A k \in 1 .. Len(w) + 1 : Append(w, t)[k] = Append(s, t)[Len(s) - Len(w) + k]
  BY <1>1 DEF Recent
<1>3. CASE Len(w) < RTWindow
  <2> DEFINE new == Append(w, t)
             all == Append(s, t)
  <2>1. Windowed(new) = new
    BY <1>3, WindowedIs
  <2>2. /\ Len(new) = Len(w) + 1 /\ Len(all) = Len(s) + 1
        /\ \A k \in 1 .. Len(w) + 1 : new[k] = all[Len(s) - Len(w) + k]
    BY <1>1, <1>2
  <2>3. Len(w) <= Len(s) /\ (Len(w) = Len(s) \/ Len(w) = RTWindow)
    BY DEF Recent
  <2> HIDE DEF new, all
  <2>4. Len(new) <= Len(all) /\ (Len(new) = Len(all) \/ Len(new) = RTWindow)
    BY <1>1, <1>3, <2>2, <2>3
  <2>5. \A k \in 1 .. Len(new) : new[k] = all[Len(all) - Len(new) + k]
    <3> SUFFICES ASSUME NEW k \in 1 .. Len(new) PROVE new[k] = all[Len(all) - Len(new) + k]
      OBVIOUS
    <3>1. Len(all) - Len(new) + k = Len(s) - Len(w) + k
      BY <1>1, <2>2
    <3> QED BY <2>2, <3>1
  <2>6. Recent(new, all)
    BY <2>4, <2>5 DEF Recent
  <2> QED BY <2>1, <2>6 DEF new, all
<1>4. CASE Len(w) = RTWindow
  <2> DEFINE new == Tail(Append(w, t))
             all == Append(s, t)
  <2>1. Windowed(Append(w, t)) = new
    BY <1>4, WindowedIs
  <2>2. Append(w, t) # <<>>
    BY <1>1
  <2>3. Len(new) = Len(w) /\ \A k \in 1 .. Len(w) : new[k] = Append(w, t)[k + 1]
    BY <1>1, <2>2, HeadTailProperties
  <2>4. Len(all) = Len(s) + 1 /\ Len(w) <= Len(s)
    BY <1>1 DEF Recent
  <2>5. \A k \in 1 .. Len(w) : new[k] = all[Len(all) - Len(w) + k]
    <3> SUFFICES ASSUME NEW k \in 1 .. Len(w) PROVE new[k] = all[Len(all) - Len(w) + k]
      OBVIOUS
    <3>1. k + 1 \in 1 .. Len(w) + 1 /\ Len(s) - Len(w) + (k + 1) = Len(all) - Len(w) + k
      BY <1>1, <2>4
    <3> QED BY <1>2, <2>3, <3>1
  <2> HIDE DEF new, all
  <2>6. Len(new) <= Len(all) /\ Len(new) = RTWindow
    BY <1>1, <1>4, <2>3, <2>4
  <2>7. \A k \in 1 .. Len(new) : new[k] = all[Len(all) - Len(new) + k]
    BY <2>3, <2>5
  <2>8. Recent(new, all)
    BY <2>6, <2>7 DEF Recent
  <2> QED BY <2>1, <2>8 DEF all
<1> QED BY <1>1, <1>3, <1>4

LEMMA RecentIsSuffix ==
  ASSUME NEW w \in Seq(Time), NEW s \in Seq(Time), Recent(w, s)
  PROVE  IsSuffix(w, s) /\ (w = s \/ Len(w) = RTWindow)
<1>1. /\ Len(w) \in Nat /\ Len(s) \in Nat /\ Len(w) <= Len(s)
      /\ \A k \in 1 .. Len(w) : w[k] = s[Len(s) - Len(w) + k]
  BY LenProperties DEF Recent
<1>2. /\ Reverse(w) \in Seq(Time) /\ Len(Reverse(w)) = Len(w)
      /\ Reverse(s) \in Seq(Time) /\ Len(Reverse(s)) = Len(s)
      /\ \A k \in 1 .. Len(w) : Reverse(w)[k] = w[(Len(w) - k) + 1]
      /\ \A k \in 1 .. Len(s) : Reverse(s)[k] = s[(Len(s) - k) + 1]
  BY <1>1, ElementOfSeq, IsASeq DEF Reverse
<1>3. \A k \in 1 .. Len(w) : Reverse(w)[k] = Reverse(s)[k]
  <2> SUFFICES ASSUME NEW k \in 1 .. Len(w) PROVE Reverse(w)[k] = Reverse(s)[k]
    OBVIOUS
  <2>1. /\ (Len(w) - k) + 1 \in 1 .. Len(w) /\ k \in 1 .. Len(s)
        /\ Len(s) - Len(w) + ((Len(w) - k) + 1) = (Len(s) - k) + 1
    BY <1>1
  <2> QED BY <1>1, <1>2, <2>1
<1>4. SubSeq(Reverse(w), 1, Len(w)) = SubSeq(Reverse(s), 1, Len(w))
  BY <1>1, <1>2, <1>3, SubSeqProperties, SeqEqual
<1>5. CASE Len(w) = Len(s)
  <2>1. \A k \in 1 .. Len(w) : w[k] = s[k]
    BY <1>1, <1>5
  <2> QED BY <1>1, <1>2, <1>4, <1>5, <2>1, SeqEqual DEF IsSuffix, IsPrefix
<1>6. CASE Len(w) = RTWindow
  BY <1>1, <1>2, <1>4, <1>6 DEF IsSuffix, IsPrefix
<1> QED BY <1>5, <1>6 DEF Recent

\* Trimming after the append keeps exactly the latest RTWindow response times,
\* in their order, since the last reset.
THEOREM WindowStaysRecent == Spec => []WindowIsRecent
<1> DEFINE Inv == \A r \in Resource : Recent(rt[r], seen[r])
<1>1. Init => Inv
  BY EmptySeq DEF Init, Recent
<1>2. TypeOK /\ Inv /\ [Next]_vars => Inv'
  <2> SUFFICES ASSUME TypeOK, Inv, [Next]_vars PROVE Inv'
    OBVIOUS
  <2> USE DEF settings, counters, history
  <2>0. /\ job \in [Recorder -> Job]
        /\ rt \in [Resource -> Seq(Time)] /\ seen \in [Resource -> Seq(Time)]
        /\ \A r \in Resource : Len(rt[r]) <= RTWindow
    BY DEF TypeOK
  <2>1. ASSUME NEW g \in Recorder, RecordRT(g) PROVE Inv'
    <3> DEFINE r == job[g].resource
               w == Windowed(Append(rt[r], job[g].time))
    <3>1. r \in Resource /\ job[g].time \in Time
      BY <2>0, <2>1, JobCases DEF RecordRT, Idle, Working
    <3>2. rt' = [rt EXCEPT ![r] = w] /\ seen' = [seen EXCEPT ![r] = Append(seen[r], job[g].time)]
      BY <2>1 DEF RecordRT
    <3>3. Recent(w, Append(seen[r], job[g].time))
      BY <2>0, <3>1, RecentAppended
    <3> HIDE DEF w
    <3> SUFFICES ASSUME NEW h \in Resource PROVE Recent(rt'[h], seen'[h])
      BY DEF Recent
    <3>4. CASE h = r
      BY <2>0, <3>1, <3>2, <3>3, <3>4
    <3>5. CASE h # r
      BY <2>0, <3>1, <3>2, <3>5
    <3> QED BY <3>4, <3>5
  <2>2. CASE Reset
    BY <2>2, EmptySeq DEF Reset, Recent
  <2>3. CASE UNCHANGED <<rt, seen>>
    BY <2>3 DEF Recent
  <2>4. ASSUME NEW g \in Recorder, Check(g) \/ CountRequest(g) \/ CountVerdict(g)
        PROVE  UNCHANGED <<rt, seen>>
    BY <2>4 DEF Check, CountRequest, CountVerdict
  <2>5. ASSUME NEW q \in Reader, Summarize(q) \/ Visit(q) \/ EndSum(q)
        PROVE  UNCHANGED <<rt, seen>>
    BY <2>5 DEF Summarize, Visit, EndSum
  <2>6. CASE \/ SetEnabled \/ SetInterval \/ StartDisabled \/ StartCrashes \/ Start \/ Tick
             \/ Stop \/ UNCHANGED vars
    BY <2>3, <2>6
       DEF SetEnabled, SetInterval, StartDisabled, StartCrashes, Start, Tick, Stop, vars
  <2> QED BY <2>1, <2>2, <2>3, <2>4, <2>5, <2>6 DEF Next, Alive, Died
<1>3. TypeOK /\ Inv => WindowIsRecent
  BY RecentIsSuffix DEF TypeOK, WindowIsRecent
<1> QED BY <1>1, <1>2, <1>3, TypeCorrect, PTL DEF Spec

-----------------------------------------------------------------------------
(***************************************************************************)
(* Summaries.                                                              *)
(***************************************************************************)
\* A recorder has the lock between its two increments, and alone.
Held ==
  \A g \in Recorder :
    /\ g \in mu <=> job[g].at = "counted"
    /\ g \in mu => mu = {g}

\* The request in between is counted, and its verdict is not.
Pending(r) == IF \E g \in mu \cap Recorder : job[g].resource = r THEN 1 ELSE 0

Balanced == \A r \in Resource : total[r] = passed[r] + blocked[r] + Pending(r)

\* What a summary has added up and what it has still to visit make the sum.
Adds(s) ==
  /\ s.total = s.passed + s.blocked
  /\ s.total + SumOf(total, s.left) = SumOf(total, Resource)
  /\ s.passed + SumOf(passed, s.left) = SumOf(passed, Resource)
  /\ s.blocked + SumOf(blocked, s.left) = SumOf(blocked, Resource)

SumInv == Held /\ Balanced /\ \A q \in mu \cap Reader : Adds(sum[q])

LEMMA CountersCount ==
  ASSUME TypeOK, NEW R \in SUBSET Resource
  PROVE  IsFiniteSet(R) /\ CountsOn(total, R) /\ CountsOn(passed, R) /\ CountsOn(blocked, R)
BY FS_Subset, SetsAssumption DEF TypeOK, CountsOn

\* A summary begins with the resources that have requests: the others have none
\* that passed or was blocked either, since no recorder is between its
\* increments.
LEMMA BeginsRight ==
  ASSUME TypeOK, SumInv, mu \subseteq Reader
  PROVE  Adds([NoSum EXCEPT !.left = {r \in Resource : total[r] > 0}])
<1> DEFINE R == {r \in Resource : total[r] > 0}
           new == [NoSum EXCEPT !.left = R]
<1>1. new.left = R /\ new.total = 0 /\ new.passed = 0 /\ new.blocked = 0
  BY DEF NoSum
<1>2. \A r \in Resource : Pending(r) = 0
  BY SetsAssumption DEF Pending
<1>3. \A r \in Resource \ R : total[r] = 0 /\ passed[r] = 0 /\ blocked[r] = 0
  <2> SUFFICES ASSUME NEW r \in Resource \ R
               PROVE  total[r] = 0 /\ passed[r] = 0 /\ blocked[r] = 0
    OBVIOUS
  <2>1. total[r] \in Nat /\ passed[r] \in Nat /\ blocked[r] \in Nat /\ ~(total[r] > 0)
    BY DEF TypeOK
  <2>2. total[r] = passed[r] + blocked[r] + 0
    BY <1>2 DEF SumInv, Balanced
  <2> QED BY <2>1, <2>2
<1>4. R \in SUBSET Resource
  OBVIOUS
<1>5. /\ IsFiniteSet(Resource) /\ CountsOn(total, Resource)
      /\ CountsOn(passed, Resource) /\ CountsOn(blocked, Resource)
  BY CountersCount
<1> HIDE DEF R
<1>6. /\ SumOf(total, R) = SumOf(total, Resource)
      /\ SumOf(passed, R) = SumOf(passed, Resource)
      /\ SumOf(blocked, R) = SumOf(blocked, Resource)
  BY <1>3, <1>4, <1>5, SumOfRest
<1>7. /\ SumOf(total, Resource) \in Nat /\ SumOf(passed, Resource) \in Nat
      /\ SumOf(blocked, Resource) \in Nat
  BY <1>5, SumTakes
<1> QED BY <1>1, <1>6, <1>7 DEF Adds, R

\* Nobody records while a summary is added up.
LEMMA ReadersExclude ==
  ASSUME TypeOK, SumInv, NEW q \in mu \cap Reader
  PROVE  mu \subseteq Reader /\ \A r \in Resource : Pending(r) = 0
<1>1. mu \cap Recorder = {}
  BY SetsAssumption DEF SumInv, Held
<1> QED BY <1>1 DEF Pending, TypeOK

\* A visit moves a resource from what is left to what has been added up.
LEMMA VisitsRight ==
  ASSUME TypeOK, NEW s \in Sum, Adds(s), NEW r \in s.left, total[r] = passed[r] + blocked[r]
  PROVE  Adds([left |-> s.left \ {r}, total |-> s.total + total[r],
               passed |-> s.passed + passed[r], blocked |-> s.blocked + blocked[r]])
<1> DEFINE R == s.left
<1>1. R \in SUBSET Resource /\ s.total \in Nat /\ s.passed \in Nat /\ s.blocked \in Nat
  BY DEF Sum
<1>2. /\ IsFiniteSet(R) /\ CountsOn(total, R) /\ CountsOn(passed, R) /\ CountsOn(blocked, R)
      /\ IsFiniteSet(R \ {r}) /\ CountsOn(total, R \ {r})
      /\ CountsOn(passed, R \ {r}) /\ CountsOn(blocked, R \ {r})
  BY <1>1, CountersCount
<1>3. /\ SumOf(total, R) = total[r] + SumOf(total, R \ {r})
      /\ SumOf(passed, R) = passed[r] + SumOf(passed, R \ {r})
      /\ SumOf(blocked, R) = blocked[r] + SumOf(blocked, R \ {r})
  BY <1>2, SumTakes
<1>4. /\ SumOf(total, R \ {r}) \in Nat /\ SumOf(passed, R \ {r}) \in Nat
      /\ SumOf(blocked, R \ {r}) \in Nat
  BY <1>2, SumTakes
<1>5. total[r] \in Nat /\ passed[r] \in Nat /\ blocked[r] \in Nat
  BY <1>1 DEF TypeOK
<1>6. /\ s.total = s.passed + s.blocked
      /\ s.total + SumOf(total, R) = SumOf(total, Resource)
      /\ s.passed + SumOf(passed, R) = SumOf(passed, Resource)
      /\ s.blocked + SumOf(blocked, R) = SumOf(blocked, Resource)
  BY DEF Adds
<1> HIDE DEF R
<1>7. /\ s.total + total[r] = (s.passed + passed[r]) + (s.blocked + blocked[r])
      /\ (s.total + total[r]) + SumOf(total, R \ {r}) = SumOf(total, Resource)
      /\ (s.passed + passed[r]) + SumOf(passed, R \ {r}) = SumOf(passed, Resource)
      /\ (s.blocked + blocked[r]) + SumOf(blocked, R \ {r}) = SumOf(blocked, Resource)
  BY <1>1, <1>3, <1>4, <1>5, <1>6
<1> QED BY <1>7 DEF Adds, R

\* Steps that leave the counters alone and pass no verdict.
LEMMA SumsKeep ==
  ASSUME SumInv, UNCHANGED counters, Held', \A r \in Resource : Pending(r)' = Pending(r),
         \A q \in mu' \cap Reader : Adds(sum'[q]) \/ (q \in mu /\ sum'[q] = sum[q])
  PROVE  SumInv'
<1>1. Balanced'
  BY DEF SumInv, Balanced, counters
<1>2. ASSUME NEW q \in mu' \cap Reader PROVE Adds(sum[q])'
  BY <1>2 DEF SumInv, Adds, counters
<1> QED BY <1>1, <1>2 DEF SumInv

LEMMA SumInit == Init => SumInv
BY DEF Init, SumInv, Held, Balanced, Pending, Idle, Zero

LEMMA SumStep ==
  ASSUME TypeOK, SumInv, [Next]_vars
  PROVE  SumInv'
<1> USE DEF settings, counters, history
<1>0. /\ job \in [Recorder -> Job] /\ sum \in [Reader -> Sum]
      /\ mu \subseteq Recorder \cup Reader
      /\ total \in [Resource -> Nat] /\ passed \in [Resource -> Nat]
      /\ blocked \in [Resource -> Nat]
  BY DEF TypeOK
<1>1. ASSUME NEW g \in Recorder, Check(g) PROVE SumInv'
  <2>1. g \notin mu /\ job'[g].at = "checked"
    BY <1>0, <1>1 DEF Check, SumInv, Held, Idle
  <2>2. \A o \in Recorder : o # g => job'[o] = job[o]
    BY <1>0, <1>1 DEF Check
  <2>3. Held'
    BY <1>1, <2>1, <2>2 DEF Check, SumInv, Held
  <2>4. \A r \in Resource : Pending(r)' = Pending(r)
    BY <1>1, <2>1, <2>2 DEF Check, Pending
  <2> QED BY <1>1, <2>3, <2>4, SumsKeep DEF Check
<1>2. ASSUME NEW g \in Recorder, CountRequest(g) PROVE SumInv'
  <2> DEFINE r == job[g].resource
  <2>1. r \in Resource /\ job[g] \in Working
    BY <1>0, <1>2, JobCases DEF CountRequest, Idle, Working
  <2>2. job'[g].at = "counted" /\ job'[g].resource = r
    BY <1>0, <1>2, <2>1 DEF CountRequest, Working
  <2>3. \A o \in Recorder : o # g => job'[o] = job[o]
    BY <1>0, <1>2 DEF CountRequest
  <2>4. Held'
    BY <1>2, <2>2, <2>3 DEF CountRequest, SumInv, Held
  <2>5. Balanced'
    <3> SUFFICES ASSUME NEW h \in Resource
                 PROVE  total'[h] = passed'[h] + blocked'[h] + Pending(h)'
      BY DEF Balanced
    <3>1. Pending(h) = 0 /\ Pending(h)' = IF h = r THEN 1 ELSE 0
      BY <1>2, <2>2 DEF CountRequest, Pending
    <3>2. total[h] = passed[h] + blocked[h]
      BY <1>0, <3>1 DEF SumInv, Balanced
    <3>3. total'[h] = IF h = r THEN total[h] + 1 ELSE total[h]
      BY <1>0, <1>2 DEF CountRequest
    <3> QED BY <1>0, <1>2, <3>1, <3>2, <3>3 DEF CountRequest
  <2> QED BY <1>2, <2>4, <2>5, SetsAssumption DEF CountRequest, SumInv
<1>3. ASSUME NEW g \in Recorder, CountVerdict(g) PROVE SumInv'
  <2> DEFINE r == job[g].resource
  <2>1. mu = {g} /\ mu' = {}
    BY <1>3 DEF CountVerdict, SumInv, Held
  <2>2. job'[g].at = "idle" /\ \A o \in Recorder : o # g => job'[o] = job[o]
    BY <1>0, <1>3 DEF CountVerdict, Idle
  <2>3. Held'
    BY <2>1, <2>2 DEF SumInv, Held
  <2>4. r \in Resource
    BY <1>0, <1>3, JobCases DEF CountVerdict, Idle, Working
  <2>5. Balanced'
    <3> SUFFICES ASSUME NEW h \in Resource
                 PROVE  total'[h] = passed'[h] + blocked'[h] + Pending(h)'
      BY DEF Balanced
    <3>1. Pending(h)' = 0 /\ Pending(h) = IF h = r THEN 1 ELSE 0
      BY <2>1 DEF Pending
    <3>2. total[h] = passed[h] + blocked[h] + (IF h = r THEN 1 ELSE 0)
      BY <3>1 DEF SumInv, Balanced
    <3>3. \/ /\ passed'[h] = IF h = r THEN passed[h] + 1 ELSE passed[h]
             /\ blocked'[h] = blocked[h]
          \/ /\ blocked'[h] = IF h = r THEN blocked[h] + 1 ELSE blocked[h]
             /\ passed'[h] = passed[h]
      BY <1>0, <1>3 DEF CountVerdict
    <3>4. total[h] \in Nat /\ passed[h] \in Nat /\ blocked[h] \in Nat /\ total' = total
      BY <1>0, <1>3 DEF CountVerdict
    <3> QED BY <3>1, <3>2, <3>3, <3>4
  <2> QED BY <2>1, <2>3, <2>5 DEF SumInv
<1>4. ASSUME NEW g \in Recorder, RecordRT(g) PROVE SumInv'
  <2>1. job'[g].at = "idle" /\ \A o \in Recorder : o # g => job'[o] = job[o]
    BY <1>0, <1>4 DEF RecordRT, Idle
  <2>2. Held'
    BY <1>4, <2>1 DEF RecordRT, SumInv, Held
  <2>3. \A r \in Resource : Pending(r)' = Pending(r)
    BY <1>4 DEF RecordRT, Pending
  <2> QED BY <1>4, <2>2, <2>3, SumsKeep DEF RecordRT
<1>5. ASSUME NEW q \in Reader, BeginSum(q), UNCHANGED <<counters, job>> PROVE SumInv'
  <2>1. mu \subseteq Reader /\ mu' = mu \cup {q}
    BY <1>5 DEF BeginSum
  <2>2. Held'
    BY <1>5, <2>1, SetsAssumption DEF SumInv, Held
  <2>3. \A r \in Resource : Pending(r)' = Pending(r)
    BY <2>1, SetsAssumption DEF Pending
  <2>4. /\ sum'[q] = [NoSum EXCEPT !.left = {r \in Resource : total[r] > 0}]
        /\ \A o \in Reader : o # q => sum'[o] = sum[o]
    BY <1>0, <1>5 DEF BeginSum
  <2>5. Adds(sum'[q])
    BY <2>1, <2>4, BeginsRight
  <2> QED BY <1>5, <2>1, <2>2, <2>3, <2>4, <2>5, SumsKeep
<1>6. ASSUME NEW q \in Reader, Visit(q) PROVE SumInv'
  <2>1. q \in mu \cap Reader /\ UNCHANGED <<mu, job, counters>>
    BY <1>6 DEF Visit
  <2>2. PICK r \in sum[q].left :
          sum' = [sum EXCEPT ![q] =
            [left |-> sum[q].left \ {r}, total |-> sum[q].total + total[r],
             passed |-> sum[q].passed + passed[r], blocked |-> sum[q].blocked + blocked[r]]]
    BY <1>6 DEF Visit
  <2>3. sum[q] \in Sum /\ Adds(sum[q]) /\ r \in Resource
    BY <1>0, <2>1, <2>2 DEF SumInv, Sum
  <2>4. total[r] = passed[r] + blocked[r]
    <3>1. total[r] = passed[r] + blocked[r] + 0
      BY <2>1, <2>3, ReadersExclude DEF SumInv, Balanced
    <3> QED BY <1>0, <2>3, <3>1
  <2>5. Adds(sum'[q]) /\ \A o \in Reader : o # q => sum'[o] = sum[o]
    BY <1>0, <2>2, <2>3, <2>4, VisitsRight
  <2>6. Held' /\ \A h \in Resource : Pending(h)' = Pending(h)
    BY <2>1 DEF SumInv, Held, Pending
  <2> QED BY <2>1, <2>5, <2>6, SumsKeep
<1>7. ASSUME NEW q \in Reader, EndSum(q) PROVE SumInv'
  <2>1. mu \subseteq Reader /\ mu' = mu \ {q}
    BY <1>7, ReadersExclude DEF EndSum
  <2>2. Held' /\ \A r \in Resource : Pending(r)' = Pending(r)
    BY <1>7, <2>1, SetsAssumption DEF EndSum, SumInv, Held, Pending
  <2>3. \A o \in Reader : o # q => sum'[o] = sum[o]
    BY <1>0, <1>7 DEF EndSum
  <2> QED BY <1>7, <2>1, <2>2, <2>3, SumsKeep DEF EndSum
<1>8. CASE Reset
  <2>1. mu = {} /\ mu' = {} /\ job' = job
    BY <1>8 DEF Reset
  <2>2. Held' /\ \A r \in Resource : Pending(r)' = 0
    BY <2>1 DEF SumInv, Held, Pending
  <2>3. Balanced'
    BY <1>8, <2>2 DEF Reset, Balanced, Zero
  <2> QED BY <2>1, <2>2, <2>3 DEF SumInv
<1>9. CASE UNCHANGED <<counters, mu, job, sum>>
  <2>1. Held' /\ \A r \in Resource : Pending(r)' = Pending(r)
    BY <1>9 DEF SumInv, Held, Pending
  <2> QED BY <1>9, <2>1, SumsKeep
<1>10. CASE \/ SetEnabled \/ SetInterval \/ StartDisabled \/ StartCrashes \/ Start \/ Stop
            \/ UNCHANGED vars
  BY <1>9, <1>10 DEF SetEnabled, SetInterval, StartDisabled, StartCrashes, Start, Stop, vars
<1>11. CASE Tick
  BY <1>5, <1>11, SetsAssumption DEF Tick
<1>12. ASSUME NEW q \in Reader, Summarize(q) PROVE SumInv'
  BY <1>5, <1>12 DEF Summarize
<1> QED
  BY <1>1, <1>2, <1>3, <1>4, <1>6, <1>7, <1>8, <1>10, <1>11, <1>12 DEF Next, Alive, Died

THEOREM SumInvariant == Spec => []SumInv
BY SumInit, SumStep, TypeCorrect, PTL DEF Spec

\* SummaryIsSnapshot, by the sum whose laws are proved.
Snapshots ==
  \A q \in Reader :
    q \in mu /\ sum[q].left = {} =>
      /\ sum[q].total = sum[q].passed + sum[q].blocked
      /\ sum[q].total = SumOf(total, Resource)
      /\ sum[q].passed = SumOf(passed, Resource)
      /\ sum[q].blocked = SumOf(blocked, Resource)

LEMMA SnapshotsTaken == ASSUME TypeOK, SumInv PROVE Snapshots
<1> SUFFICES ASSUME NEW q \in Reader, q \in mu, sum[q].left = {}
             PROVE  /\ sum[q].total = sum[q].passed + sum[q].blocked
                    /\ sum[q].total = SumOf(total, Resource)
                    /\ sum[q].passed = SumOf(passed, Resource)
                    /\ sum[q].blocked = SumOf(blocked, Resource)
  BY DEF Snapshots
<1>1. Adds(sum[q])
  BY DEF SumInv
<1>2. sum[q].total \in Nat /\ sum[q].passed \in Nat /\ sum[q].blocked \in Nat
  BY DEF TypeOK, Sum
<1> QED BY <1>1, <1>2, SumOfNothing DEF Adds

\* A reader that has visited every resource has the sums of the counters as
\* they are: GetMetricsSummary and the tick see no half-recorded request and no
\* reset.
THEOREM SummariesAreSnapshots == Spec => []SummaryIsSnapshot
<1>1. Snapshots => SummaryIsSnapshot
  BY DEF Snapshots, SummaryIsSnapshot, SumOf
<1> QED BY <1>1, SnapshotsTaken, SumInvariant, TypeCorrect, PTL

\* The step in which a reader's summary is ready, and the steps on its way.
LEMMA SummaryReady ==
  ASSUME Snapshots', UNCHANGED <<passed, blocked>>,
         NEW q \in Reader, Summary(q) = {}, \A o \in Reader \ {q} : Summary(o)' = Summary(o)
  PROVE  [Counts!Next]_(Counts!vars)
<1> DEFINE before == [o \in Reader |-> Summary(o)]
           after == [o \in Reader |-> Summary(o)']
<1>1. CASE Summary(q)' = {}
  BY <1>1 DEF Counts!vars
<1>2. CASE Summary(q)' # {}
  <2>1. q \in mu' /\ sum'[q].left = {}
    BY <1>2 DEF Summary
  <2>2. /\ sum'[q].total = sum'[q].passed + sum'[q].blocked
        /\ sum'[q].passed = Counts!All(passed) /\ sum'[q].blocked = Counts!All(blocked)
    <3>1. /\ sum'[q].total = sum'[q].passed + sum'[q].blocked
          /\ sum'[q].passed = SumOf(passed, Resource)
          /\ sum'[q].blocked = SumOf(blocked, Resource)
      BY <2>1 DEF Snapshots
    <3>2. /\ SumOf(passed, Resource) = Counts!All(passed)
          /\ SumOf(blocked, Resource) = Counts!All(blocked)
      BY DEF SumOf, Counts!All, MapThenSumSet, Counts!MapThenSumSet,
             MapThenFoldSet, Counts!MapThenFoldSet
    <3> QED BY <3>1, <3>2
  <2>3. Summary(q)' = {[total |-> Counts!All(passed) + Counts!All(blocked),
                        passed |-> Counts!All(passed), blocked |-> Counts!All(blocked)]}
    BY <2>1, <2>2 DEF Summary
  <2>4. after = [before EXCEPT ![q] = Summary(q)']
    OBVIOUS
  <2>5. Counts!Summarize(q)
    BY <2>3, <2>4 DEF Counts!Summarize
  <2> QED BY <2>5 DEF Counts!Next
<1> QED BY <1>1, <1>2

\* The collector implements RequestCounts. A request happens there when its
\* verdict is counted, a summary when its last resource is visited.
THEOREM ImplementsRequestCounts == Spec => RequestCountsSpec
<1> USE DEF settings, counters, history
<1>1. Init => Counts!Init
  BY DEF Init, Summary, Counts!Init, Counts!Zero, Zero
<1>2. TypeOK /\ SumInv /\ Snapshots' /\ [Next]_vars => [Counts!Next]_(Counts!vars)
  <2> SUFFICES ASSUME TypeOK, SumInv, Snapshots', [Next]_vars
               PROVE  [Counts!Next]_(Counts!vars)
    OBVIOUS
  <2>0. job \in [Recorder -> Job] /\ sum \in [Reader -> Sum]
    BY DEF TypeOK
  <2>1. CASE /\ UNCHANGED <<passed, blocked, sum>>
             /\ mu' \cap Reader = mu \cap Reader
    BY <2>1 DEF Summary, Counts!vars
  <2>2. ASSUME NEW g \in Recorder, Check(g) \/ CountRequest(g) \/ RecordRT(g)
        PROVE  [Counts!Next]_(Counts!vars)
    BY <2>1, <2>2, SetsAssumption DEF Check, CountRequest, RecordRT
  <2>3. ASSUME NEW g \in Recorder, CountVerdict(g) PROVE [Counts!Next]_(Counts!vars)
    <3> DEFINE r == job[g].resource
    <3>1. r \in Resource
      BY <2>0, <2>3, JobCases DEF CountVerdict, Idle, Working
    <3>2. mu \cap Reader = {} /\ mu' \cap Reader = {}
      BY <2>3, SetsAssumption DEF CountVerdict, SumInv, Held
    <3>3. [q \in Reader |-> Summary(q)]' = [q \in Reader |-> Summary(q)]
      BY <3>2 DEF Summary
    <3>4. Counts!Pass(r) \/ Counts!Block(r)
      BY <2>3, <3>3 DEF CountVerdict, Counts!Pass, Counts!Block
    <3> QED BY <3>1, <3>4 DEF Counts!Next
  <2>4. ASSUME NEW q \in Reader, BeginSum(q), UNCHANGED counters
        PROVE  [Counts!Next]_(Counts!vars)
    <3>1. Summary(q) = {}
      BY <2>4 DEF BeginSum, Summary
    <3>2. \A o \in Reader \ {q} : Summary(o)' = Summary(o)
      BY <2>0, <2>4 DEF BeginSum, Summary
    <3> QED BY <2>4, <3>1, <3>2, SummaryReady
  <2>5. ASSUME NEW q \in Reader, Visit(q) PROVE [Counts!Next]_(Counts!vars)
    <3>1. Summary(q) = {}
      BY <2>5 DEF Visit, Summary
    <3>2. \A o \in Reader \ {q} : Summary(o)' = Summary(o)
      BY <2>0, <2>5 DEF Visit, Summary
    <3> QED BY <2>5, <3>1, <3>2, SummaryReady DEF Visit
  <2>6. ASSUME NEW q \in Reader, EndSum(q) PROVE [Counts!Next]_(Counts!vars)
    <3>1. Summary(q) # {} /\ Summary(q)' = {}
      BY <2>6 DEF EndSum, Summary
    <3>2. \A o \in Reader \ {q} : Summary(o)' = Summary(o)
      BY <2>0, <2>6 DEF EndSum, Summary
    <3>3. Counts!Return(q)
      BY <2>6, <3>1, <3>2 DEF EndSum, Counts!Return
    <3> QED BY <3>3 DEF Counts!Next
  <2>7. CASE Reset
    <3>1. [q \in Reader |-> Summary(q)]' = [q \in Reader |-> Summary(q)]
      BY <2>7 DEF Reset, Summary
    <3> QED BY <2>7, <3>1 DEF Reset, Zero, Counts!Reset, Counts!Zero, Counts!Next
  <2>8. CASE \/ SetEnabled \/ SetInterval \/ StartDisabled \/ StartCrashes \/ Start \/ Stop
             \/ UNCHANGED vars
    BY <2>1, <2>8 DEF SetEnabled, SetInterval, StartDisabled, StartCrashes, Start, Stop, vars
  <2>9. CASE Tick
    BY <2>4, <2>9, SetsAssumption DEF Tick
  <2>10. ASSUME NEW q \in Reader, Summarize(q) PROVE [Counts!Next]_(Counts!vars)
    BY <2>4, <2>10 DEF Summarize
  <2> QED
    BY <2>2, <2>3, <2>5, <2>6, <2>7, <2>8, <2>9, <2>10 DEF Next, Alive, Died
<1> QED
  BY <1>1, <1>2, TypeCorrect, SumInvariant, SnapshotsTaken, PTL
  DEF Spec, RequestCountsSpec, Counts!Spec

-----------------------------------------------------------------------------
(***************************************************************************)
(* Statistics.                                                             *)
(***************************************************************************)
Stats == [sum : Nat, min : Nat, max : Nat]

\* The recursion of RTTotals over the indices of a window, the last one first.
LastOf(n) == [T \in SUBSET (1 .. n) |-> Max(T)]

AddingOf(s, n) == [p \in (1 .. n) \X Stats |-> Adding(p[2], s[p[1]])]

NoStats(s) == [sum |-> 0, min |-> s[1], max |-> s[1]]

LEMMA LastIsLargest ==
  ASSUME NEW n \in Nat
  PROVE  Chooses(LastOf(n), 1 .. n)
<1> SUFFICES ASSUME NEW T \in SUBSET (1 .. n), T # {} PROVE Max(T) \in T
  BY DEF Chooses, LastOf
<1>1. PICK x \in T : \A y \in T : x >= y
  BY LargestNatural
<1> QED BY <1>1 DEF Max

LEMMA StatsRecur ==
  ASSUME NEW s \in Seq(Nat), s # <<>>
  PROVE  \E g \in [SUBSET (1 .. Len(s)) -> Stats] :
           /\ Recurs(g, LastOf(Len(s)), AddingOf(s, Len(s)), NoStats(s), 1 .. Len(s))
           /\ RTTotals(s) = g[1 .. Len(s)]
<1> DEFINE n == Len(s)
           D == 1 .. n
           c == LastOf(n)
           op == AddingOf(s, n)
           b == NoStats(s)
           Step(h) == [T \in SUBSET D |->
                         IF T = {} THEN b ELSE Adding(h[T \ {Max(T)}], s[Max(T)])]
           iter == CHOOSE h : h = Step(h)
<1>0. n \in Nat \ {0} /\ DOMAIN s = D /\ \A i \in D : s[i] \in Nat
  BY LenProperties, EmptySeq, ElementOfSeq
<1>1. /\ Chooses(c, D) /\ Fits(op, D, Stats) /\ b \in Stats /\ IsFiniteSet(D)
  <2>1. b \in Stats
    BY <1>0 DEF NoStats, Stats
  <2>2. ASSUME NEW a \in Stats, NEW t \in Nat PROVE Adding(a, t) \in Stats
    BY DEF Adding, Stats
  <2>3. Fits(op, D, Stats)
    BY <1>0, <2>2 DEF Fits, AddingOf
  <2> QED BY <1>0, <2>1, <2>3, LastIsLargest, FS_Interval
<1>2. PICK g \in [SUBSET D -> Stats] : Recurs(g, c, op, b, D)
  <2> HIDE DEF c, op, b, D
  <2> QED BY <1>1, RecursionExists
<1>3. g = Step(g)
  <2>1. ASSUME NEW T \in SUBSET D, T # {}
        PROVE  g[T] = Adding(g[T \ {Max(T)}], s[Max(T)])
    <3>1. c[T] = Max(T) /\ c[T] \in D
      BY <1>1, <2>1 DEF Chooses, LastOf
    <3>2. <<c[T], g[T \ {c[T]}]>> \in D \X Stats
      BY <3>1
    <3> QED BY <1>2, <2>1, <3>1, <3>2 DEF Recurs, AddingOf
  <2> QED BY <1>2, <2>1 DEF Recurs
<1>4. iter = Step(iter)
  BY <1>3
<1>5. iter[D] = RTTotals(s)
  BY <1>0 DEF RTTotals, FoldLeft, MapThenFoldSet, Adding, NoStats
<1>6. Recurs(iter, c, op, b, D)
  <2> HIDE DEF iter
  <2>1. iter[{}] = b
    BY <1>4
  <2>2. ASSUME NEW T \in SUBSET D, T # {}, <<c[T], iter[T \ {c[T]}]>> \in DOMAIN op
        PROVE  iter[T] = op[<<c[T], iter[T \ {c[T]}]>>]
    BY <1>4, <2>2 DEF LastOf, AddingOf
  <2> QED BY <2>1, <2>2 DEF Recurs
<1>7. iter[D] = g[D]
  <2>1. D \in SUBSET D
    OBVIOUS
  <2> HIDE DEF iter, c, op, b, D
  <2>2. \A T \in SUBSET D : g[T] = iter[T]
    BY <1>1, <1>2, <1>6, <2>1, RecursionUnique, SMTT(30)
  <2> QED BY <2>1, <2>2
<1> QED BY <1>2, <1>5, <1>7

\* One more time t is added to k times whose sum is z.
LEMMA MinGrows ==
  ASSUME NEW k \in Nat, NEW m \in Nat, NEW w \in Nat, NEW z \in Nat, NEW t \in Nat,
         w <= m, w <= t, k * m <= z
  PROVE  (k + 1) * w <= z + t
<1>1. k * w <= k * m /\ (k + 1) * w = k * w + w
  OBVIOUS
<1> QED BY <1>1

LEMMA MaxGrows ==
  ASSUME NEW k \in Nat, NEW m \in Nat, NEW w \in Nat, NEW z \in Nat, NEW t \in Nat,
         m <= w, t <= w, z <= k * m
  PROVE  z + t <= (k + 1) * w
<1>1. k * m <= k * w /\ (k + 1) * w = k * w + w
  OBVIOUS
<1> QED BY <1>1

LEMMA CardinalityTo ==
  ASSUME NEW n \in Nat
  PROVE  Cardinality(1 .. n) = n
BY FS_Interval

LEMMA InOrder ==
  ASSUME NEW x \in Nat, NEW y \in Nat, NEW z \in Nat, x <= y, y <= z
  PROVE  x <= z
OBVIOUS

\* The smaller and the larger of two times, as the statistics pick them.
LEMMA Picked ==
  ASSUME NEW t \in Nat, NEW m \in Nat
  PROVE  LET small == IF t < m THEN t ELSE m
             large == IF t > m THEN t ELSE m
         IN  /\ small \in Nat /\ small <= m /\ small <= t
             /\ large \in Nat /\ m <= large /\ t <= large
OBVIOUS

\* What the statistics a say of the times of s whose indices are in T.
Bounds(a, s, T) ==
  /\ \E i \in 1 .. Len(s) : a.min = s[i]
  /\ \E i \in 1 .. Len(s) : a.max = s[i]
  /\ \A i \in T : a.min <= s[i] /\ s[i] <= a.max
  /\ Cardinality(T) * a.min <= a.sum /\ a.sum <= Cardinality(T) * a.max
  /\ a.sum = SumOf(s, T)

LEMMA StatsBound ==
  ASSUME NEW s \in Seq(Nat), s # <<>>
  PROVE  RTTotals(s) \in Stats /\ Bounds(RTTotals(s), s, 1 .. Len(s))
<1> DEFINE n == Len(s)
           D == 1 .. n
<1>0. n \in Nat \ {0} /\ (\A i \in D : s[i] \in Nat) /\ 1 \in D /\ IsFiniteSet(D)
  <2>1. n \in Nat \ {0} /\ \A i \in D : s[i] \in Nat
    BY LenProperties, EmptySeq, ElementOfSeq
  <2> QED BY <2>1, FS_Interval
<1>1. PICK g \in [SUBSET D -> Stats] :
        /\ Recurs(g, LastOf(n), AddingOf(s, n), NoStats(s), D)
        /\ RTTotals(s) = g[D]
  BY StatsRecur
<1> DEFINE Bad == {T \in SUBSET D : ~Bounds(g[T], s, T)}
<1>2. Bounds(g[{}], s, {})
  <2>1. g[{}] = NoStats(s)
    BY <1>1 DEF Recurs
  <2> QED BY <1>0, <2>1, FS_EmptySet, SumOfNothing DEF Bounds, NoStats
<1>3. ASSUME NEW T \in SUBSET D, NEW x \in T, Bounds(g[T \ {x}], s, T \ {x}),
             g[T] = Adding(g[T \ {x}], s[x])
      PROVE  Bounds(g[T], s, T)
  <2> DEFINE a == g[T \ {x}]
             t == s[x]
             k == Cardinality(T \ {x})
  <2>1. a \in Stats /\ t \in Nat /\ x \in D
    BY <1>0
  <2>2. k \in Nat /\ Cardinality(T) = k + 1
    <3>1. IsFiniteSet(T) /\ IsFiniteSet(T \ {x})
      BY <1>0, FS_Subset
    <3>2. Cardinality(T \ {x}) \in Nat /\ Cardinality(T) \in Nat
      BY <3>1, FS_CardinalityType
    <3>3. Cardinality(T \ {x}) = Cardinality(T) - 1
      BY <3>1, FS_RemoveElement
    <3> QED BY <3>2, <3>3
  <2>3. /\ g[T].sum = a.sum + t
        /\ g[T].min = IF t < a.min THEN t ELSE a.min
        /\ g[T].max = IF t > a.max THEN t ELSE a.max
    BY <1>3 DEF Adding
  <2>4. a.sum \in Nat /\ a.min \in Nat /\ a.max \in Nat
    BY <2>1 DEF Stats
  <2>5. k * a.min <= a.sum /\ a.sum <= k * a.max
    BY <1>3 DEF Bounds
  <2>6. \E i \in D : g[T].min = s[i]
    BY <1>3, <2>1, <2>3 DEF Bounds
  <2>7. \E i \in D : g[T].max = s[i]
    BY <1>3, <2>1, <2>3 DEF Bounds
  <2>8. /\ g[T].min \in Nat /\ g[T].min <= a.min /\ g[T].min <= t
        /\ g[T].max \in Nat /\ a.max <= g[T].max /\ t <= g[T].max
    <3>1. t \in Nat /\ a.min \in Nat /\ a.max \in Nat
      BY <2>1, <2>4
    <3> HIDE DEF a, t
    <3> QED BY <2>3, <3>1, Picked, Zenon
  <2>9. ASSUME NEW i \in T PROVE g[T].min <= s[i] /\ s[i] <= g[T].max
    <3>1. i # x => a.min <= s[i] /\ s[i] <= a.max
      BY <1>3 DEF Bounds
    <3>2. s[i] \in Nat
      BY <1>0
    <3>3. CASE i = x
      <4>1. s[i] = t
        BY <3>3
      <4> HIDE DEF a, t
      <4> QED BY <2>8, <4>1, Zenon
    <3>4. CASE i # x
      <4>1. s[i] \in Nat /\ a.min <= s[i] /\ s[i] <= a.max
        BY <3>1, <3>2, <3>4
      <4> HIDE DEF a, t
      <4> QED BY <2>4, <2>8, <4>1, InOrder, Zenon
    <3> QED BY <3>3, <3>4
  <2>10. a.sum + t = SumOf(s, T)
    <3>1. IsFiniteSet(T) /\ CountsOn(s, T)
      BY <1>0, FS_Subset DEF CountsOn
    <3>2. IsFiniteSet(T \ {x}) /\ CountsOn(s, T \ {x})
      BY <1>0, FS_Subset DEF CountsOn
    <3>3. SumOf(s, T) = t + SumOf(s, T \ {x}) /\ SumOf(s, T \ {x}) \in Nat
      BY <3>1, <3>2, SumTakes
    <3>4. a.sum = SumOf(s, T \ {x})
      BY <1>3 DEF Bounds
    <3> HIDE DEF a, t
    <3> QED BY <2>1, <3>3, <3>4
  <2> HIDE DEF a, t, k
  <2>11. (k + 1) * g[T].min <= a.sum + t
    BY <2>1, <2>2, <2>4, <2>5, <2>8, MinGrows
  <2>12. a.sum + t <= (k + 1) * g[T].max
    BY <2>1, <2>2, <2>4, <2>5, <2>8, MaxGrows
  <2> QED BY <2>2, <2>3, <2>6, <2>7, <2>9, <2>10, <2>11, <2>12 DEF Bounds
<1>4. Bad = {}
  <2>1. SUFFICES ASSUME Bad # {} PROVE FALSE
    OBVIOUS
  <2>2. PICK T \in Bad : \A U \in SUBSET T : U # T => U \notin Bad
    <3>1. Bad \in SUBSET SUBSET D
      OBVIOUS
    <3> HIDE DEF Bad, D
    <3> QED BY <1>0, <2>1, <3>1, SmallestBadSet, Zenon
  <2> DEFINE x == LastOf(n)[T]
  <2>3. T \in SUBSET D /\ T # {} /\ ~Bounds(g[T], s, T)
    BY <1>2, <2>2
  <2>4. x \in T
    BY <1>0, <2>3, LastIsLargest DEF Chooses
  <2>5. <<x, g[T \ {x}]>> \in D \X Stats
    BY <2>3, <2>4
  <2>6. g[T] = Adding(g[T \ {x}], s[x])
    BY <1>1, <2>3, <2>5 DEF Recurs, AddingOf
  <2>7. Bounds(g[T \ {x}], s, T \ {x})
    BY <2>2, <2>3, <2>4
  <2> QED BY <1>3, <2>3, <2>4, <2>6, <2>7
<1>5. Bounds(g[D], s, D)
  BY <1>4
<1> QED BY <1>1, <1>5

\* A quotient lies between the factors that bound its dividend.
LEMMA QuotientBetween ==
  ASSUME NEW n \in Nat \ {0}, NEW z \in Nat, NEW m \in Nat, NEW w \in Nat,
         n * m <= z, z <= n * w
  PROVE  m <= z \div n /\ z \div n <= w
<1> DEFINE q == z \div n
<1>1. q \in Int /\ n * q <= z /\ z < n * (q + 1)
  OBVIOUS
<1> HIDE DEF q
<1>2. n * m < n * (q + 1) /\ n * q <= n * w
  BY <1>1
<1>3. m < q + 1 /\ q <= w
  BY <1>1, <1>2
<1> QED BY <1>1, <1>3 DEF q

\* Of a window that is not empty, the reported average is that of its response
\* times, the reported minimum and maximum are among them and bound them all,
\* and the average lies between the two.
THEOREM StatsStayRight == Spec => []StatsAreRight
<1>1. TypeOK => StatsAreRight
  <2> SUFFICES ASSUME TypeOK, NEW r \in Resource, rt[r] # <<>>
               PROVE  LET stats == RTStats(rt[r])
                      IN  /\ stats.avg = SumOf(rt[r], 1 .. Len(rt[r])) \div Len(rt[r])
                          /\ {stats.min, stats.max} \subseteq ToSet(rt[r])
                          /\ \A t \in ToSet(rt[r]) \cup {stats.avg} :
                               stats.min <= t /\ t <= stats.max
    BY DEF StatsAreRight, SumOf
  <2> DEFINE s == rt[r]
             all == RTTotals(s)
  <2>1. s \in Seq(Nat)
    <3>1. s \in Seq(Time)
      BY DEF TypeOK
    <3>2. Len(s) \in Nat /\ \A i \in 1 .. Len(s) : s[i] \in Nat
      BY <3>1, LenProperties, ElementOfSeq, TimesAssumption
    <3> QED BY <3>1, <3>2, IsASeq
  <2>2. /\ Len(s) \in Nat \ {0} /\ ToSet(s) = {s[i] : i \in 1 .. Len(s)}
        /\ Cardinality(1 .. Len(s)) = Len(s)
    <3>1. Len(s) \in Nat \ {0} /\ ToSet(s) = {s[i] : i \in 1 .. Len(s)}
      BY <2>1, LenProperties, EmptySeq DEF ToSet
    <3> HIDE DEF s
    <3> QED BY <3>1, CardinalityTo, Zenon
  <2>3. all \in Stats /\ Bounds(all, s, 1 .. Len(s))
    BY <2>1, StatsBound
  <2> HIDE DEF s, all
  <2>4. /\ {all.min, all.max} \subseteq ToSet(s)
        /\ \A t \in ToSet(s) : all.min <= t /\ t <= all.max
        /\ Len(s) * all.min <= all.sum /\ all.sum <= Len(s) * all.max
        /\ all.sum = SumOf(s, 1 .. Len(s))
    BY <2>2, <2>3 DEF Bounds
  <2>5. all.min <= all.sum \div Len(s) /\ all.sum \div Len(s) <= all.max
    <3>1. all.sum \in Nat /\ all.min \in Nat /\ all.max \in Nat
      BY <2>3 DEF Stats
    <3> QED BY <2>2, <2>4, <3>1, QuotientBetween
  <2>6. /\ RTStats(s).avg = all.sum \div Len(s)
        /\ RTStats(s).min = all.min /\ RTStats(s).max = all.max
    BY DEF RTStats, all
  <2> QED BY <2>4, <2>5, <2>6 DEF s
<1> QED BY <1>1, TypeCorrect, PTL
=============================================================================
