------------------------ MODULE DashboardServer_proofs ------------------------
(***************************************************************************)
(* Proofs about DashboardServer, for any number of objects and instances.  *)
(* The properties that speak of objects whose instances never overlapped   *)
(* rest on one fact: such an object has at most one instance that is not   *)
(* gone, so nobody else writes its fields while that instance is there.    *)
(***************************************************************************)
EXTENDS DashboardServer, TLAPS

\* The instances launched so far, the objects they run on, and their listeners.
Structure ==
  \A i \in Instance :
    /\ inst[i] = "none" <=> launched < i
    /\ i <= launched => runs[i] \in Object
    /\ inst[i] \notin {"none", "launched"} => server[runs[i]] # None
    /\ inst[i] \in {"none", "launched", "prepared"} => listener[i] = "none"
    /\ inst[i] = "bound" => listener[i] = "bound"

DashInv == TypeOK /\ Structure

\* From the new http.Server to the deferred calls.
AtWork == {"prepared", "bound", "leaving"} \cup Up

\* A dashboard that reports "running" has an instance that is up.
Backed ==
  \A o \in Object : running[o] => \E i \in Instance : runs[i] = o /\ inst[i] \in Up

\* What an instance can rely on whose object's instances never overlapped.
Undisturbed(i) ==
  /\ \A j \in 1 .. launched : j # i /\ runs[j] = runs[i] => inst[i] = "done" \/ inst[j] = "done"
  /\ inst[i] \in AtWork => runs[i] \in uptime /\ server[runs[i]] = i
  /\ inst[i] \in Up => running[runs[i]]
  /\ inst[i] \in {"draining", "hanging", "leaving", "done"} /\ listener[i] # "none" =>
       i \in shut

Alone == \A i \in 1 .. launched : runs[i] \notin overlapped => Undisturbed(i)

OwnInv == Alone /\ Backed /\ OwnServerEndsWithInstance

-----------------------------------------------------------------------------
\* A step of an instance that is there.
LEMMA GotoDoes ==
  ASSUME DashInv, NEW i \in Instance, NEW from \in Stage \ {"none"}, NEW to \in Stage \ {"none"},
         Goto(i, from, to)
  PROVE  /\ inst[i] = from /\ inst'[i] = to
         /\ \A j \in Instance \ {i} : inst'[j] = inst[j]
         /\ inst' \in [Instance -> Stage]
         /\ i <= launched /\ runs[i] \in Object
         /\ from # "launched" => server[runs[i]] \in Instance
BY DEF Goto, DashInv, TypeOK, Structure, Instance, None

LEMMA ClosedIs ==
  ASSUME DashInv, NEW s
  PROVE  /\ Closed(s) \in [Instance -> ListenerState]
         /\ \A l \in Instance : /\ Closed(s)[l] = "none" <=> listener[l] = "none"
                                /\ listener[l] # "served" => Closed(s)[l] = listener[l]
                                /\ Closed(s)[l] \in {listener[l], "closed"}
                                /\ servedBy[l] = s => Closed(s)[l] # "served"
BY DEF Closed, DashInv, TypeOK, ListenerState

\* The stages and the listeners keep their structure when an instance moves.
LEMMA MoveKeeps ==
  ASSUME DashInv, NEW i \in Instance,
         NEW from \in Stage \ {"none"}, NEW to \in Stage \ {"none", "launched"},
         Goto(i, from, to), runs' = runs, launched' = launched,
         \A o \in Object : server'[o] = server[o] \/ server'[o] = i,
         from = "launched" => server'[runs[i]] # None,
         \A l \in Instance \ {i} : /\ listener[l] = "none" => listener'[l] = "none"
                                   /\ listener[l] = "bound" => listener'[l] = "bound",
         to = "prepared" => listener'[i] = "none",
         to = "bound" => listener'[i] = "bound"
  PROVE  Structure'
<1> SUFFICES ASSUME NEW j \in Instance
             PROVE  (/\ inst[j] = "none" <=> launched < j
                     /\ j <= launched => runs[j] \in Object
                     /\ inst[j] \notin {"none", "launched"} => server[runs[j]] # None
                     /\ inst[j] \in {"none", "launched", "prepared"} => listener[j] = "none"
                     /\ inst[j] = "bound" => listener[j] = "bound")'
  BY DEF Structure
<1>1. /\ inst[i] = from /\ inst'[i] = to
      /\ \A k \in Instance \ {i} : inst'[k] = inst[k]
      /\ i <= launched /\ runs[i] \in Object
      /\ from # "launched" => server[runs[i]] \in Instance
  BY GotoDoes
<1>2. i # None /\ launched \in Nat /\ i \in Nat /\ j \in Nat
  BY BoundsAssumption DEF DashInv, TypeOK, Instance, None
<1>3. CASE j = i
  BY <1>1, <1>2, <1>3 DEF Instance, None
<1>4. CASE j # i
  <2>1. inst[j] # "none" => runs[j] \in Object
    BY <1>2 DEF DashInv, Structure
  <2> QED BY <1>1, <1>2, <1>4, <2>1 DEF DashInv, Structure
<1> QED BY <1>3, <1>4

THEOREM DashInvariant == Spec => []DashInv
<1>1. Init => DashInv
  BY BoundsAssumption
     DEF Init, DashInv, TypeOK, Structure, Instance, Object, None, Stage, ListenerState
<1>2. DashInv /\ [Next]_vars => DashInv'
  <2> SUFFICES ASSUME DashInv, [Next]_vars PROVE DashInv'
    OBVIOUS
  <2> USE DEF threads, net
  <2>0. TypeOK /\ Structure
    BY DEF DashInv
  <2>1. CASE Initialize
    BY <2>0, <2>1, BoundsAssumption DEF Initialize, DashInv, TypeOK, Structure, Object, None
  <2>2. CASE Launch
    <3>1. launched + 1 \in Instance /\ object \in Object
      BY <2>0, <2>2, BoundsAssumption DEF Launch, TypeOK, Instance
    <3>2. TypeOK'
      BY <2>0, <2>2, <3>1, BoundsAssumption DEF Launch, TypeOK, Instance, Stage
    <3>3. Structure'
      BY <2>0, <2>2, <3>1, BoundsAssumption DEF Launch, TypeOK, Structure, Instance
    <3> QED BY <3>2, <3>3 DEF DashInv
  <2>3. CASE Stop
    BY <2>0, <2>3, BoundsAssumption DEF Stop, DashInv, TypeOK, Structure, Instance
  <2>4. ASSUME NEW i \in Instance, Prepare(i) PROVE DashInv'
    <3>1. Structure'
      BY <2>0, <2>4, MoveKeeps DEF Prepare, Stage, TypeOK, Instance, None, Structure, Goto
    <3>2. TypeOK'
      BY <2>0, <2>4, GotoDoes DEF Prepare, TypeOK, Stage
    <3> QED BY <3>1, <3>2 DEF DashInv
  <2>5. ASSUME NEW i \in Instance, BindFails(i) PROVE DashInv'
    BY <2>0, <2>5, GotoDoes, MoveKeeps DEF BindFails, DashInv, TypeOK, Stage
  <2>6. ASSUME NEW i \in Instance, Bind(i) PROVE DashInv'
    BY <2>0, <2>6, GotoDoes, MoveKeeps DEF Bind, DashInv, TypeOK, Stage, ListenerState
  <2>7. ASSUME NEW i \in Instance, Announce(i) PROVE DashInv'
    BY <2>0, <2>7, GotoDoes, MoveKeeps DEF Announce, DashInv, TypeOK, Stage, ListenerState
  <2>8. ASSUME NEW i \in Instance, BeginShutdown(i) PROVE DashInv'
    <3>1. PICK to \in {"draining", "hanging"} : Goto(i, "serving", to)
      BY <2>8 DEF BeginShutdown
    <3> QED BY <2>0, <2>8, <3>1, GotoDoes, MoveKeeps, ClosedIs
            DEF BeginShutdown, DashInv, TypeOK, Stage
  <2>9. ASSUME NEW i \in Instance, EndShutdown(i) \/ ConnectionsClose(i) PROVE DashInv'
    BY <2>0, <2>9, GotoDoes, MoveKeeps DEF EndShutdown, ConnectionsClose, DashInv, TypeOK, Stage
  <2>10. ASSUME NEW i \in Instance, Leave(i) PROVE DashInv'
    BY <2>0, <2>10, GotoDoes, MoveKeeps DEF Leave, DashInv, TypeOK, Stage
  <2>11. ASSUME NEW l \in Instance, Serve(l) PROVE DashInv'
    <3>1. inst[l] # "none" /\ l \in Nat /\ launched \in Nat
      BY <2>0, <2>11, BoundsAssumption DEF Serve, TypeOK, Structure, Instance
    <3>2. server[runs[l]] \in Instance \cup {None}
      BY <2>0, <3>1 DEF TypeOK, Structure
    <3> QED BY <2>0, <2>11, <3>2 DEF Serve, DashInv, TypeOK, Structure, ListenerState
  <2>12. ASSUME NEW l \in Instance, ServeFails(l) PROVE DashInv'
    BY <2>0, <2>12 DEF ServeFails, DashInv, TypeOK, Structure, ListenerState
  <2>13. CASE UNCHANGED vars
    BY <2>0, <2>13 DEF vars, DashInv, TypeOK, Structure
  <2> QED
    BY <2>1, <2>2, <2>3, <2>4, <2>5, <2>6, <2>7, <2>8, <2>9, <2>10, <2>11, <2>12, <2>13
    DEF Next, Start
<1> QED BY <1>1, <1>2, PTL DEF Spec

-----------------------------------------------------------------------------
(***************************************************************************)
(* Objects whose instances never overlapped.                               *)
(***************************************************************************)
\* What IsRunning shows: an instance that leaves "serving" or "draining" for
\* good resets the flag, so the one that set it last is still there.
LEMMA RunningKept ==
  ASSUME DashInv, Backed,
         NEW i \in Instance, NEW from \in Stage \ {"none"}, NEW to \in Stage \ {"none"},
         Goto(i, from, to), runs' = runs,
         \A o \in Object : running'[o] => running[o] \/ (o = runs[i] /\ to = "serving"),
         \/ to \in Up
         \/ from \notin Up
         \/ running'[runs[i]] = FALSE
  PROVE  Backed'
BY GotoDoes DEF Backed, Up

\* An instance of such an object that moves is the only one that is not gone:
\* nothing changes for the others.
LEMMA AloneKept ==
  ASSUME DashInv, Alone,
         NEW i \in Instance, NEW from \in Stage \ {"none"}, NEW to \in Stage \ {"none"},
         Goto(i, from, to), runs' = runs, launched' = launched, overlapped' = overlapped,
         from # "done", to # "launched",
         shut \subseteq shut',
         \A o \in Object \ {runs[i]} :
           /\ o \in uptime => o \in uptime'
           /\ server'[o] = server[o] /\ running'[o] = running[o],
         \A l \in Instance \ {i} : listener[l] = "none" => listener'[l] = "none",
         runs[i] \notin overlapped =>
           /\ to \in AtWork => runs[i] \in uptime' /\ server'[runs[i]] = i
           /\ to \in Up => running'[runs[i]]
           /\ to \in {"draining", "hanging", "leaving", "done"} /\ listener'[i] # "none" =>
                i \in shut'
  PROVE  Alone'
<1> SUFFICES ASSUME NEW j \in 1 .. launched, runs[j] \notin overlapped
             PROVE  Undisturbed(j)'
  BY DEF Alone
<1>1. /\ inst[i] = from /\ inst'[i] = to /\ i \in 1 .. launched /\ runs[i] \in Object
      /\ \A k \in Instance \ {i} : inst'[k] = inst[k]
  BY GotoDoes DEF Instance, DashInv, TypeOK
<1>2. Undisturbed(j) /\ 1 .. launched \subseteq Instance /\ runs[j] \in Object
  <2>1. 1 .. launched \subseteq Instance
    BY BoundsAssumption DEF DashInv, TypeOK, Instance
  <2> QED BY <2>1 DEF Alone, DashInv, TypeOK, Structure
<1>3. CASE j = i
  BY <1>1, <1>2, <1>3 DEF Undisturbed
<1>4. CASE j # i /\ runs[j] = runs[i]
  <2>1. inst[j] = "done"
    BY <1>1, <1>2, <1>4 DEF Undisturbed
  <2> QED BY <1>1, <1>2, <1>4, <2>1 DEF Undisturbed, AtWork, Up
<1>5. CASE j # i /\ runs[j] # runs[i]
  BY <1>1, <1>2, <1>5 DEF Undisturbed
<1> QED BY <1>3, <1>4, <1>5

\* A served listener of such an object belongs to an instance that serves.
LEMMA OwnKept ==
  ASSUME DashInv, Alone, OwnServerEndsWithInstance,
         NEW i \in Instance, NEW from \in Stage \ {"none"}, NEW to \in Stage \ {"none"},
         Goto(i, from, to), runs' = runs, launched' = launched, overlapped' = overlapped,
         from # "done", servedBy' = servedBy,
         \A l \in Instance : listener'[l] = "served" => listener[l] = "served",
         \A o \in Object \ {runs[i]} : running'[o] = running[o],
         runs[i] \notin overlapped /\ from = "serving" /\ servedBy[i] = i =>
           listener'[i] # "served"
  PROVE  OwnServerEndsWithInstance'
<1> SUFFICES ASSUME NEW l \in Instance, runs[l] \notin overlapped, listener'[l] = "served",
                    servedBy[l] = l
             PROVE  inst'[l] = "serving" /\ running'[runs[l]]
  BY DEF OwnServerEndsWithInstance
<1>1. /\ inst[i] = from /\ i \in 1 .. launched /\ runs[i] \in Object
      /\ \A k \in Instance \ {i} : inst'[k] = inst[k]
  BY GotoDoes DEF Instance, DashInv, TypeOK
<1>2. listener[l] = "served" /\ inst[l] = "serving" /\ running[runs[l]]
  BY DEF OwnServerEndsWithInstance
<1>3. l \in 1 .. launched /\ runs[l] \in Object
  BY <1>2 DEF DashInv, TypeOK, Structure, Instance
<1>4. l # i
  BY <1>1, <1>2
<1>5. runs[l] # runs[i]
  BY <1>1, <1>2, <1>3, <1>4 DEF Alone, Undisturbed
<1> QED BY <1>1, <1>2, <1>3, <1>4, <1>5

\* Start keeps all three, and so do its clients.
LEMMA StartKeeps ==
  ASSUME DashInv, OwnInv, NEW i \in Instance, Start(i) \/ ConnectionsClose(i)
  PROVE  OwnInv'
<1> USE DEF threads, net
<1>0. /\ Alone /\ Backed /\ OwnServerEndsWithInstance
      /\ server \in [Object -> Instance \cup {None}] /\ running \in [Object -> BOOLEAN]
  BY DEF OwnInv, DashInv, TypeOK
<1>a. inst[i] # "none" => i \in 1 .. launched /\ runs[i] \in Object
  BY DEF DashInv, TypeOK, Structure, Instance
<1>1. CASE Prepare(i)
  <2>1. Goto(i, "launched", "prepared") /\ runs[i] \in Object
    BY <1>1, <1>a DEF Prepare, Goto
  <2> QED BY <1>0, <1>1, <2>1, RunningKept, AloneKept, OwnKept DEF Prepare, OwnInv, Stage, AtWork, Up
<1>2. CASE BindFails(i)
  <2>1. /\ Goto(i, "prepared", "leaving") /\ runs[i] \in Object
        /\ running' = [running EXCEPT ![runs[i]] = FALSE]
        /\ UNCHANGED <<launched, runs, net, server, uptime, overlapped>>
    BY <1>2, <1>a DEF BindFails, Goto
  <2>2. listener[i] = "none"
    BY <2>1 DEF DashInv, Structure, Goto
  <2>3. Backed'
    BY <1>0, <2>1, RunningKept DEF Stage, Up
  <2>4. runs[i] \notin overlapped => runs[i] \in uptime /\ server[runs[i]] = i
    BY <1>0, <1>a, <2>1 DEF Alone, Undisturbed, AtWork, Up, Goto
  <2>5. Alone'
    BY <1>0, <2>1, <2>2, <2>4, AloneKept DEF Stage, AtWork, Up
  <2>6. OwnServerEndsWithInstance'
    BY <1>0, <2>1, OwnKept DEF Stage
  <2> QED BY <2>3, <2>5, <2>6 DEF OwnInv
<1>3. CASE Bind(i)
  <2>1. /\ Goto(i, "prepared", "bound") /\ runs[i] \in Object
        /\ listener' = [listener EXCEPT ![i] = "bound"]
        /\ UNCHANGED <<launched, runs, shut, servedBy, server, running, uptime, overlapped>>
    BY <1>3, <1>a DEF Bind, Goto
  <2>2. listener \in [Instance -> ListenerState]
    BY DEF DashInv, TypeOK
  <2>3. Backed'
    BY <1>0, <2>1, RunningKept DEF Stage, Up
  <2>4. runs[i] \notin overlapped => runs[i] \in uptime /\ server[runs[i]] = i
    BY <1>0, <1>a, <2>1 DEF Alone, Undisturbed, AtWork, Up, Goto
  <2>5. Alone'
    BY <1>0, <2>1, <2>2, <2>4, AloneKept DEF Stage, AtWork, Up
  <2>6. OwnServerEndsWithInstance'
    BY <1>0, <2>1, <2>2, OwnKept DEF Stage
  <2> QED BY <2>3, <2>5, <2>6 DEF OwnInv
<1>4. CASE Announce(i)
  <2>1. /\ Goto(i, "bound", "serving") /\ runs[i] \in Object
        /\ running' = [running EXCEPT ![runs[i]] = TRUE]
        /\ listener' = [listener EXCEPT ![i] = "handed"]
        /\ UNCHANGED <<launched, runs, shut, servedBy, server, uptime, overlapped>>
    BY <1>4, <1>a DEF Announce, Goto
  <2>2. listener \in [Instance -> ListenerState]
    BY DEF DashInv, TypeOK
  <2>3. Backed'
    BY <1>0, <2>1, RunningKept DEF Stage, Up
  <2>4. runs[i] \notin overlapped => runs[i] \in uptime /\ server[runs[i]] = i
    BY <1>0, <1>a, <2>1 DEF Alone, Undisturbed, AtWork, Up, Goto
  <2>5. Alone'
    BY <1>0, <2>1, <2>2, <2>4, AloneKept DEF Stage, AtWork, Up
  <2>6. OwnServerEndsWithInstance'
    BY <1>0, <2>1, <2>2, OwnKept DEF Stage
  <2> QED BY <2>3, <2>5, <2>6 DEF OwnInv
<1>5. CASE BeginShutdown(i)
  <2>0. PICK to \in {"draining", "hanging"} : Goto(i, "serving", to)
    BY <1>5 DEF BeginShutdown
  <2>1. /\ runs[i] \in Object
        /\ shut' = shut \cup {server[runs[i]]}
        /\ listener' = Closed(server[runs[i]])
        /\ UNCHANGED <<launched, runs, servedBy, server, running, uptime, overlapped>>
    BY <1>5, <2>0, <1>a DEF BeginShutdown, Goto
  <2>2. \A l \in Instance : /\ listener'[l] = "none" <=> listener[l] = "none"
                            /\ listener'[l] \in {listener[l], "closed"}
                            /\ servedBy[l] = server[runs[i]] => listener'[l] # "served"
    BY <2>1, ClosedIs
  <2>3. Backed'
    BY <1>0, <2>0, <2>1, RunningKept DEF Stage, Up
  <2>4. runs[i] \notin overlapped =>
          runs[i] \in uptime /\ server[runs[i]] = i /\ running[runs[i]]
    BY <1>0, <1>a, <2>0, <2>1 DEF Alone, Undisturbed, AtWork, Up, Goto
  <2>5. Alone'
    BY <1>0, <2>0, <2>1, <2>2, <2>4, AloneKept DEF Stage, AtWork, Up
  <2>6. OwnServerEndsWithInstance'
    BY <1>0, <2>0, <2>1, <2>2, <2>4, OwnKept DEF Stage
  <2> QED BY <2>3, <2>5, <2>6 DEF OwnInv
<1>6. CASE EndShutdown(i)
  <2>0. PICK from \in {"draining", "hanging"} : Goto(i, from, "leaving")
    BY <1>6 DEF EndShutdown
  <2>1. /\ runs[i] \in Object
        /\ running' = [running EXCEPT ![runs[i]] = FALSE]
        /\ UNCHANGED <<launched, runs, net, server, uptime, overlapped>>
    BY <1>6, <1>a, <2>0 DEF EndShutdown, Goto
  <2>2. Backed'
    BY <1>0, <2>0, <2>1, RunningKept DEF Stage, Up
  <2>3. runs[i] \notin overlapped =>
          /\ runs[i] \in uptime /\ server[runs[i]] = i
          /\ listener[i] # "none" => i \in shut
    BY <1>0, <1>a, <2>0, <2>1 DEF Alone, Undisturbed, AtWork, Up, Goto
  <2>4. Alone'
    BY <1>0, <2>0, <2>1, <2>3, AloneKept DEF Stage, AtWork, Up
  <2>5. OwnServerEndsWithInstance'
    BY <1>0, <2>0, <2>1, OwnKept DEF Stage
  <2> QED BY <2>2, <2>4, <2>5 DEF OwnInv
<1>7. CASE Leave(i)
  <2>1. /\ Goto(i, "leaving", "done") /\ runs[i] \in Object
        /\ uptime' = uptime \ {runs[i]}
        /\ UNCHANGED <<launched, runs, net, server, running, overlapped>>
    BY <1>7, <1>a DEF Leave, Goto
  <2>2. Backed'
    BY <1>0, <2>1, RunningKept DEF Stage, Up
  <2>3. runs[i] \notin overlapped /\ listener[i] # "none" => i \in shut
    BY <1>0, <1>a, <2>1 DEF Alone, Undisturbed, Goto
  <2>4. Alone'
    BY <1>0, <2>1, <2>3, AloneKept DEF Stage, AtWork, Up
  <2>5. OwnServerEndsWithInstance'
    BY <1>0, <2>1, OwnKept DEF Stage
  <2> QED BY <2>2, <2>4, <2>5 DEF OwnInv
<1>8. CASE ConnectionsClose(i)
  <2>1. /\ Goto(i, "hanging", "draining") /\ runs[i] \in Object
        /\ UNCHANGED <<launched, runs, net, server, running, uptime, overlapped>>
    BY <1>8, <1>a DEF ConnectionsClose, Goto
  <2>2. Backed'
    BY <1>0, <2>1, RunningKept DEF Stage, Up
  <2>3. runs[i] \notin overlapped =>
          /\ runs[i] \in uptime /\ server[runs[i]] = i /\ running[runs[i]]
          /\ listener[i] # "none" => i \in shut
    BY <1>0, <1>a, <2>1 DEF Alone, Undisturbed, AtWork, Up, Goto
  <2>4. Alone'
    BY <1>0, <2>1, <2>3, AloneKept DEF Stage, AtWork, Up
  <2>5. OwnServerEndsWithInstance'
    BY <1>0, <2>1, OwnKept DEF Stage
  <2> QED BY <2>2, <2>4, <2>5 DEF OwnInv
<1> QED BY <1>1, <1>2, <1>3, <1>4, <1>5, <1>6, <1>7, <1>8 DEF Start

THEOREM OwnInvariant == Spec => []OwnInv
<1>1. Init => OwnInv
  BY DEF Init, OwnInv, Alone, Backed, OwnServerEndsWithInstance
<1>2. DashInv /\ OwnInv /\ [Next]_vars => OwnInv'
  <2> SUFFICES ASSUME DashInv, OwnInv, [Next]_vars PROVE OwnInv'
    OBVIOUS
  <2> USE DEF threads, net
  <2>1. CASE Initialize
    BY <2>1 DEF Initialize, OwnInv, Alone, Undisturbed, Backed,
                OwnServerEndsWithInstance
  <2>2. CASE Stop
    BY <2>2 DEF Stop, OwnInv, Alone, Undisturbed, Backed, OwnServerEndsWithInstance
  <2>3. CASE Launch
    <3> DEFINE new == launched + 1
    <3>1. /\ new \in Instance /\ object \in Object /\ 1 .. launched \subseteq Instance
          /\ 1 .. launched' = 1 .. launched \cup {new} /\ new \notin 1 .. launched
          /\ inst[new] = "none" /\ listener[new] = "none"
      BY <2>3, BoundsAssumption DEF Launch, DashInv, TypeOK, Structure, Instance
    <3>2. /\ runs'[new] = object /\ inst'[new] = "launched"
          /\ \A i \in Instance \ {new} : runs'[i] = runs[i] /\ inst'[i] = inst[i]
          /\ UNCHANGED <<shut, listener, servedBy, server, running, uptime>>
          /\ overlapped \subseteq overlapped'
          /\ object \notin overlapped' =>
               \A i \in Instance : runs[i] = object => inst[i] = "done"
      BY <2>3, <3>1 DEF Launch, DashInv, TypeOK
    <3>3. Alone'
      <4> SUFFICES ASSUME NEW i \in 1 .. launched', runs'[i] \notin overlapped'
                   PROVE  Undisturbed(i)'
        BY DEF Alone
      <4>1. CASE i = new
        BY <3>1, <3>2, <4>1 DEF Undisturbed, AtWork, Up
      <4>2. CASE i \in 1 .. launched
        <5>1. Undisturbed(i) /\ inst'[i] = inst[i] /\ runs'[i] = runs[i]
          BY <3>1, <3>2, <4>2 DEF OwnInv, Alone
        <5>2. \A j \in 1 .. launched' :
                j # i /\ runs'[j] = runs'[i] => inst'[i] = "done" \/ inst'[j] = "done"
          BY <3>1, <3>2, <4>2, <5>1 DEF Undisturbed
        <5> QED BY <3>2, <5>1, <5>2 DEF Undisturbed
      <4> QED BY <3>1, <4>1, <4>2
    <3>4. Backed'
      <4> SUFFICES ASSUME NEW o \in Object, running[o]
                   PROVE  \E i \in Instance : runs'[i] = o /\ inst'[i] \in Up
        BY <3>2 DEF Backed
      <4>1. PICK i \in Instance : runs[i] = o /\ inst[i] \in Up
        BY DEF OwnInv, Backed
      <4>2. i # new
        BY <3>1, <4>1 DEF Up
      <4> QED BY <3>2, <4>1, <4>2
    <3>5. OwnServerEndsWithInstance'
      BY <3>1, <3>2 DEF OwnInv, OwnServerEndsWithInstance
    <3> QED BY <3>3, <3>4, <3>5 DEF OwnInv
  <2>4. ASSUME NEW i \in Instance, Start(i) \/ ConnectionsClose(i) PROVE OwnInv'
    BY <2>4, StartKeeps
  <2>5. ASSUME NEW l \in Instance, Serve(l) \/ ServeFails(l) PROVE OwnInv'
    <3>1. /\ listener[l] # "none"
          /\ UNCHANGED <<threads, shut, server, running, uptime, overlapped>>
          /\ \A i \in Instance \ {l} : listener'[i] = listener[i] /\ servedBy'[i] = servedBy[i]
      BY <2>5 DEF Serve, ServeFails, DashInv, TypeOK
    <3>2. Alone' /\ Backed'
      <4>1. \A i \in Instance : listener'[i] # "none" => listener[i] # "none"
        BY <3>1
      <4>2. 1 .. launched \subseteq Instance
        BY BoundsAssumption DEF DashInv, TypeOK, Instance
      <4> QED BY <3>1, <4>1, <4>2 DEF OwnInv, Alone, Undisturbed, Backed
    <3>3. ASSUME runs[l] \notin overlapped, listener'[l] = "served", servedBy'[l] = l
          PROVE  inst[l] = "serving" /\ running[runs[l]]
      <4>1. /\ Serve(l) /\ listener[l] = "handed" /\ l = server[runs[l]] /\ l \notin shut
        BY <2>5, <3>3 DEF Serve, ServeFails, DashInv, TypeOK
      <4>2. inst[l] \notin {"none", "launched", "prepared", "bound"} /\ l \in 1 .. launched
        BY <4>1 DEF DashInv, Structure, TypeOK, Instance
      <4>3. Undisturbed(l)
        BY <3>3, <4>2 DEF OwnInv, Alone
      <4> QED BY <4>1, <4>2, <4>3 DEF Undisturbed, DashInv, TypeOK, Stage, Up
    <3>4. OwnServerEndsWithInstance'
      BY <3>1, <3>3 DEF OwnInv, OwnServerEndsWithInstance
    <3> QED BY <3>2, <3>4 DEF OwnInv
  <2>6. CASE UNCHANGED vars
    BY <2>6 DEF vars, OwnInv, Alone, Undisturbed, Backed, OwnServerEndsWithInstance
  <2> QED BY <2>1, <2>2, <2>3, <2>4, <2>5, <2>6 DEF Next
<1> QED BY <1>1, <1>2, DashInvariant, PTL DEF Spec

-----------------------------------------------------------------------------
(***************************************************************************)
(* The properties of DashboardServer.                                      *)
(***************************************************************************)
\* Objects, instances, servers and listeners keep their types.
THEOREM TypeCorrect == Spec => []TypeOK
<1>1. DashInv => TypeOK
  BY DEF DashInv
<1> QED BY <1>1, DashInvariant, PTL

\* IsRunning never reports a server whose goroutine is gone, and without
\* overlapping instances it reports every one that is up.
THEOREM RunningIsTruthful == Spec => []RunningHasInstance
<1>1. DashInv /\ OwnInv => RunningHasInstance
  <2> SUFFICES ASSUME DashInv, OwnInv, NEW o \in Object
               PROVE  LET up == \E i \in Instance : runs[i] = o /\ inst[i] \in Up
                      IN  (running[o] => up) /\ (o \notin overlapped => running[o] = up)
    BY DEF RunningHasInstance
  <2>1. running[o] => \E i \in Instance : runs[i] = o /\ inst[i] \in Up
    BY DEF OwnInv, Backed
  <2>2. ASSUME o \notin overlapped, NEW i \in Instance, runs[i] = o, inst[i] \in Up
        PROVE  running[o]
    <3>1. i \in 1 .. launched
      BY <2>2 DEF DashInv, TypeOK, Structure, Instance, Up
    <3> QED BY <2>2, <3>1 DEF OwnInv, Alone, Undisturbed
  <2>3. running[o] \in BOOLEAN
    BY DEF DashInv, TypeOK
  <2> QED BY <2>1, <2>2, <2>3
<1> QED BY <1>1, DashInvariant, OwnInvariant, PTL

\* Without overlapping instances a running dashboard knows its start time.
THEOREM RunningHasUptime == Spec => []UptimeWhileRunning
<1>1. DashInv /\ OwnInv => UptimeWhileRunning
  <2> SUFFICES ASSUME DashInv, OwnInv, NEW o \in Object \ overlapped, running[o]
               PROVE  o \in uptime
    BY DEF UptimeWhileRunning
  <2>1. PICK i \in Instance : runs[i] = o /\ inst[i] \in Up
    BY DEF OwnInv, Backed
  <2>2. i \in 1 .. launched
    BY <2>1 DEF DashInv, TypeOK, Structure, Instance, Up
  <2> QED BY <2>1, <2>2 DEF OwnInv, Alone, Undisturbed, AtWork
<1> QED BY <1>1, DashInvariant, OwnInvariant, PTL

\* Without overlapping instances a listener on its own server is served only
\* while its instance is.
THEOREM OwnServerEnds == Spec => []OwnServerEndsWithInstance
<1>1. OwnInv => OwnServerEndsWithInstance
  BY DEF OwnInv
<1> QED BY <1>1, OwnInvariant, PTL
=============================================================================
