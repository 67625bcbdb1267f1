------------------------ MODULE HTTPMiddleware_proofs ------------------------
(***************************************************************************)
(* Proofs about HTTPMiddleware, for any requests, codes and lengths of a   *)
(* handler. The invariant relates the recorder to net/http while the       *)
(* handler runs, and the core to net/http from its return to the exit.     *)
(***************************************************************************)
EXTENDS HTTPMiddleware, TLAPS

\* Before its handler returns, a request has sent a status exactly if the
\* recorder has noticed one, and then it is the recorder's.
Recording ==
  \A r \in Request \ informed :
    /\ at[r] \in {"new", "handler"} => (sent[r] = None <=> ~wroteHeader[r])
    /\ at[r] # "done" /\ sent[r] = None => status[r] = OK /\ ~wroteHeader[r]
    /\ at[r] # "done" /\ sent[r] # None => status[r] = sent[r]

\* Between the return of a handler and the exit the core catches up.
Reporting ==
  \A r \in Request \ informed :
    /\ at[r] \in {"new", "handler", "report", "unwinding"} => r \notin traced
    /\ at[r] = "report" => sent[r] >= InternalServerError
    /\ at[r] = "exit" => (r \in traced <=> sent[r] >= InternalServerError)

\* An entry is open from the admission to the exit.
Opened == \A r \in Request : r \in open <=> at[r] \in {"handler", "report", "exit", "unwinding"}

HTTPInv == TypeOK /\ Opened /\ Recording /\ Reporting

-----------------------------------------------------------------------------
\* What net/http does with a code does not leave the types, and fixes the
\* status once.
LEMMA SendTyped ==
  ASSUME TypeOK, NEW r \in Request, NEW code \in Code \cup {OK, TooManyRequests}, Send(r, code)
  PROVE  /\ sent' \in [Request -> Code \cup {None, OK, TooManyRequests}]
         /\ informed \subseteq informed' /\ informed' \subseteq informed \cup {r}
         /\ \A q \in Request \ {r} : sent'[q] = sent[q]
         /\ r \notin informed' /\ sent[r] = None => sent'[r] = code
         /\ sent[r] # None => sent'[r] = sent[r]
BY DEF TypeOK, Send

\* Types, entries, the recorder and the core, in every step.
THEOREM HTTPInvariant == Spec => []HTTPInv
<1> USE DEF OK, None, TooManyRequests, InternalServerError
<1>1. Init => HTTPInv
  <2> SUFFICES ASSUME Init PROVE HTTPInv
    OBVIOUS
  <2>1. TypeOK
    BY BoundsAssumption DEF Init, TypeOK
  <2>2. Opened /\ Recording /\ Reporting
    BY DEF Init, Opened, Recording, Reporting
  <2> QED BY <2>1, <2>2 DEF HTTPInv
<1>2. HTTPInv /\ [Next]_vars => HTTPInv'
  <2> SUFFICES ASSUME HTTPInv, [Next]_vars PROVE HTTPInv'
    OBVIOUS
  <2> USE DEF HTTPInv
  <2>1. ASSUME NEW r \in Request, Blocked(r) PROVE HTTPInv'
    <3>1. Send(r, TooManyRequests) /\ at' = [at EXCEPT ![r] = "done"] /\ at[r] = "new"
      BY <2>1 DEF Blocked, Goto
    <3>2. UNCHANGED <<calls, status, wroteHeader, open, traced>>
      BY <2>1 DEF Blocked, recorder, core
    <3>3. TypeOK'
      BY <3>1, <3>2, SendTyped DEF TypeOK
    <3>4. Opened' /\ Recording' /\ Reporting'
      BY <3>1, <3>2, SendTyped DEF TypeOK, Opened, Recording, Reporting
    <3> QED BY <3>3, <3>4
  <2>2. ASSUME NEW r \in Request, Admitted(r) PROVE HTTPInv'
    BY <2>2 DEF Admitted, Goto, recorder, TypeOK, Opened, Recording, Reporting
  <2>3. ASSUME NEW r \in Request, WriteHeader(r) PROVE HTTPInv'
    <3>1. PICK code \in Code :
            /\ status' = [status EXCEPT ![r] = IF wroteHeader[r] THEN @ ELSE code]
            /\ wroteHeader' = [wroteHeader EXCEPT ![r] = TRUE]
            /\ Send(r, code)
      BY <2>3 DEF WriteHeader
    <3>2. /\ at[r] = "handler" /\ calls[r] < MaxCalls /\ calls' = [calls EXCEPT ![r] = @ + 1]
          /\ UNCHANGED <<at, open, traced>>
      BY <2>3 DEF WriteHeader, UseWriter, core
    <3>3. TypeOK'
      BY <3>1, <3>2, SendTyped, BoundsAssumption DEF TypeOK
    <3>4. code # None
      BY CodeAssumption
    <3>5. Recording'
      BY <3>1, <3>2, <3>4, SendTyped DEF TypeOK, Recording
    <3>6. Opened' /\ Reporting'
      BY <3>1, <3>2, SendTyped DEF TypeOK, Opened, Reporting
    <3> QED BY <3>3, <3>5, <3>6
  <2>4. ASSUME NEW r \in Request, Write(r) PROVE HTTPInv'
    <3>1. /\ wroteHeader' = [wroteHeader EXCEPT ![r] = TRUE]
          /\ Send(r, OK)
          /\ at[r] = "handler" /\ calls[r] < MaxCalls /\ calls' = [calls EXCEPT ![r] = @ + 1]
          /\ UNCHANGED <<at, status, open, traced>>
      BY <2>4 DEF Write, UseWriter, core
    <3>2. TypeOK'
      BY <3>1, SendTyped, BoundsAssumption DEF TypeOK
    <3>3. Recording'
      BY <3>1, SendTyped DEF TypeOK, Recording
    <3>4. Opened' /\ Reporting'
      BY <3>1, SendTyped DEF TypeOK, Opened, Reporting
    <3> QED BY <3>2, <3>3, <3>4
  <2>5. ASSUME NEW r \in Request, Returns(r) PROVE HTTPInv'
    <3>1. /\ at[r] = "handler" /\ Send(r, OK)
          /\ at' = [at EXCEPT ![r] = IF status[r] >= InternalServerError
                                       THEN "report" ELSE "exit"]
          /\ UNCHANGED <<calls, status, wroteHeader, open, traced>>
      BY <2>5 DEF Returns, Goto, recorder, core
    <3>2. TypeOK'
      BY <3>1, SendTyped DEF TypeOK
    <3>3. Recording'
      BY <3>1, SendTyped DEF TypeOK, Recording
    <3>4. r \notin informed' => sent'[r] = status[r]
      BY <3>1, SendTyped DEF TypeOK, Recording
    <3>5. Opened' /\ Reporting'
      BY <3>1, <3>4, SendTyped DEF TypeOK, Opened, Reporting
    <3> QED BY <3>2, <3>3, <3>5
  <2>6. ASSUME NEW r \in Request, Panics(r) PROVE HTTPInv'
    BY <2>6 DEF Panics, Goto, recorder, core, TypeOK, Opened, Recording, Reporting
  <2>7. ASSUME NEW r \in Request, TraceError(r) PROVE HTTPInv'
    BY <2>7 DEF TraceError, Goto, recorder, TypeOK, Opened, Recording, Reporting
  <2>8. ASSUME NEW r \in Request, Exit(r) PROVE HTTPInv'
    BY <2>8 DEF Exit, Goto, recorder, TypeOK, Opened, Recording, Reporting
  <2>9. CASE UNCHANGED vars
    BY <2>9 DEF vars, recorder, core, TypeOK, Opened, Recording, Reporting
  <2> QED BY <2>1, <2>2, <2>3, <2>4, <2>5, <2>6, <2>7, <2>8, <2>9 DEF Next
<1> QED BY <1>1, <1>2, PTL DEF Spec

-----------------------------------------------------------------------------
\* Every variable keeps its type; in particular an error is reported only for
\* an entry that is still open.
THEOREM TypeCorrect == Spec => []TypeOK
BY HTTPInvariant, PTL DEF HTTPInv

\* The status recorder has what net/http sent, for handlers of any length.
THEOREM RecorderIsRight == Spec => []RecordedIsSent
<1>1. HTTPInv => RecordedIsSent
  BY DEF HTTPInv, Recording, RecordedIsSent
<1> QED BY <1>1, HTTPInvariant, PTL

\* At the exit of an entry the core was told exactly of the errors sent.
THEOREM ReportsAreRight == Spec => ReportedIsSent
<1>1. HTTPInv /\ [Next]_vars =>
        [\A r \in (open \ open') \ informed :
           at[r] = "exit" => (r \in traced <=> sent[r] >= InternalServerError)]_vars
  BY DEF HTTPInv, TypeOK, Reporting
<1> QED BY <1>1, HTTPInvariant, PTL DEF Spec, ReportedIsSent
=============================================================================
