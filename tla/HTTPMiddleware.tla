--------------------------- MODULE HTTPMiddleware ---------------------------
(***************************************************************************)
(* CreateHTTPMiddleware and the statusRecorder it puts between a handler   *)
(* and net/http (middleware.go): what the handler sends, what the recorder *)
(* takes it to have sent, and what the core is told. Requests share the    *)
(* core only; what they count is in RequestPath.                           *)
(*                                                                         *)
(* Of net/http: a WriteHeader with an informational code (1xx, but not     *)
(* 101) sends it and leaves the response open; the first other code, or    *)
(* the first Write (200), fixes the status; later codes are ignored; a     *)
(* handler that returns without either has sent 200.                       *)
(***************************************************************************)
EXTENDS Integers

CONSTANTS
  Request,
  Code,         \* Status codes handlers use.
  MaxCalls      \* Bound on a handler's calls of its ResponseWriter.

ASSUME CodeAssumption == Code \subseteq 100 .. 599
ASSUME BoundsAssumption == MaxCalls \in Nat

OK == 200
TooManyRequests == 429
InternalServerError == 500
None == 0

VARIABLES
  at,               \* Where each request is.
  calls,            \* How often its handler has used the ResponseWriter.
  status, wroteHeader,  \* Its statusRecorder.
  sent,             \* The status net/http has sent, or None.
  informed,         \* History: an informational code was sent.
  open, traced      \* The core: entries not exited; those with an error.

recorder == <<status, wroteHeader>>
core == <<open, traced>>
vars == <<at, calls, recorder, sent, informed, core>>

TypeOK ==
  /\ at \in [Request -> {"new", "handler", "report", "exit", "unwinding", "done"}]
  /\ calls \in [Request -> 0 .. MaxCalls]
  /\ status \in [Request -> Code \cup {OK}]
  /\ wroteHeader \in [Request -> BOOLEAN]
  /\ sent \in [Request -> Code \cup {None, OK, TooManyRequests}]
  /\ informed \subseteq Request
  /\ open \subseteq Request /\ traced \subseteq open

Init ==
  /\ at = [r \in Request |-> "new"]
  /\ calls = [r \in Request |-> 0]
  /\ status = [r \in Request |-> OK]
  /\ wroteHeader = [r \in Request |-> FALSE]
  /\ sent = [r \in Request |-> None]
  /\ informed = {} /\ open = {} /\ traced = {}

Goto(r, from, to) == at[r] = from /\ at' = [at EXCEPT ![r] = to]

Informational(code) == code < 200 /\ code # 101

\* net/http, given a code or a first Write.
Send(r, code) ==
  IF Informational(code)
    THEN /\ informed' = IF sent[r] = None THEN informed \cup {r} ELSE informed
         /\ UNCHANGED sent
    ELSE /\ sent' = [sent EXCEPT ![r] = IF @ = None THEN code ELSE @]
         /\ UNCHANGED informed

-----------------------------------------------------------------------------
\* s.Entry refuses: http.Error, and the handler is not called.
Blocked(r) ==
  /\ Goto(r, "new", "done")
  /\ Send(r, TooManyRequests)
  /\ UNCHANGED <<calls, recorder, core>>

Admitted(r) ==
  /\ Goto(r, "new", "handler")
  /\ open' = open \cup {r}
  /\ UNCHANGED <<calls, recorder, sent, informed, traced>>

UseWriter(r) ==
  /\ at[r] = "handler"
  /\ calls[r] < MaxCalls /\ calls' = [calls EXCEPT ![r] = @ + 1]

\* statusRecorder.WriteHeader
WriteHeader(r) ==
  /\ UseWriter(r)
  /\ \E code \in Code :
       /\ status' = [status EXCEPT ![r] = IF wroteHeader[r] THEN @ ELSE code]
       /\ wroteHeader' = [wroteHeader EXCEPT ![r] = TRUE]
       /\ Send(r, code)
  /\ UNCHANGED <<at, core>>

\* Faulty: the implicit header is not noticed.
WriteUnnoticed(r) ==
  /\ UseWriter(r)
  /\ Send(r, OK)
  /\ UNCHANGED <<at, recorder, core>>

\* statusRecorder.Write
Write(r) ==
  /\ UseWriter(r)
  /\ wroteHeader' = [wroteHeader EXCEPT ![r] = TRUE]
  /\ Send(r, OK)
  /\ UNCHANGED <<at, status, core>>

\* Faulty: off by one.
ReturnsAbove(r) ==
  /\ Goto(r, "handler", IF status[r] > InternalServerError THEN "report" ELSE "exit")
  /\ Send(r, OK)
  /\ UNCHANGED <<calls, recorder, core>>

\* next.ServeHTTP returns; net/http sends 200 if nothing was sent.
Returns(r) ==
  /\ Goto(r, "handler", IF status[r] >= InternalServerError THEN "report" ELSE "exit")
  /\ Send(r, OK)
  /\ UNCHANGED <<calls, recorder, core>>

\* Only the deferred Exit runs.
Panics(r) ==
  /\ Goto(r, "handler", "unwinding")
  /\ UNCHANGED <<calls, recorder, sent, informed, core>>

TraceError(r) ==
  /\ Goto(r, "report", "exit")
  /\ traced' = traced \cup {r}
  /\ UNCHANGED <<calls, recorder, sent, informed, open>>

Exit(r) ==
  /\ Goto(r, "exit", "done") \/ Goto(r, "unwinding", "done")
  /\ open' = open \ {r} /\ traced' = traced \ {r}
  /\ UNCHANGED <<calls, recorder, sent, informed>>

Next ==
  \E r \in Request :
    \/ Blocked(r) \/ Admitted(r)
    \/ WriteHeader(r) \/ Write(r) \/ Returns(r) \/ Panics(r)
    \/ TraceError(r) \/ Exit(r)

Spec == Init /\ [][Next]_vars

-----------------------------------------------------------------------------
\* What the recorder has is what net/http sent, in whatever order the handler
\* writes headers and body, and however often, unless it began with an
\* informational code.
RecordedIsSent ==
  \A r \in Request \ informed :
    at[r] # "done" =>
      /\ sent[r] = None => status[r] = OK /\ ~wroteHeader[r]
      /\ sent[r] # None => status[r] = sent[r]

\* When an entry is exited after its handler has returned, the core has been
\* told of an error exactly if the client has: once, and never for a response
\* below 500, informational codes aside.
ReportedIsSent ==
  [][\A r \in (open \ open') \ informed :
       at[r] = "exit" => (r \in traced <=> sent[r] >= InternalServerError)]_vars
=============================================================================
