------------------------------- MODULE Gateway -------------------------------
(***************************************************************************)
(* The control path of one gateway process (gateway/app.py): POST          *)
(* /v1/infer and POST /v1/completions, from admission to the audit event.  *)
(* Handlers run concurrently in a thread pool; what they share are the two *)
(* limiters, the denial budget, the metrics registry, the audit log and    *)
(* the trace exporter.  A step of this module is what a handler does       *)
(* between two accesses to what is shared.                                 *)
(*                                                                         *)
(* The limiters answer as WindowBudget says: this is the gateway on Redis, *)
(* or on limiters in memory while no two threads race to open a window.    *)
(* A window is the set of the requests charged to it, and ends at any      *)
(* moment.  MemoryLimiter and RedisLimiter have the windows in detail.     *)
(***************************************************************************)
EXTENDS Integers, Sequences, FiniteSetsExt

CONSTANTS
  Requests,
  Calls,           \* what a request may ask for
  Principals, Nobody,
  Models, UnknownModel,
  Grants,          \* the (principal, model) pairs whose roles meet
  ReasonRequired,  \* the models that want a reason for access
  RateLimit,       \* requests_per_minute of a model
  TokenLimit,      \* input_tokens_per_minute of a model
  DenialLimit,     \* anonymous denials audited in one window
  Faults,          \* what may go wrong around the handlers
  SharedLimiter,   \* the limiters are kept in Redis
  MaxCrashes       \* bound: restarts of the process

Routes == {"infer", "completions", "stream"}

Call == [route : Routes, caller : Principals \cup {Nobody},
         model : Models \cup {UnknownModel}, tokens : Nat \ {0}, reason : BOOLEAN]

ASSUME GatewayAssumption ==
  /\ IsFiniteSet(Requests)
  /\ Calls \subseteq Call
  /\ Nobody \notin Principals
  /\ UnknownModel \notin Models
  /\ Grants \subseteq Principals \X Models
  /\ ReasonRequired \subseteq Models
  /\ RateLimit \in [Models -> Nat \ {0}]
  /\ TokenLimit \in [Models -> Nat \ {0}]
  /\ DenialLimit \in Nat
  /\ Faults \subseteq {"limiter", "malformed", "audit", "trace", "crash"}
  /\ SharedLimiter \in BOOLEAN
  /\ MaxCrashes \in Nat

VARIABLES
  pc,           \* where each request's handler is
  request,      \* what each request asks for
  outcome,      \* the outcome its handler has come to
  status,       \* what the client was told, once its handler is done
  rateTaken,    \* requests charged to the open request window of a key
  tokenTaken,   \* requests charged to the open token window of a key
  denialTaken,  \* requests charged to the open window of the denial budget
  counted,      \* requests in security_gateway_requests_total
  suppressed,   \* security_gateway_audit_suppressed_total
  auditLog,     \* the audit events of each request
  spans,        \* the trace spans of each request
  crashes

handlers == <<pc, request, outcome, status>>
budgets == <<rateTaken, tokenTaken, denialTaken>>
telemetry == <<counted, suppressed>>
files == <<auditLog, spans>>
vars == <<handlers, budgets, telemetry, files, crashes>>

Keys == Principals \X Models

Key(r) == <<request[r].caller, request[r].model>>

Anonymous(r) == request[r].caller = Nobody

DeniedOutcomes == {"policy_denied", "rate_limited", "token_budget_limited"}

Outcomes == DeniedOutcomes \cup {"backend_error", "allowed"}

Locations == {"new", "authorize", "rate", "tokens", "backend", "stream",
              "count", "gate", "audit", "trace", "reply", "done"}

(* A "cut" answer is a stream that broke off after its 200.                *)
Answers == {"200", "403", "429", "502", "cut"}

(* The client of a "failed" request saw an internal error, the client of a *)
(* "gone" one had left before the first byte of its body, and a "lost"     *)
(* request was in the process when it stopped.                             *)
Statuses == {"none", "streaming", "failed", "gone", "lost"} \cup Answers

(* The audit event's fields that the decision determines.                  *)
Event(r) == [allowed |-> outcome[r] \notin DeniedOutcomes, outcome |-> outcome[r]]

NoRequest == [route |-> "infer", caller |-> Nobody, model |-> UnknownModel,
              tokens |-> 1, reason |-> FALSE]

Init ==
  /\ pc = [r \in Requests |-> "new"]
  /\ request = [r \in Requests |-> NoRequest]
  /\ outcome = [r \in Requests |-> "none"]
  /\ status = [r \in Requests |-> "none"]
  /\ rateTaken = [k \in Keys |-> {}]
  /\ tokenTaken = [k \in Keys |-> {}]
  /\ denialTaken = {}
  /\ counted = {}
  /\ suppressed = 0
  /\ auditLog = [r \in Requests |-> <<>>]
  /\ spans = [r \in Requests |-> <<>>]
  /\ crashes = 0

-----------------------------------------------------------------------------
Goto(r, from, to) ==
  /\ pc[r] = from
  /\ pc' = [pc EXCEPT ![r] = to]

Decide(r, o) == outcome' = [outcome EXCEPT ![r] = o]

Settle(r, s) == status' = [status EXCEPT ![r] = s]

Arrive(r) ==
  /\ Goto(r, "new", "authorize")
  /\ \E c \in Calls : request' = [request EXCEPT ![r] = c]
  /\ UNCHANGED <<outcome, status, budgets, telemetry, files, crashes>>

(* evaluate_policy: an unknown caller and an unknown model are refused     *)
(* first, then a missing role or a missing reason.                         *)
PolicyAllows(c) ==
  /\ c.caller # Nobody
  /\ c.model # UnknownModel
  /\ <<c.caller, c.model>> \in Grants
  /\ c.model \in ReasonRequired => c.reason

(* Mutant: a policy denial is left out of the counters.                    *)
AuthorizeUncounted(r) ==
  /\ \/ Goto(r, "authorize", "rate") /\ PolicyAllows(request[r]) /\ UNCHANGED outcome
     \/ Goto(r, "authorize", "gate") /\ ~ PolicyAllows(request[r]) /\ Decide(r, "policy_denied")
  /\ UNCHANGED <<request, status, budgets, telemetry, files, crashes>>

Authorize(r) ==
  /\ \/ Goto(r, "authorize", "rate") /\ PolicyAllows(request[r]) /\ UNCHANGED outcome
     \/ Goto(r, "authorize", "count") /\ ~ PolicyAllows(request[r]) /\ Decide(r, "policy_denied")
  /\ UNCHANGED <<request, status, budgets, telemetry, files, crashes>>

RequestFits(r) == Cardinality(rateTaken[Key(r)]) < RateLimit[request[r].model]

ChargeRequest(r) == rateTaken' = [rateTaken EXCEPT ![Key(r)] = @ \cup {r}]

TakeRequest(r) ==
  /\ \/ Goto(r, "rate", "tokens") /\ RequestFits(r) /\ ChargeRequest(r) /\ UNCHANGED outcome
     \/ Goto(r, "rate", "count") /\ ~ RequestFits(r) /\ Decide(r, "rate_limited")
                                /\ UNCHANGED rateTaken
  /\ UNCHANGED <<request, status, tokenTaken, denialTaken, telemetry, files, crashes>>

TokensIn(S) == SumFunctionOnSet([q \in Requests |-> request[q].tokens], S)

TokensFit(r) ==
  TokensIn(tokenTaken[Key(r)]) + request[r].tokens <= TokenLimit[request[r].model]

ChargeTokens(r) == tokenTaken' = [tokenTaken EXCEPT ![Key(r)] = @ \cup {r}]

(* Mutant: the tokens are charged before they are compared.                *)
TakeTokensFirst(r) ==
  /\ \/ Goto(r, "tokens", "backend") /\ TokensFit(r) /\ UNCHANGED outcome
     \/ Goto(r, "tokens", "count") /\ ~ TokensFit(r) /\ Decide(r, "token_budget_limited")
  /\ ChargeTokens(r)
  /\ UNCHANGED <<request, status, rateTaken, denialTaken, telemetry, files, crashes>>

TakeTokens(r) ==
  /\ \/ Goto(r, "tokens", "backend") /\ TokensFit(r) /\ ChargeTokens(r) /\ UNCHANGED outcome
     \/ Goto(r, "tokens", "count") /\ ~ TokensFit(r) /\ Decide(r, "token_budget_limited")
                                  /\ UNCHANGED tokenTaken
  /\ UNCHANGED <<request, status, rateTaken, denialTaken, telemetry, files, crashes>>

(* Mutant: a handler whose limiter fails goes on without it.               *)
LimiterFailsOpen(r) ==
  /\ "limiter" \in Faults
  /\ SharedLimiter
  /\ Goto(r, "rate", "tokens") \/ Goto(r, "tokens", "backend")
  /\ UNCHANGED <<request, outcome, status, budgets, telemetry, files, crashes>>

(* Redis fails, before or after it has run the script: allow() raises, the *)
(* handler does not catch it, and nothing is recorded.                     *)
LimiterRaises(r) ==
  /\ "limiter" \in Faults
  /\ SharedLimiter
  /\ \/ /\ Goto(r, "rate", "done")
        /\ (RequestFits(r) /\ ChargeRequest(r)) \/ UNCHANGED rateTaken
        /\ UNCHANGED tokenTaken
     \/ /\ Goto(r, "tokens", "done")
        /\ (TokensFit(r) /\ ChargeTokens(r)) \/ UNCHANGED tokenTaken
        /\ UNCHANGED rateTaken
  /\ Settle(r, "failed")
  /\ UNCHANGED <<request, outcome, denialTaken, telemetry, files, crashes>>

(* The backend answers, fails, or does not answer in time.  A completion   *)
(* that streams has only its response headers by then.                     *)
CallBackend(r) ==
  /\ \/ /\ request[r].route # "stream"
        /\ Goto(r, "backend", "count")
        /\ Decide(r, "allowed")
        /\ UNCHANGED status
     \/ /\ request[r].route = "stream"
        /\ Goto(r, "backend", "stream")
        /\ Settle(r, "streaming")
        /\ UNCHANGED outcome
     \/ /\ Goto(r, "backend", "count")
        /\ Decide(r, "backend_error")
        /\ UNCHANGED status
  /\ UNCHANGED <<request, budgets, telemetry, files, crashes>>

(* /v1/infer: http.client raises HTTPException for a body shorter than its *)
(* announced length; nothing between urlopen and the client catches it.    *)
(* (A completion that is cut short is an HTTPError of httpx, and caught.)  *)
BackendMalformed(r) ==
  /\ "malformed" \in Faults
  /\ request[r].route = "infer"
  /\ Goto(r, "backend", "done")
  /\ Settle(r, "failed")
  /\ UNCHANGED <<request, outcome, budgets, telemetry, files, crashes>>

(* iter_completion_response ends: the body is complete, the backend        *)
(* breaks off, or the client leaves.                                       *)
EndStream(r) ==
  /\ Goto(r, "stream", "count")
  /\ \E o \in {"allowed", "backend_error"} : Decide(r, o)
  /\ UNCHANGED <<request, status, budgets, telemetry, files, crashes>>

(* The client left before the generator was first advanced: Python never   *)
(* runs the finally clause of a generator that was not started.            *)
StreamNeverStarts(r) ==
  /\ Goto(r, "stream", "done")
  /\ Settle(r, "gone")
  /\ UNCHANGED <<request, outcome, budgets, telemetry, files, crashes>>

(* Mutants: denials are never written; a span is exported and no event.    *)
AfterCountUngated(r) == IF outcome[r] \in DeniedOutcomes THEN "reply" ELSE "audit"

AfterCountUnaudited(r) == IF outcome[r] \in DeniedOutcomes THEN "gate" ELSE "trace"

AfterCount(r) == IF outcome[r] \in DeniedOutcomes THEN "gate" ELSE "audit"

(* metrics.record_request, record_input_tokens and observe_latency.        *)
Count(r) ==
  /\ Goto(r, "count", AfterCount(r))
  /\ counted' = counted \cup {r}
  /\ UNCHANGED <<request, outcome, status, budgets, suppressed, files, crashes>>

(* Mutants: authenticated denials draw on the budget too; the budget ends  *)
(* one denial early.                                                       *)
AnyDenialDraws(r) == TRUE

DrawsOnBudget(r) == Anonymous(r)

DenialFitsBarely == Cardinality(denialTaken) + 1 < DenialLimit

DenialFits == Cardinality(denialTaken) < DenialLimit

(* denial_is_recorded: an authenticated denial always is; an anonymous one *)
(* while the denial budget lasts, after that it is only counted.  Budget   *)
(* and counter have a lock each; nothing here reads one of them between.   *)
Gate(r) ==
  /\ \/ /\ ~ DrawsOnBudget(r)
        /\ Goto(r, "gate", "audit")
        /\ UNCHANGED <<denialTaken, suppressed>>
     \/ /\ DrawsOnBudget(r)
        /\ DenialFits
        /\ Goto(r, "gate", "audit")
        /\ denialTaken' = denialTaken \cup {r}
        /\ UNCHANGED suppressed
     \/ /\ DrawsOnBudget(r)
        /\ ~ DenialFits
        /\ Goto(r, "gate", "reply")
        /\ suppressed' = suppressed + 1
        /\ UNCHANGED denialTaken
  /\ UNCHANGED <<request, outcome, status, rateTaken, tokenTaken, counted, files, crashes>>

Audit(r) ==
  /\ Goto(r, "audit", "trace")
  /\ auditLog' = [auditLog EXCEPT ![r] = Append(@, Event(r))]
  /\ UNCHANGED <<request, outcome, status, budgets, telemetry, spans, crashes>>

ExportSpan(r) ==
  /\ Goto(r, "trace", "reply")
  /\ spans' = [spans EXCEPT ![r] = Append(@, outcome[r])]
  /\ UNCHANGED <<request, outcome, status, budgets, telemetry, auditLog, crashes>>

(* The audit file cannot be written (JsonlAuditSink.write raises), or the  *)
(* span exporter raises, after the audit event is on disk.                 *)
RecordingRaises(r) ==
  /\ \E place \in {"audit", "trace"} : place \in Faults /\ Goto(r, place, "done")
  /\ Settle(r, "failed")
  /\ UNCHANGED <<request, outcome, budgets, telemetry, files, crashes>>

StatusOf(o) == CASE o = "policy_denied" -> "403"
                 [] o \in {"rate_limited", "token_budget_limited"} -> "429"
                 [] o = "backend_error" -> "502"
                 [] o = "allowed" -> "200"

Reply(r) ==
  /\ Goto(r, "reply", "done")
  /\ Settle(r, IF status[r] = "streaming" /\ outcome[r] = "backend_error"
               THEN "cut" ELSE StatusOf(outcome[r]))
  /\ UNCHANGED <<request, outcome, budgets, telemetry, files, crashes>>

-----------------------------------------------------------------------------
(* Windows end with the clock.                                             *)
RequestWindowEnds ==
  /\ \E k \in Keys : rateTaken' = [rateTaken EXCEPT ![k] = {}]
  /\ UNCHANGED <<handlers, tokenTaken, denialTaken, telemetry, files, crashes>>

TokenWindowEnds ==
  /\ \E k \in Keys : tokenTaken' = [tokenTaken EXCEPT ![k] = {}]
  /\ UNCHANGED <<handlers, rateTaken, denialTaken, telemetry, files, crashes>>

DenialWindowEnds ==
  /\ denialTaken' = {}
  /\ UNCHANGED <<handlers, rateTaken, tokenTaken, telemetry, files, crashes>>

InHandler(r) == pc[r] \notin {"new", "done"}

(* The process stops and is started again: what it kept in memory is gone, *)
(* the audit log, the exported spans and Redis are not.                    *)
Crash ==
  /\ "crash" \in Faults
  /\ crashes < MaxCrashes
  /\ crashes' = crashes + 1
  /\ pc' = [r \in Requests |-> IF InHandler(r) THEN "done" ELSE pc[r]]
  /\ status' = [r \in Requests |-> IF InHandler(r) THEN "lost" ELSE status[r]]
  /\ IF SharedLimiter
     THEN UNCHANGED <<rateTaken, tokenTaken>>
     ELSE /\ rateTaken' = [k \in Keys |-> {}]
          /\ tokenTaken' = [k \in Keys |-> {}]
  /\ denialTaken' = {}
  /\ counted' = {}
  /\ suppressed' = 0
  /\ UNCHANGED <<request, outcome, files>>

Admission(r) == Authorize(r) \/ TakeRequest(r) \/ TakeTokens(r) \/ LimiterRaises(r)

Serving(r) == CallBackend(r) \/ BackendMalformed(r) \/ EndStream(r) \/ StreamNeverStarts(r)

Recording(r) == Count(r) \/ Gate(r) \/ Audit(r) \/ ExportSpan(r) \/ RecordingRaises(r)

Handle(r) == Admission(r) \/ Serving(r) \/ Recording(r) \/ Reply(r)

Next ==
  \/ \E r \in Requests : Arrive(r) \/ Handle(r)
  \/ RequestWindowEnds \/ TokenWindowEnds \/ DenialWindowEnds
  \/ Crash

Spec == Init /\ [][Next]_vars

-----------------------------------------------------------------------------
AuditEvent == [allowed : BOOLEAN, outcome : Outcomes]

TypeOK ==
  /\ pc \in [Requests -> Locations]
  /\ request \in [Requests -> Call]
  /\ outcome \in [Requests -> Outcomes \cup {"none"}]
  /\ status \in [Requests -> Statuses]
  /\ rateTaken \in [Keys -> SUBSET Requests]
  /\ tokenTaken \in [Keys -> SUBSET Requests]
  /\ denialTaken \in SUBSET Requests
  /\ counted \in SUBSET Requests
  /\ suppressed \in Nat
  /\ auditLog \in [Requests -> Seq(AuditEvent)]
  /\ spans \in [Requests -> Seq(Outcomes)]
  /\ crashes \in Nat

(* Whatever a client is told was written to the audit log first, exactly   *)
(* once and with the outcome it was told, whichever of the three ways of   *)
(* recording was taken (app.py:186-225, 231-262, 273-320, 323-378,         *)
(* 726-771); only the denial of a caller that never authenticated may be   *)
(* missing (app.py:779-783).                                               *)
AnswersAreAudited ==
  \A r \in Requests : status[r] \in Answers =>
    \/ auditLog[r] = <<Event(r)>>
    \/ Anonymous(r) /\ status[r] = "403" /\ auditLog[r] = <<>>

(* No failure, restart or second thread makes the log disagree with the    *)
(* decision or hold an event twice; a span is exported only for a request  *)
(* whose event is already there, and with the same outcome.                *)
LogsAgree ==
  \A r \in Requests :
    /\ auditLog[r] \in {<<>>, <<Event(r)>>}
    /\ spans[r] # <<>> => auditLog[r] = <<Event(r)>> /\ spans[r] = <<outcome[r]>>

(* A flood of denials that need no credentials can crowd only its own kind *)
(* out of the audit log: a denial is left out only when it is anonymous    *)
(* and the window's whole budget went to other anonymous denials, never to *)
(* authenticated ones (audit.py:14-19, app.py:779-783).                    *)
OnlyFloodsAreSuppressed ==
  [][\A r \in Requests : pc[r] = "gate" /\ pc'[r] = "reply" =>
       /\ Anonymous(r)
       /\ Cardinality({q \in denialTaken : Anonymous(q)}) = DenialLimit]_vars

(* The audit log's gap is visible: as long as the process runs, the        *)
(* suppression counter is the number of denials left out of the log.       *)
GapIsCounted ==
  crashes = 0 =>
    suppressed = Cardinality({r \in Requests :
      pc[r] \in {"reply", "done"} /\ outcome[r] \in DeniedOutcomes
        /\ status[r] \in {"none", "403", "429"} /\ auditLog[r] = <<>>})

(* An event reaches the log only after its request is in the counters of   *)
(* the running process: an alert on the counters never misses what the log *)
(* holds.                                                                  *)
CountedBeforeAudited ==
  [][\A r \in Requests : auditLog'[r] # auditLog[r] => r \in counted]_vars

(* README.md:59 for the token budget: a request that was denied, for       *)
(* whatever reason, holds no tokens another request could have used.       *)
DenialSpendsNoTokens ==
  \A k \in Keys : \A r \in tokenTaken[k] : outcome[r] \notin DeniedOutcomes

-----------------------------------------------------------------------------
(* What the documentation says, and the code does otherwise.               *)

(* THREAT_MODEL.md:29: "Allow and deny decisions are written to an audit   *)
(* log with authentication method and trace IDs."  A request that was let  *)
(* through to the backend has its event when its handler is done.          *)
AdmittedWorkAudited ==
  \A r \in Requests : pc[r] = "done" /\ r \in UNION {tokenTaken[k] : k \in Keys} =>
    auditLog[r] # <<>>

(* README.md:59: "A denied request spends nothing, so it cannot block      *)
(* later requests that fit."  A request refused for its caller's rate is   *)
(* refused for a window full of requests that were not denied themselves.  *)
DenialsBlockNobody ==
  [][\A r \in Requests : pc[r] = "rate" /\ outcome'[r] = "rate_limited" =>
       Cardinality({q \in rateTaken[Key(r)] : outcome[q] \notin DeniedOutcomes})
         = RateLimit[request[r].model]]_vars
=============================================================================
