------------------------------ MODULE Telemetry ------------------------------
(***************************************************************************)
(* What a request leaves in the metrics registry (gateway/metrics.py) and  *)
(* with the span exporters (gateway/trace_exporter.py), and what the       *)
(* telemetry snapshot (gateway/telemetry_snapshot.py) makes of a scrape.   *)
(* Each record_* and observe_* call takes the registry's lock by itself,   *)
(* and rendering a scrape takes it once: a scrape sees the state between   *)
(* any two calls of any handlers, and every state of this module is one.   *)
(*                                                                         *)
(* Admission is in Gateway; here a decision is a choice.  Latencies are    *)
(* numbers to be compared with the bounds of the buckets.                  *)
(***************************************************************************)
EXTENDS Integers, FiniteSetsExt, Functions

CONSTANTS
  Requests,
  Models, UnknownLabel,       \* metric labels: the registry's models and one more
  Bounds,                     \* the upper bounds of the latency buckets
  Latencies,                  \* how long the backend may take
  CheckLatencies,             \* how long a limiter may take
  Exporters,                  \* the configured ones of "file" and "collector"
  Faults                      \* "raise": a limiter or the backend raises what no handler
                              \* catches; "write": a file cannot be written; "post": the
                              \* collector's answer is not HTTP

ASSUME TelemetryAssumption ==
  /\ IsFiniteSet(Requests)
  /\ IsFiniteSet(Models) /\ UnknownLabel \notin Models
  /\ IsFiniteSet(Bounds) /\ Bounds # {} /\ Bounds \subseteq Nat
  /\ Latencies \subseteq Nat
  /\ CheckLatencies \subseteq Nat
  /\ Exporters \subseteq {"file", "collector"}
  /\ Faults \subseteq {"raise", "write", "post"}

VARIABLES
  pc,         \* where each handler is between two calls
  asked,      \* of each request, its model label, and whether its caller is known
  outcome,    \* what was decided of it
  latency,    \* how long the backend took, once it answered
  auth,       \* security_gateway_auth_events_total, by outcome
  requests,   \* security_gateway_requests_total, by label and outcome
  tokens,     \* security_gateway_input_tokens_total; each prompt is one token
  checks,     \* security_gateway_limiter_latency_seconds, by limiter
  served,     \* security_gateway_inference_latency_seconds, by label
  suppressed, \* security_gateway_audit_suppressed_total
  file,       \* the spans of the JSONL file
  collector,  \* the spans the OTLP collector has accepted
  lastError   \* OtlpHttpTraceExporter.last_error is set

progress == <<pc, asked, outcome, latency>>
limits == <<auth, checks>>
counters == <<requests, tokens>>
exports == <<file, collector, lastError>>
vars == <<progress, limits, counters, served, suppressed, exports>>

Labels == Models \cup {UnknownLabel}

Outcomes == {"policy_denied", "rate_limited", "token_budget_limited", "backend_error", "allowed"}

Locations == {"new", "requests", "input_tokens", "backend", "record", "spend", "observe",
              "gate", "file", "collector", "done", "raised"}

EmptyHistogram == [count |-> 0, sum |-> 0, buckets |-> [b \in Bounds |-> 0]]

(* Mutant: an observation falls in its tightest bucket only.              *)
ObservedOnce(h, x) ==
  [count |-> h.count + 1, sum |-> h.sum + x,
   buckets |-> [b \in Bounds |->
     h.buckets[b] + (IF x <= b /\ \A a \in Bounds : a < b => x > a THEN 1 ELSE 0)]]

(* An observation falls in every bucket whose bound it does not exceed.    *)
Observed(h, x) ==
  [count |-> h.count + 1, sum |-> h.sum + x,
   buckets |-> [b \in Bounds |-> h.buckets[b] + (IF x <= b THEN 1 ELSE 0)]]

Init ==
  /\ pc = [r \in Requests |-> "new"]
  /\ asked = [r \in Requests |-> [label |-> UnknownLabel, known |-> FALSE]]
  /\ outcome = [r \in Requests |-> "none"]
  /\ latency = [r \in Requests |-> 0]
  /\ auth = [accepted |-> 0, failed |-> 0]
  /\ requests = [m \in Labels |-> [o \in Outcomes |-> 0]]
  /\ tokens = [m \in Labels |-> [o \in Outcomes |-> 0]]
  /\ checks = [l \in {"requests", "input_tokens"} |-> EmptyHistogram]
  /\ served = [m \in Labels |-> EmptyHistogram]
  /\ suppressed = 0
  /\ file = {}
  /\ collector = {}
  /\ lastError = FALSE

-----------------------------------------------------------------------------
Goto(r, from, to) ==
  /\ pc[r] = from
  /\ pc' = [pc EXCEPT ![r] = to]

Decide(r, o) == outcome' = [outcome EXCEPT ![r] = o]

(* record_auth_event; the policy refuses, or the limiters are asked.  Only *)
(* a known caller and a model of the registry get that far.                *)
RecordAuth(r) ==
  /\ \E m \in Labels, known \in BOOLEAN :
       /\ asked' = [asked EXCEPT ![r] = [label |-> m, known |-> known]]
       /\ auth' = [auth EXCEPT ![IF known THEN "accepted" ELSE "failed"] = @ + 1]
       /\ \/ m \in Models /\ known /\ Goto(r, "new", "requests") /\ UNCHANGED outcome
          \/ Goto(r, "new", "record") /\ Decide(r, "policy_denied")
  /\ UNCHANGED <<latency, checks, counters, served, suppressed, exports>>

Refusal(limiter) ==
  IF limiter = "requests" THEN "rate_limited" ELSE "token_budget_limited"

(* Mutant: only the calls that were let through are observed.              *)
CheckUnrefused(r, limiter, next) ==
  /\ \/ /\ Goto(r, limiter, next) /\ UNCHANGED outcome
        /\ \E x \in CheckLatencies : checks' = [checks EXCEPT ![limiter] = Observed(@, x)]
     \/ Goto(r, limiter, "record") /\ Decide(r, Refusal(limiter)) /\ UNCHANGED checks
  /\ UNCHANGED <<asked, latency, auth, counters, served, suppressed, exports>>

(* observe_limiter_latency, whatever the limiter's answer was.             *)
Check(r, limiter, next) ==
  /\ \E x \in CheckLatencies : checks' = [checks EXCEPT ![limiter] = Observed(@, x)]
  /\ \/ Goto(r, limiter, next) /\ UNCHANGED outcome
     \/ Goto(r, limiter, "record") /\ Decide(r, Refusal(limiter))
  /\ UNCHANGED <<asked, latency, auth, counters, served, suppressed, exports>>

CheckRequests(r) == Check(r, "requests", "input_tokens")

CheckTokens(r) == Check(r, "input_tokens", "backend")

CallBackend(r) ==
  /\ Goto(r, "backend", "record")
  /\ \/ Decide(r, "allowed") /\ \E x \in Latencies : latency' = [latency EXCEPT ![r] = x]
     \/ Decide(r, "backend_error") /\ UNCHANGED latency
  /\ UNCHANGED <<asked, limits, counters, served, suppressed, exports>>

(* Redis fails, or the backend's body is cut short: nothing is recorded.   *)
AdmissionRaises(r) ==
  /\ "raise" \in Faults
  /\ \E from \in {"requests", "input_tokens", "backend"} : Goto(r, from, "raised")
  /\ UNCHANGED <<asked, outcome, latency, limits, counters, served, suppressed, exports>>

RecordRequest(r) ==
  /\ Goto(r, "record", "spend")
  /\ requests' = [requests EXCEPT ![asked[r].label][outcome[r]] = @ + 1]
  /\ UNCHANGED <<asked, outcome, latency, limits, tokens, served, suppressed, exports>>

(* Mutant: the latency of whatever reached the backend is observed.        *)
AfterSpendAny(r) == IF outcome[r] \in {"allowed", "backend_error"} THEN "observe" ELSE "gate"

AfterSpend(r) ==
  CASE outcome[r] = "allowed" -> "observe"
    [] outcome[r] = "policy_denied" -> "gate"
    [] OTHER -> "file"

RecordInputTokens(r) ==
  /\ Goto(r, "spend", AfterSpend(r))
  /\ tokens' = [tokens EXCEPT ![asked[r].label][outcome[r]] = @ + 1]
  /\ UNCHANGED <<asked, outcome, latency, limits, requests, served, suppressed, exports>>

ObserveLatency(r) ==
  /\ Goto(r, "observe", "file")
  /\ served' = [served EXCEPT ![asked[r].label] = Observed(@, latency[r])]
  /\ UNCHANGED <<asked, outcome, latency, limits, counters, suppressed, exports>>

(* denial_is_recorded: the denial of an unknown caller may only be counted. *)
Gate(r) ==
  /\ \/ Goto(r, "gate", "file") /\ UNCHANGED suppressed
     \/ ~ asked[r].known /\ Goto(r, "gate", "done") /\ suppressed' = suppressed + 1
  /\ UNCHANGED <<asked, outcome, latency, limits, counters, served, exports>>

-----------------------------------------------------------------------------
(* What both exporters keep of a span: build_span_record's status, which   *)
(* otlp_span turns into a number.                                          *)
Span(r) == [request |-> r, ok |-> outcome[r] = "allowed", outcome |-> outcome[r]]

(* Mutant: an error of the file does not end the loop over the exporters.  *)
WriteFileGoesOn(r) ==
  /\ Goto(r, "file", "collector")
  /\ file' \in {file} \cup (IF "file" \in Exporters THEN {file \cup {Span(r)}} ELSE {})
  /\ UNCHANGED <<asked, outcome, latency, limits, counters, served, suppressed, collector,
                 lastError>>

(* The composite exporter comes to the file first; an error of the file is *)
(* not caught and ends the loop, and so does a failed audit write before.  *)
WriteFile(r) ==
  /\ \/ Goto(r, "file", "collector")
        /\ file' = IF "file" \in Exporters THEN file \cup {Span(r)} ELSE file
     \/ "write" \in Faults /\ Goto(r, "file", "raised") /\ UNCHANGED file
  /\ UNCHANGED <<asked, outcome, latency, limits, counters, served, suppressed, collector,
                 lastError>>

(* An OSError (unreachable, timed out, an HTTP error) is kept in           *)
(* last_error; the collector may have accepted the span all the same.      *)
PostFails(r) ==
  /\ "collector" \in Exporters
  /\ Goto(r, "collector", "done")
  /\ collector' \in {collector, collector \cup {Span(r)}}
  /\ lastError' = TRUE
  /\ UNCHANGED <<asked, outcome, latency, limits, counters, served, suppressed, file>>

Post(r) ==
  /\ Goto(r, "collector", "done")
  /\ IF "collector" \in Exporters
     THEN collector' = collector \cup {Span(r)} /\ lastError' = FALSE
     ELSE UNCHANGED <<collector, lastError>>
  /\ UNCHANGED <<asked, outcome, latency, limits, counters, served, suppressed, file>>

(* http.client raises an HTTPException for an answer that is cut short:    *)
(* no OSError, so nobody catches it.                                       *)
PostRaises(r) ==
  /\ "collector" \in Exporters /\ "post" \in Faults
  /\ Goto(r, "collector", "raised")
  /\ collector' \in {collector, collector \cup {Span(r)}}
  /\ UNCHANGED <<asked, outcome, latency, limits, counters, served, suppressed, file, lastError>>

Admission(r) ==
  RecordAuth(r) \/ CheckRequests(r) \/ CheckTokens(r) \/ CallBackend(r) \/ AdmissionRaises(r)

Recording(r) ==
  RecordRequest(r) \/ RecordInputTokens(r) \/ ObserveLatency(r) \/ Gate(r)

Exporting(r) == WriteFile(r) \/ Post(r) \/ PostFails(r) \/ PostRaises(r)

Next == \E r \in Requests : Admission(r) \/ Recording(r) \/ Exporting(r)

Spec == Init /\ [][Next]_vars

-----------------------------------------------------------------------------
(* latency_summary: the first bucket that holds 95 percent, in the order   *)
(* of the bounds; Beyond when it is the one without a bound, or there is   *)
(* none.                                                                   *)
Beyond == 0 - 1

(* Mutant: the rank is rounded down.                                       *)
TargetRoundedDown(count) == Max({1, (95 * count) \div 100})

Target(count) == Max({1, (95 * count + 99) \div 100})

TailBound(h) ==
  LET holding == {b \in Bounds : h.buckets[b] >= Target(h.count)} IN
  IF h.count = 0 \/ holding = {} THEN Beyond ELSE Min(holding)

RequestsWith(O) ==
  SumFunctionOnSet([m \in Labels |-> SumFunctionOnSet(requests[m], O)], Labels)

-----------------------------------------------------------------------------
Histogram == [count : Nat, sum : Nat, buckets : [Bounds -> Nat]]

Spans == [request : Requests, ok : BOOLEAN, outcome : Outcomes]

TypeOK ==
  /\ pc \in [Requests -> Locations]
  /\ asked \in [Requests -> [label : Labels, known : BOOLEAN]]
  /\ outcome \in [Requests -> Outcomes \cup {"none"}]
  /\ latency \in [Requests -> Nat]
  /\ auth \in [{"accepted", "failed"} -> Nat]
  /\ requests \in [Labels -> [Outcomes -> Nat]]
  /\ tokens \in [Labels -> [Outcomes -> Nat]]
  /\ checks \in [{"requests", "input_tokens"} -> Histogram]
  /\ served \in [Labels -> Histogram]
  /\ suppressed \in Nat
  /\ file \in SUBSET Spans
  /\ collector \in SUBSET Spans
  /\ lastError \in BOOLEAN

(* A scrape is taken between any two calls of any handlers, yet it never   *)
(* shows an effect without its cause: no refusal or answer without the     *)
(* limiter's check, no check of the tokens without one of the requests, no *)
(* tokens, latency or suppressed denial without its request, no request    *)
(* without its authentication (app.py:181-364, 726-744, metrics.py:99-110).*)
NoEffectWithoutCause ==
  /\ RequestsWith(Outcomes) <= auth["accepted"] + auth["failed"]
  /\ suppressed <= RequestsWith({"policy_denied"})
  /\ RequestsWith({"rate_limited"}) + checks["input_tokens"].count <= checks["requests"].count
  /\ RequestsWith({"token_budget_limited", "backend_error", "allowed"})
       <= checks["input_tokens"].count
  /\ \A m \in Labels, o \in Outcomes : tokens[m][o] <= requests[m][o]
  /\ \A m \in Labels : served[m].count <= requests[m]["allowed"]

Quiet == \A r \in Requests : pc[r] \in {"new", "done"}

(* Once no handler is under way, and none was ended by an error, the       *)
(* metrics agree with each other and with the spans: every request has its *)
(* tokens, the answered ones their latency, and the file one span for each *)
(* request that was not suppressed.                                        *)
QuietScrapeReconciles ==
  Quiet =>
    /\ tokens = requests
    /\ \A m \in Labels : served[m].count = requests[m]["allowed"]
    /\ "file" \in Exporters =>
         Cardinality(file) + suppressed = RequestsWith(Outcomes)

NonDecreasing(buckets, count) ==
  \A a \in Bounds : buckets[a] <= count /\ \A b \in Bounds : a < b => buckets[a] <= buckets[b]

Growth(h, g) == NonDecreasing([b \in Bounds |-> g.buckets[b] - h.buckets[b]], g.count - h.count)

(* Whatever two scrapes a dashboard subtracts, the difference is a         *)
(* histogram: no bucket grows by more than a wider one, and none by more   *)
(* than the count (metrics.py:77-97, 226-258).                             *)
GrowthIsCumulative ==
  [][/\ \A m \in Labels : Growth(served[m], served'[m])
     /\ \A l \in DOMAIN checks : Growth(checks[l], checks'[l])]_vars

Answered(m) ==
  {r \in Requests : asked[r].label = m /\ outcome[r] = "allowed"
                     /\ pc[r] \in {"file", "collector", "done", "raised"}}

Within(m, x) == {r \in Answered(m) : latency[r] <= x}

(* The snapshot's p95 is a true upper bound, and the tightest the buckets  *)
(* give: 95 percent of the answered requests took no longer, and fewer     *)
(* than that are within any lower bound (telemetry_snapshot.py:209-225).   *)
TailIsBounded ==
  \A m \in Labels :
    LET bound == TailBound(served[m])
        Holds95(x) == 100 * Cardinality(Within(m, x)) >= 95 * Cardinality(Answered(m)) IN
    Answered(m) # {} =>
      /\ bound # Beyond => Holds95(bound)
      /\ \A b \in Bounds : (bound = Beyond \/ b < bound) => ~ Holds95(b)

(* The file is the record, the collector a copy: with both configured, the *)
(* collector never has a span the file lacks, and never a different one    *)
(* for the same request (trace_exporter.py:66-78, 194-221).                *)
CollectorFollowsFile ==
  "file" \in Exporters =>
    /\ collector \subseteq file
    /\ \A s, t \in file : s.request = t.request => s = t
=============================================================================
