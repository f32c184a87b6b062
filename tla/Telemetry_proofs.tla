-------------------------- MODULE Telemetry_proofs --------------------------
(***************************************************************************)
(* Theorems about Telemetry, for any requests, labels, bounds, latencies   *)
(* and exporters.                                                          *)
(***************************************************************************)
EXTENDS Telemetry, SumTheorems

LEMMA ObservedTyped ==
  ASSUME NEW h \in Histogram, NEW x \in Nat
  PROVE  Observed(h, x) \in Histogram /\ Growth(h, Observed(h, x))
  <1> DEFINE buckets == [b \in Bounds |-> h.buckets[b] + (IF x <= b THEN 1 ELSE 0)]
  <1>1. h.count \in Nat /\ h.sum \in Nat /\ h.buckets \in [Bounds -> Nat]
    BY DEF Histogram
  <1>2. buckets \in [Bounds -> Nat]
    BY <1>1
  <1>3. Observed(h, x) = [count |-> h.count + 1, sum |-> h.sum + x, buckets |-> buckets]
    BY DEF Observed
  <1>4. Observed(h, x) \in Histogram
    BY <1>1, <1>2, <1>3 DEF Histogram
  <1>5. \A b \in Bounds : Observed(h, x).buckets[b] - h.buckets[b] = IF x <= b THEN 1 ELSE 0
    BY <1>1, <1>3
  <1>6. Observed(h, x).count - h.count = 1
    BY <1>1, <1>3
  <1>7. ASSUME NEW a \in Bounds, NEW b \in Bounds, a < b
        PROVE  (IF x <= a THEN 1 ELSE 0) <= (IF x <= b THEN 1 ELSE 0)
    BY <1>7, TelemetryAssumption
  <1>8. Growth(h, Observed(h, x))
    BY <1>5, <1>6, <1>7 DEF Growth, NonDecreasing
  <1>9. QED
    BY <1>4, <1>8

LEMMA SameGrowth ==
  ASSUME NEW h \in Histogram
  PROVE  Growth(h, h)
  <1>1. h.count - h.count = 0 /\ \A b \in Bounds : h.buckets[b] - h.buckets[b] = 0
    BY DEF Histogram
  <1>2. QED
    BY <1>1 DEF Growth, NonDecreasing

-----------------------------------------------------------------------------
ProgressTyped ==
  /\ pc \in [Requests -> Locations]
  /\ asked \in [Requests -> [label : Labels, known : BOOLEAN]]
  /\ outcome \in [Requests -> Outcomes \cup {"none"}]
  /\ latency \in [Requests -> Nat]

CountersTyped ==
  /\ auth \in [{"accepted", "failed"} -> Nat]
  /\ requests \in [Labels -> [Outcomes -> Nat]]
  /\ tokens \in [Labels -> [Outcomes -> Nat]]
  /\ suppressed \in Nat

HistogramsTyped ==
  /\ checks \in [{"requests", "input_tokens"} -> Histogram]
  /\ served \in [Labels -> Histogram]

SpansTyped ==
  /\ file \in SUBSET Spans
  /\ collector \in SUBSET Spans
  /\ lastError \in BOOLEAN

Undecided == {"new", "requests", "input_tokens", "backend", "raised"}

(* Whoever is past the decision has an outcome.                            *)
Decided == \A r \in Requests : pc[r] \notin Undecided => outcome[r] \in Outcomes

TypeInv == ProgressTyped /\ CountersTyped /\ HistogramsTyped /\ SpansTyped /\ Decided

LEMMA TypeInit == Init => TypeInv
  <1> SUFFICES ASSUME Init PROVE TypeInv
    OBVIOUS
  <1>1. ProgressTyped /\ Decided
    BY DEF Init, ProgressTyped, Decided, Undecided, Locations, Labels
  <1>2. CountersTyped
    BY DEF Init, CountersTyped
  <1>3. HistogramsTyped
    <2>1. EmptyHistogram \in Histogram
      BY DEF EmptyHistogram, Histogram
    <2>2. QED
      BY <2>1 DEF Init, HistogramsTyped
  <1>4. SpansTyped
    BY DEF Init, SpansTyped
  <1>5. QED
    BY <1>1, <1>2, <1>3, <1>4 DEF TypeInv

(* Moves that decide nothing.                                              *)
LEMMA ProgressMoves ==
  ASSUME ProgressTyped, Decided, UNCHANGED <<asked, outcome, latency>>, NEW r \in Requests,
         pc[r] \notin Undecided, NEW to \in Locations, pc' = [pc EXCEPT ![r] = to]
  PROVE  ProgressTyped' /\ Decided'
  BY DEF ProgressTyped, Decided

LEMMA AdmissionStep ==
  ASSUME TypeInv, NEW r \in Requests, Admission(r)
  PROVE  TypeInv'
  <1> USE DEF TypeInv, Goto, Decide
  <1>1. CASE RecordAuth(r)
    <2>1. PICK m \in Labels, known \in BOOLEAN :
            /\ asked' = [asked EXCEPT ![r] = [label |-> m, known |-> known]]
            /\ auth' = [auth EXCEPT ![IF known THEN "accepted" ELSE "failed"] = @ + 1]
      BY <1>1 DEF RecordAuth
    <2>2. /\ UNCHANGED <<latency, checks, requests, tokens, served, suppressed, file,
                         collector, lastError>>
          /\ \/ pc' = [pc EXCEPT ![r] = "requests"] /\ UNCHANGED outcome
             \/ pc' = [pc EXCEPT ![r] = "record"]
                  /\ outcome' = [outcome EXCEPT ![r] = "policy_denied"]
      BY <1>1 DEF RecordAuth, counters, exports
    <2>3. ProgressTyped'
      BY <2>1, <2>2 DEF ProgressTyped, Locations, Outcomes
    <2>4. Decided'
      BY <2>2 DEF ProgressTyped, Decided, Undecided, Outcomes
    <2>5. CountersTyped' /\ HistogramsTyped' /\ SpansTyped'
      BY <2>1, <2>2 DEF CountersTyped, HistogramsTyped, SpansTyped
    <2>6. QED
      BY <2>3, <2>4, <2>5
  <1>2. ASSUME NEW limiter \in {"requests", "input_tokens"},
               NEW next \in {"input_tokens", "backend"}, Check(r, limiter, next)
        PROVE  TypeInv'
    <2>1. PICK x \in CheckLatencies : checks' = [checks EXCEPT ![limiter] = Observed(@, x)]
      BY <1>2 DEF Check
    <2>2. UNCHANGED <<asked, latency, auth, requests, tokens, served, suppressed, file,
                      collector, lastError>>
      BY <1>2 DEF Check, counters, exports
    <2>3. \/ pc' = [pc EXCEPT ![r] = next] /\ UNCHANGED outcome
          \/ pc' = [pc EXCEPT ![r] = "record"]
               /\ outcome' = [outcome EXCEPT ![r] = Refusal(limiter)]
      BY <1>2 DEF Check
    <2>4. Refusal(limiter) \in Outcomes
      BY DEF Refusal, Outcomes
    <2>5. ProgressTyped'
      BY <2>2, <2>3, <2>4 DEF ProgressTyped, Locations
    <2>6. Decided'
      BY <2>3, <2>4 DEF ProgressTyped, Decided, Undecided
    <2>7. HistogramsTyped'
      <3>1. Observed(checks[limiter], x) \in Histogram
        BY ObservedTyped, TelemetryAssumption DEF HistogramsTyped
      <3>2. QED
        BY <2>1, <2>2, <3>1 DEF HistogramsTyped
    <2>8. CountersTyped' /\ SpansTyped'
      BY <2>2 DEF CountersTyped, SpansTyped
    <2>9. QED
      BY <2>5, <2>6, <2>7, <2>8
  <1>3. CASE CallBackend(r)
    <2>1. UNCHANGED <<asked, auth, checks, requests, tokens, served, suppressed, file,
                      collector, lastError>>
      BY <1>3 DEF CallBackend, limits, counters, exports
    <2>2. PICK o \in {"allowed", "backend_error"} : outcome' = [outcome EXCEPT ![r] = o]
      BY <1>3 DEF CallBackend
    <2>3. pc' = [pc EXCEPT ![r] = "record"]
      BY <1>3 DEF CallBackend
    <2>4. latency' \in [Requests -> Nat]
      BY <1>3, TelemetryAssumption DEF CallBackend, ProgressTyped
    <2>5. ProgressTyped'
      BY <2>1, <2>2, <2>3, <2>4 DEF ProgressTyped, Locations, Outcomes
    <2>6. Decided'
      BY <2>2, <2>3 DEF ProgressTyped, Decided, Outcomes
    <2>7. CountersTyped' /\ HistogramsTyped' /\ SpansTyped'
      BY <2>1 DEF CountersTyped, HistogramsTyped, SpansTyped
    <2>8. QED
      BY <2>5, <2>6, <2>7
  <1>4. CASE AdmissionRaises(r)
    <2>1. UNCHANGED <<asked, outcome, latency, auth, checks, requests, tokens, served,
                      suppressed, file, collector, lastError>>
      BY <1>4 DEF AdmissionRaises, limits, counters, exports
    <2>2. pc' = [pc EXCEPT ![r] = "raised"]
      BY <1>4 DEF AdmissionRaises
    <2>3. ProgressTyped' /\ Decided'
      BY <2>1, <2>2 DEF ProgressTyped, Decided, Undecided, Locations
    <2>4. CountersTyped' /\ HistogramsTyped' /\ SpansTyped'
      BY <2>1 DEF CountersTyped, HistogramsTyped, SpansTyped
    <2>5. QED
      BY <2>3, <2>4
  <1>5. QED
    BY <1>1, <1>2, <1>3, <1>4 DEF Admission, CheckRequests, CheckTokens

(* One more of an outcome.                                                 *)
LEMMA CountedTyped ==
  ASSUME NEW f \in [Labels -> [Outcomes -> Nat]], NEW m \in Labels, NEW o \in Outcomes
  PROVE  [f EXCEPT ![m][o] = @ + 1] \in [Labels -> [Outcomes -> Nat]]
  <1>1. f[m] \in [Outcomes -> Nat] /\ f[m][o] + 1 \in Nat
    OBVIOUS
  <1>2. [f[m] EXCEPT ![o] = @ + 1] \in [Outcomes -> Nat]
    BY <1>1
  <1>3. [f EXCEPT ![m][o] = @ + 1] = [f EXCEPT ![m] = [f[m] EXCEPT ![o] = @ + 1]]
    OBVIOUS
  <1>4. QED
    BY <1>2, <1>3

LEMMA RecordingStep ==
  ASSUME TypeInv, NEW r \in Requests, Recording(r)
  PROVE  TypeInv'
  <1> USE DEF TypeInv, Goto
  <1>1. UNCHANGED <<asked, outcome, latency, auth, checks, file, collector, lastError>>
    BY DEF Recording, RecordRequest, RecordInputTokens, ObserveLatency, Gate, limits, counters,
           exports
  <1>2. ProgressTyped' /\ Decided'
    <2>1. PICK to \in Locations : pc' = [pc EXCEPT ![r] = to]
      BY DEF Recording, RecordRequest, RecordInputTokens, ObserveLatency, Gate, AfterSpend,
             Locations, Undecided
    <2>2. pc[r] \notin Undecided
      BY DEF Recording, RecordRequest, RecordInputTokens, ObserveLatency, Gate, Undecided
    <2>3. QED
      BY <1>1, <2>1, <2>2, ProgressMoves
  <1>3. SpansTyped'
    BY <1>1 DEF SpansTyped
  <1>4. asked[r].label \in Labels
    BY DEF ProgressTyped
  <1>5. outcome[r] \in Outcomes
    BY DEF Recording, RecordRequest, RecordInputTokens, ObserveLatency, Gate, Decided, Undecided
  <1>6. CASE RecordRequest(r) \/ RecordInputTokens(r) \/ Gate(r)
    <2>1. HistogramsTyped'
      BY <1>1, <1>6 DEF RecordRequest, RecordInputTokens, Gate, HistogramsTyped
    <2>2. CountersTyped'
      <3>1. /\ auth' = auth
            /\ \/ tokens' = tokens /\ suppressed' = suppressed
                  /\ requests' = [requests EXCEPT ![asked[r].label][outcome[r]] = @ + 1]
               \/ requests' = requests /\ suppressed' = suppressed
                  /\ tokens' = [tokens EXCEPT ![asked[r].label][outcome[r]] = @ + 1]
               \/ requests' = requests /\ tokens' = tokens
                  /\ suppressed' \in {suppressed, suppressed + 1}
        BY <1>1, <1>6 DEF RecordRequest, RecordInputTokens, Gate, counters
      <3>2. CASE suppressed' = suppressed + 1 /\ requests' = requests /\ tokens' = tokens
        BY <3>1, <3>2 DEF CountersTyped
      <3>3. CASE requests' = [requests EXCEPT ![asked[r].label][outcome[r]] = @ + 1]
                 /\ tokens' = tokens /\ suppressed' = suppressed
        BY <1>4, <1>5, <3>1, <3>3, CountedTyped DEF CountersTyped
      <3>4. CASE tokens' = [tokens EXCEPT ![asked[r].label][outcome[r]] = @ + 1]
                 /\ requests' = requests /\ suppressed' = suppressed
        BY <1>4, <1>5, <3>1, <3>4, CountedTyped DEF CountersTyped
      <3>5. CASE requests' = requests /\ tokens' = tokens /\ suppressed' = suppressed
        BY <3>1, <3>5 DEF CountersTyped
      <3>6. QED
        BY <3>1, <3>2, <3>3, <3>4, <3>5
    <2>3. QED
      BY <1>2, <1>3, <2>1, <2>2
  <1>7. CASE ObserveLatency(r)
    <2>1. /\ UNCHANGED <<requests, tokens, suppressed>>
          /\ served' = [served EXCEPT ![asked[r].label] = Observed(@, latency[r])]
      BY <1>7 DEF ObserveLatency, counters
    <2>2. Observed(served[asked[r].label], latency[r]) \in Histogram
      BY <1>4, ObservedTyped DEF ProgressTyped, HistogramsTyped
    <2>3. HistogramsTyped'
      BY <1>1, <1>4, <2>1, <2>2 DEF HistogramsTyped
    <2>4. CountersTyped'
      BY <1>1, <2>1 DEF CountersTyped
    <2>5. QED
      BY <1>2, <1>3, <2>3, <2>4
  <1>8. QED
    BY <1>6, <1>7 DEF Recording

LEMMA SpanTyped ==
  ASSUME TypeInv, NEW r \in Requests, pc[r] \notin Undecided
  PROVE  Span(r) \in Spans
  BY DEF TypeInv, Decided, Span, Spans

LEMMA ExportingStep ==
  ASSUME TypeInv, NEW r \in Requests, Exporting(r)
  PROVE  TypeInv'
  <1> USE DEF TypeInv, Goto
  <1>1. UNCHANGED <<asked, outcome, latency, auth, checks, requests, tokens, served, suppressed>>
    BY DEF Exporting, WriteFile, Post, PostFails, PostRaises, limits, counters
  <1>2. pc[r] \notin Undecided
    BY DEF Exporting, WriteFile, Post, PostFails, PostRaises, Undecided
  <1>3. ProgressTyped' /\ Decided'
    <2>1. PICK to \in Locations : pc' = [pc EXCEPT ![r] = to]
      BY DEF Exporting, WriteFile, Post, PostFails, PostRaises, Locations, Undecided
    <2>2. QED
      BY <1>1, <1>2, <2>1, ProgressMoves
  <1>4. SpansTyped'
    BY <1>2, SpanTyped DEF Exporting, WriteFile, Post, PostFails, PostRaises, SpansTyped
  <1>5. CountersTyped' /\ HistogramsTyped'
    BY <1>1 DEF CountersTyped, HistogramsTyped
  <1>6. QED
    BY <1>3, <1>4, <1>5

LEMMA TypeStep == TypeInv /\ [Next]_vars => TypeInv'
  <1> SUFFICES ASSUME TypeInv, [Next]_vars PROVE TypeInv'
    OBVIOUS
  <1>1. CASE UNCHANGED vars
    BY <1>1 DEF vars, progress, limits, counters, exports, TypeInv, ProgressTyped, CountersTyped,
                HistogramsTyped, SpansTyped, Decided
  <1>2. CASE Next
    BY <1>2, AdmissionStep, RecordingStep, ExportingStep DEF Next
  <1>3. QED
    BY <1>1, <1>2

(* Every variable keeps its type.                                          *)
THEOREM TypeCorrect == Spec => []TypeOK
  <1>1. TypeInv => TypeOK
    BY DEF TypeInv, ProgressTyped, CountersTyped, HistogramsTyped, SpansTyped, TypeOK
  <1>2. QED
    BY <1>1, TypeInit, TypeStep, PTL DEF Spec

-----------------------------------------------------------------------------
(* What two scrapes differ by is a histogram, for any bounds.              *)
THEOREM ScrapesDifferCumulatively == Spec => GrowthIsCumulative
  <1>1. TypeInv /\ [Next]_vars =>
          [/\ \A m \in Labels : Growth(served[m], served'[m])
           /\ \A l \in DOMAIN checks : Growth(checks[l], checks'[l])]_vars
    <2> SUFFICES ASSUME TypeInv, [Next]_vars
                 PROVE  /\ \A m \in Labels : Growth(served[m], served'[m])
                        /\ \A l \in DOMAIN checks : Growth(checks[l], checks'[l])
      OBVIOUS
    <2>0. /\ \A m \in Labels : Growth(served[m], served[m])
          /\ \A l \in {"requests", "input_tokens"} : Growth(checks[l], checks[l])
          /\ DOMAIN checks = {"requests", "input_tokens"}
      BY SameGrowth DEF TypeInv, HistogramsTyped
    <2>1. CASE UNCHANGED <<served, checks>>
      BY <2>0, <2>1
    <2>2. ASSUME NEW r \in Requests, ObserveLatency(r)
          PROVE  /\ \A m \in Labels : Growth(served[m], served'[m])
                 /\ \A l \in DOMAIN checks : Growth(checks[l], checks'[l])
      <3>1. /\ UNCHANGED checks
            /\ served' = [served EXCEPT ![asked[r].label] = Observed(@, latency[r])]
        BY <2>2 DEF ObserveLatency, limits
      <3>2. ASSUME NEW m \in Labels
            PROVE  served'[m] = IF m = asked[r].label THEN Observed(served[m], latency[r])
                                                      ELSE served[m]
        BY <3>1 DEF TypeInv, HistogramsTyped
      <3>3. \A m \in Labels : Growth(served[m], Observed(served[m], latency[r]))
        BY ObservedTyped DEF TypeInv, HistogramsTyped, ProgressTyped
      <3>4. QED
        BY <2>0, <3>1, <3>2, <3>3
    <2>3. ASSUME NEW r \in Requests, NEW limiter \in {"requests", "input_tokens"}, NEW next,
                 Check(r, limiter, next)
          PROVE  /\ \A m \in Labels : Growth(served[m], served'[m])
                 /\ \A l \in DOMAIN checks : Growth(checks[l], checks'[l])
      <3>1. PICK x \in CheckLatencies : checks' = [checks EXCEPT ![limiter] = Observed(@, x)]
        BY <2>3 DEF Check
      <3>2. UNCHANGED served
        BY <2>3 DEF Check
      <3>3. ASSUME NEW l \in {"requests", "input_tokens"}
            PROVE  checks'[l] = IF l = limiter THEN Observed(checks[l], x) ELSE checks[l]
        BY <3>1 DEF TypeInv, HistogramsTyped
      <3>4. \A l \in {"requests", "input_tokens"} : Growth(checks[l], Observed(checks[l], x))
        BY ObservedTyped, TelemetryAssumption DEF TypeInv, HistogramsTyped
      <3>5. QED
        BY <2>0, <3>2, <3>3, <3>4
    <2>4. QED
      <3>1. CASE UNCHANGED vars
        BY <2>1, <3>1 DEF vars, limits
      <3>2. ASSUME NEW r \in Requests, RecordAuth(r) \/ CallBackend(r) \/ AdmissionRaises(r)
                     \/ RecordRequest(r) \/ RecordInputTokens(r) \/ Gate(r) \/ Exporting(r)
            PROVE  UNCHANGED <<served, checks>>
        BY <3>2 DEF RecordAuth, CallBackend, AdmissionRaises, RecordRequest,
                    RecordInputTokens, Gate, Exporting, WriteFile, Post, PostFails, PostRaises,
                    limits
      <3>3. QED
        BY <2>1, <2>2, <2>3, <3>1, <3>2 DEF Next, Admission, Recording, CheckRequests,
                                           CheckTokens
  <1>2. QED
    BY <1>1, TypeInit, TypeStep, PTL DEF Spec, GrowthIsCumulative

-----------------------------------------------------------------------------
(* A span of the file is that of its request as decided, and a handler     *)
(* comes to the collector with its span in the file.                       *)
FileInv ==
  "file" \in Exporters =>
    /\ \A s \in file : s.request \in Requests /\ s = Span(s.request)
                       /\ pc[s.request] \in {"collector", "done", "raised"}
    /\ \A r \in Requests : pc[r] = "collector" => Span(r) \in file
    /\ collector \subseteq file

LEMMA FileStep == TypeInv /\ FileInv /\ [Next]_vars => FileInv'
  <1> SUFFICES ASSUME TypeInv, FileInv, [Next]_vars, "file" \in Exporters PROVE FileInv'
    BY DEF FileInv
  <1> USE DEF TypeInv, FileInv, ProgressTyped, Goto
  <1>1. CASE UNCHANGED vars
    BY <1>1 DEF vars, progress, exports, Span
  <1>2. ASSUME NEW r \in Requests, Admission(r) \/ Recording(r) PROVE FileInv'
    <2>1. UNCHANGED <<file, collector>>
      BY <1>2 DEF Admission, RecordAuth, CheckRequests, CheckTokens, Check, CallBackend,
         AdmissionRaises, Recording, RecordRequest, RecordInputTokens, ObserveLatency, Gate, exports
    <2>2. /\ pc[r] \notin {"file", "collector", "done", "raised"}
          /\ \E to \in Locations \ {"collector"} : pc' = [pc EXCEPT ![r] = to]
      BY <1>2 DEF Admission, RecordAuth, CheckRequests, CheckTokens, Check, CallBackend,
         AdmissionRaises, Recording, RecordRequest, RecordInputTokens, ObserveLatency, Gate,
         AfterSpend, Locations
    <2>3. \A q \in Requests : q # r => pc'[q] = pc[q] /\ outcome'[q] = outcome[q]
      BY <1>2 DEF Admission, RecordAuth, CheckRequests, CheckTokens, Check, CallBackend,
         AdmissionRaises, Recording, RecordRequest, RecordInputTokens, ObserveLatency, Gate, Decide
    <2>4. \A q \in Requests : q # r => Span(q)' = Span(q)
      BY <2>3 DEF Span
    <2>5. \A s \in file : s.request # r
      BY <2>2
    <2>6. QED
      BY <2>1, <2>2, <2>3, <2>4, <2>5
  <1>3. ASSUME NEW r \in Requests, Exporting(r) PROVE FileInv'
    <2>1. UNCHANGED outcome
      BY <1>3 DEF Exporting, WriteFile, Post, PostFails, PostRaises
    <2>2. \A q : Span(q)' = Span(q)
      BY <2>1 DEF Span
    <2>3. Span(r).request = r
      BY DEF Span
    <2>4. CASE WriteFile(r)
      BY <2>2, <2>3, <2>4 DEF WriteFile
    <2>5. CASE Post(r) \/ PostFails(r) \/ PostRaises(r)
      <3>1. /\ UNCHANGED file /\ pc[r] = "collector"
            /\ \E to \in {"done", "raised"} : pc' = [pc EXCEPT ![r] = to]
            /\ collector' \subseteq collector \cup {Span(r)}
        BY <2>5 DEF Post, PostFails, PostRaises
      <3>2. QED
        BY <2>2, <3>1
    <2>6. QED
      BY <1>3, <2>4, <2>5 DEF Exporting
  <1>4. QED
    BY <1>1, <1>2, <1>3 DEF Next

(* The collector only ever has what the file has, one span a request.      *)
THEOREM CollectorNeverLeads == Spec => []CollectorFollowsFile
  <1>1. Init => FileInv
    BY DEF Init, FileInv
  <1>2. FileInv => CollectorFollowsFile
    BY DEF FileInv, CollectorFollowsFile
  <1>3. QED
    BY <1>1, <1>2, TypeInit, TypeStep, FileStep, PTL DEF Spec
-----------------------------------------------------------------------------
(* What the counters count, as sets of requests.                           *)
Waiting == {"new", "requests", "input_tokens", "backend"}

RecordedAt == {"spend", "observe", "gate", "file", "collector", "done", "raised"}

SpentAt == RecordedAt \ {"spend"}

AnsweredAt == {"file", "collector", "done", "raised"}

OfOutcome(m, o, places) ==
  {r \in Requests : asked[r].label = m /\ outcome[r] = o /\ pc[r] \in places}

Arrived == {r \in Requests : pc[r] # "new"}

CheckedOnce == {r \in Requests : outcome[r] = "rate_limited" \/ pc[r] = "input_tokens"}

CheckedTwice ==
  {r \in Requests :
     outcome[r] \in {"token_budget_limited", "backend_error", "allowed"} \/ pc[r] = "backend"}

DeniedDone == {r \in Requests : outcome[r] = "policy_denied" /\ pc[r] = "done"}

DoneUnwritten == {r \in Requests : pc[r] = "done" /\ Span(r) \notin file}

(* Where a handler is tells something of what was decided.                 *)
Placed ==
  \A r \in Requests :
    /\ pc[r] \in Waiting => outcome[r] = "none"
    /\ pc[r] = "observe" => outcome[r] = "allowed"
    /\ pc[r] = "gate" => outcome[r] = "policy_denied"

RequestsCounted ==
  \A m \in Labels, o \in Outcomes : requests[m][o] = Cardinality(OfOutcome(m, o, RecordedAt))

TokensCounted ==
  \A m \in Labels, o \in Outcomes : tokens[m][o] = Cardinality(OfOutcome(m, o, SpentAt))

ServedCounted ==
  \A m \in Labels :
    /\ served[m].count = Cardinality(Answered(m))
    /\ \A b \in Bounds : served[m].buckets[b] = Cardinality(Within(m, b))

AuthCounted == auth["accepted"] + auth["failed"] = Cardinality(Arrived)

ChecksCounted ==
  /\ Cardinality(CheckedOnce) + checks["input_tokens"].count <= checks["requests"].count
  /\ Cardinality(CheckedTwice) <= checks["input_tokens"].count

SuppressedCounted ==
  /\ suppressed <= Cardinality(DeniedDone)
  /\ "file" \in Exporters => suppressed = Cardinality(DoneUnwritten)

CountInv ==
  /\ TypeInv /\ FileInv /\ Placed
  /\ RequestsCounted /\ TokensCounted /\ ServedCounted
  /\ AuthCounted /\ ChecksCounted /\ SuppressedCounted

OthersStay(r) ==
  \A q \in Requests \ {r} :
    pc'[q] = pc[q] /\ asked'[q] = asked[q] /\ outcome'[q] = outcome[q] /\ latency'[q] = latency[q]

(* What the steps of a handler have in common, before its request is       *)
(* recorded and after.                                                     *)
Deciding(r) ==
  /\ pc[r] \in Waiting /\ outcome[r] = "none"
  /\ pc'[r] \in {"requests", "input_tokens", "backend", "record", "raised"}
  /\ pc'[r] # "record" => outcome'[r] = "none"
  /\ UNCHANGED <<requests, tokens, served, suppressed, file, collector>>

Exported(r) ==
  /\ pc[r] \in {"file", "collector"} /\ pc'[r] \in {"collector", "done", "raised"}
  /\ UNCHANGED <<asked, outcome, latency, auth, checks, requests, tokens, served, suppressed>>

LEMMA StepKinds ==
  ASSUME TypeInv, Placed, NEW r \in Requests, Admission(r) \/ Recording(r) \/ Exporting(r)
  PROVE  /\ OthersStay(r)
         /\ \/ Deciding(r)
            \/ RecordRequest(r) \/ RecordInputTokens(r) \/ ObserveLatency(r) \/ Gate(r)
            \/ Exported(r)
  <1> USE DEF Goto, Decide, Waiting, ProgressTyped, counters, limits, exports
  <1>0. ProgressTyped
    BY DEF TypeInv
  <1>1. ASSUME Admission(r) PROVE OthersStay(r) /\ Deciding(r)
    <2>1. pc[r] \in Waiting
      BY <1>1 DEF Admission, RecordAuth, CheckRequests, CheckTokens, Check, CallBackend,
                  AdmissionRaises
    <2>2. outcome[r] = "none"
      BY <2>1 DEF Placed
    <2>3. UNCHANGED <<requests, tokens, served, suppressed, file, collector>>
      BY <1>1 DEF Admission, RecordAuth, CheckRequests, CheckTokens, Check, CallBackend,
                  AdmissionRaises
    <2>4. OthersStay(r)
      BY <1>0, <1>1 DEF Admission, RecordAuth, CheckRequests, CheckTokens, Check, CallBackend,
                  AdmissionRaises, OthersStay
    <2>5. /\ pc'[r] \in {"requests", "input_tokens", "backend", "record", "raised"}
          /\ pc'[r] # "record" => outcome'[r] = outcome[r]
      BY <1>0, <1>1 DEF Admission, RecordAuth, CheckRequests, CheckTokens, Check, CallBackend,
                        AdmissionRaises
    <2>6. QED
      BY <2>1, <2>2, <2>3, <2>4, <2>5 DEF Deciding
  <1>2. ASSUME Recording(r) PROVE OthersStay(r)
    BY <1>0, <1>2 DEF Recording, RecordRequest, RecordInputTokens, ObserveLatency, Gate, OthersStay
  <1>3. ASSUME Exporting(r) PROVE OthersStay(r) /\ Exported(r)
    <2>1. UNCHANGED <<asked, outcome, latency, auth, checks, requests, tokens, served, suppressed>>
      BY <1>3 DEF Exporting, WriteFile, Post, PostFails, PostRaises
    <2>2. pc[r] \in {"file", "collector"} /\ pc'[r] \in {"collector", "done", "raised"}
      BY <1>0, <1>3 DEF Exporting, WriteFile, Post, PostFails, PostRaises
    <2>3. OthersStay(r)
      BY <1>0, <1>3 DEF Exporting, WriteFile, Post, PostFails, PostRaises, OthersStay
    <2>4. QED
      BY <2>1, <2>2, <2>3 DEF Exported
  <1>4. QED
    BY <1>1, <1>2, <1>3 DEF Recording

LEMMA RequestsFinite == \A S \in SUBSET Requests : IsFiniteSet(S) /\ Cardinality(S) \in Nat
  <1>1. IsFiniteSet(Requests)
    BY TelemetryAssumption
  <1>2. \A S \in SUBSET Requests : IsFiniteSet(S)
    BY <1>1, FS_Subset
  <1>3. QED
    BY <1>2, FS_CardinalityType

(* How the count of an outcome moves with one request.                     *)
LEMMA OutcomeMoves ==
  ASSUME NEW r \in Requests, OthersStay(r), NEW m, NEW o, NEW places
  PROVE  /\ Cardinality(OfOutcome(m, o, places)) \in Nat
         /\ Cardinality(OfOutcome(m, o, places)') =
              Cardinality(OfOutcome(m, o, places))
                + (IF asked'[r].label = m /\ outcome'[r] = o /\ pc'[r] \in places THEN 1 ELSE 0)
                - (IF asked[r].label = m /\ outcome[r] = o /\ pc[r] \in places THEN 1 ELSE 0)
  <1> DEFINE S == OfOutcome(m, o, places)
             T == {q \in Requests :
                     asked'[q].label = m /\ outcome'[q] = o /\ pc'[q] \in places}
  <1>1. S \in SUBSET Requests /\ T \in SUBSET Requests /\ OfOutcome(m, o, places)' = T
    BY DEF OfOutcome
  <1>2. \A q \in Requests \ {r} : q \in T <=> q \in S
    BY DEF OthersStay, OfOutcome
  <1>3. /\ r \in T <=> asked'[r].label = m /\ outcome'[r] = o /\ pc'[r] \in places
        /\ r \in S <=> asked[r].label = m /\ outcome[r] = o /\ pc[r] \in places
    BY DEF OfOutcome
  <1> HIDE DEF S, T
  <1>4. /\ Cardinality(S) \in Nat
        /\ Cardinality(T) = Cardinality(S) + (IF r \in T THEN 1 ELSE 0)
                                           - (IF r \in S THEN 1 ELSE 0)
    BY <1>1, <1>2, CountMoved, TelemetryAssumption
  <1>5. QED
    BY <1>1, <1>3, <1>4 DEF S

LEMMA PlacedStep ==
  ASSUME TypeInv, Placed, NEW r \in Requests, OthersStay(r),
         \/ Deciding(r)
         \/ RecordRequest(r) \/ RecordInputTokens(r) \/ ObserveLatency(r) \/ Gate(r)
         \/ Exported(r)
  PROVE  Placed'
  <1> SUFFICES ASSUME NEW q \in Requests
               PROVE  /\ pc'[q] \in Waiting => outcome'[q] = "none"
                      /\ pc'[q] = "observe" => outcome'[q] = "allowed"
                      /\ pc'[q] = "gate" => outcome'[q] = "policy_denied"
    BY DEF Placed
  <1>1. CASE q # r
    BY <1>1 DEF OthersStay, Placed
  <1>2. CASE q = r
    BY <1>2 DEF Deciding, RecordRequest, RecordInputTokens, ObserveLatency, Gate, Exported,
                Goto, AfterSpend, Waiting, TypeInv, ProgressTyped
  <1>3. QED
    BY <1>1, <1>2

LEMMA CountedOnce ==
  ASSUME NEW f \in [Labels -> [Outcomes -> Nat]], NEW n \in Labels, NEW p \in Outcomes,
         NEW m \in Labels, NEW o \in Outcomes
  PROVE  [f EXCEPT ![n][p] = @ + 1][m][o] = f[m][o] + (IF m = n /\ o = p THEN 1 ELSE 0)
  <1>1. [f EXCEPT ![n][p] = @ + 1] = [f EXCEPT ![n] = [f[n] EXCEPT ![p] = @ + 1]]
    OBVIOUS
  <1>2. f[m] \in [Outcomes -> Nat] /\ f[n] \in [Outcomes -> Nat]
    OBVIOUS
  <1>3. [f[n] EXCEPT ![p] = @ + 1][o] = IF o = p THEN f[n][o] + 1 ELSE f[n][o]
    BY <1>2
  <1>4. QED
    BY <1>1, <1>2, <1>3

LEMMA RequestsStep ==
  ASSUME TypeInv, Placed, RequestsCounted, NEW r \in Requests, OthersStay(r),
         \/ Deciding(r)
         \/ RecordRequest(r) \/ RecordInputTokens(r) \/ ObserveLatency(r) \/ Gate(r)
         \/ Exported(r)
  PROVE  RequestsCounted'
  <1> SUFFICES ASSUME NEW m \in Labels, NEW o \in Outcomes
               PROVE  requests'[m][o] = Cardinality(OfOutcome(m, o, RecordedAt)')
    BY DEF RequestsCounted, OfOutcome, RecordedAt, Labels, Outcomes
  <1> USE DEF Goto
  <1>1. /\ Cardinality(OfOutcome(m, o, RecordedAt)) \in Nat
        /\ Cardinality(OfOutcome(m, o, RecordedAt)') =
             Cardinality(OfOutcome(m, o, RecordedAt))
               + (IF asked'[r].label = m /\ outcome'[r] = o /\ pc'[r] \in RecordedAt THEN 1 ELSE 0)
               - (IF asked[r].label = m /\ outcome[r] = o /\ pc[r] \in RecordedAt THEN 1 ELSE 0)
    BY OutcomeMoves
  <1>2. requests[m][o] = Cardinality(OfOutcome(m, o, RecordedAt))
    BY DEF RequestsCounted
  <1>3. pc \in [Requests -> Locations] /\ requests \in [Labels -> [Outcomes -> Nat]]
    BY DEF TypeInv, ProgressTyped, CountersTyped
  <1>4. CASE RecordRequest(r)
    <2>1. /\ requests' = [requests EXCEPT ![asked[r].label][outcome[r]] = @ + 1]
          /\ pc[r] = "record" /\ pc'[r] = "spend" /\ UNCHANGED <<asked, outcome>>
      BY <1>3, <1>4 DEF RecordRequest
    <2>2. asked[r].label \in Labels /\ outcome[r] \in Outcomes
      BY <2>1 DEF TypeInv, ProgressTyped, Decided, Undecided
    <2>3. requests'[m][o] =
            requests[m][o] + (IF m = asked[r].label /\ o = outcome[r] THEN 1 ELSE 0)
      BY <1>3, <2>1, <2>2, CountedOnce
    <2>4. pc[r] \notin RecordedAt /\ pc'[r] \in RecordedAt
      BY <2>1 DEF RecordedAt
    <2>5. QED
      BY <1>1, <1>2, <2>1, <2>3, <2>4
  <1>5. CASE Deciding(r)
    <2>1. pc[r] \notin RecordedAt
      BY <1>5 DEF Deciding, Waiting, RecordedAt
    <2>2. pc'[r] \in RecordedAt => outcome'[r] # o
      BY <1>5 DEF Deciding, RecordedAt, Outcomes
    <2>3. requests' = requests
      BY <1>5 DEF Deciding
    <2>4. QED
      BY <1>1, <1>2, <2>1, <2>2, <2>3
  <1>6. CASE RecordInputTokens(r) \/ ObserveLatency(r) \/ Gate(r) \/ Exported(r)
    <2>1. pc[r] \in RecordedAt /\ pc'[r] \in RecordedAt
      BY <1>3, <1>6 DEF RecordInputTokens, ObserveLatency, Gate, Exported, RecordedAt, AfterSpend
    <2>2. UNCHANGED <<asked, outcome, requests>>
      BY <1>6 DEF RecordInputTokens, ObserveLatency, Gate, Exported, counters
    <2>3. QED
      BY <1>1, <1>2, <2>1, <2>2
  <1>7. QED
    BY <1>4, <1>5, <1>6

LEMMA TokensStep ==
  ASSUME TypeInv, Placed, TokensCounted, NEW r \in Requests, OthersStay(r),
         \/ Deciding(r)
         \/ RecordRequest(r) \/ RecordInputTokens(r) \/ ObserveLatency(r) \/ Gate(r)
         \/ Exported(r)
  PROVE  TokensCounted'
  <1> SUFFICES ASSUME NEW m \in Labels, NEW o \in Outcomes
               PROVE  tokens'[m][o] = Cardinality(OfOutcome(m, o, SpentAt)')
    BY DEF TokensCounted, OfOutcome, SpentAt, RecordedAt, Labels, Outcomes
  <1> USE DEF Goto
  <1>1. /\ Cardinality(OfOutcome(m, o, SpentAt)) \in Nat
        /\ Cardinality(OfOutcome(m, o, SpentAt)') =
             Cardinality(OfOutcome(m, o, SpentAt))
               + (IF asked'[r].label = m /\ outcome'[r] = o /\ pc'[r] \in SpentAt THEN 1 ELSE 0)
               - (IF asked[r].label = m /\ outcome[r] = o /\ pc[r] \in SpentAt THEN 1 ELSE 0)
    BY OutcomeMoves
  <1>2. tokens[m][o] = Cardinality(OfOutcome(m, o, SpentAt))
    BY DEF TokensCounted
  <1>3. pc \in [Requests -> Locations] /\ tokens \in [Labels -> [Outcomes -> Nat]]
    BY DEF TypeInv, ProgressTyped, CountersTyped
  <1>4. CASE RecordInputTokens(r)
    <2>1. /\ tokens' = [tokens EXCEPT ![asked[r].label][outcome[r]] = @ + 1]
          /\ pc[r] = "spend" /\ pc'[r] = AfterSpend(r) /\ UNCHANGED <<asked, outcome>>
      BY <1>3, <1>4 DEF RecordInputTokens
    <2>2. asked[r].label \in Labels /\ outcome[r] \in Outcomes
      BY <2>1 DEF TypeInv, ProgressTyped, Decided, Undecided
    <2>3. tokens'[m][o] =
            tokens[m][o] + (IF m = asked[r].label /\ o = outcome[r] THEN 1 ELSE 0)
      BY <1>3, <2>1, <2>2, CountedOnce
    <2>4. pc[r] \notin SpentAt /\ pc'[r] \in SpentAt
      BY <2>1 DEF SpentAt, RecordedAt, AfterSpend
    <2>5. QED
      BY <1>1, <1>2, <2>1, <2>3, <2>4
  <1>5. CASE Deciding(r)
    <2>1. pc[r] \notin SpentAt
      BY <1>5 DEF Deciding, Waiting, SpentAt, RecordedAt
    <2>2. pc'[r] \in SpentAt => outcome'[r] # o
      BY <1>5 DEF Deciding, SpentAt, RecordedAt, Outcomes
    <2>3. tokens' = tokens
      BY <1>5 DEF Deciding
    <2>4. QED
      BY <1>1, <1>2, <2>1, <2>2, <2>3
  <1>6. CASE RecordRequest(r)
    <2>1. pc[r] \notin SpentAt /\ pc'[r] \notin SpentAt
      BY <1>3, <1>6 DEF RecordRequest, SpentAt, RecordedAt
    <2>2. tokens' = tokens
      BY <1>6 DEF RecordRequest
    <2>3. QED
      BY <1>1, <1>2, <2>1, <2>2
  <1>7. CASE ObserveLatency(r) \/ Gate(r) \/ Exported(r)
    <2>1. pc[r] \in SpentAt /\ pc'[r] \in SpentAt
      BY <1>3, <1>7 DEF ObserveLatency, Gate, Exported, SpentAt, RecordedAt
    <2>2. UNCHANGED <<asked, outcome, tokens>>
      BY <1>7 DEF ObserveLatency, Gate, Exported, counters
    <2>3. QED
      BY <1>1, <1>2, <2>1, <2>2
  <1>8. QED
    BY <1>4, <1>5, <1>6, <1>7

(* A count over the requests moves with the one whose handler takes a step.*)
LEMMA MembersMove ==
  ASSUME NEW r \in Requests, NEW S \in SUBSET Requests, NEW T \in SUBSET Requests,
         \A q \in Requests \ {r} : q \in T <=> q \in S
  PROVE  /\ Cardinality(S) \in Nat /\ Cardinality(T) \in Nat
         /\ Cardinality(T) = Cardinality(S) + (IF r \in T THEN 1 ELSE 0)
                                            - (IF r \in S THEN 1 ELSE 0)
  BY CountMoved, TelemetryAssumption

LEMMA AnsweredMoves ==
  ASSUME NEW r \in Requests, OthersStay(r), NEW m, NEW x
  PROVE  /\ Cardinality(Answered(m)) \in Nat /\ Cardinality(Within(m, x)) \in Nat
         /\ Cardinality(Answered(m)') = Cardinality(Answered(m))
              + (IF r \in Answered(m)' THEN 1 ELSE 0) - (IF r \in Answered(m) THEN 1 ELSE 0)
         /\ Cardinality(Within(m, x)') = Cardinality(Within(m, x))
              + (IF r \in Within(m, x)' THEN 1 ELSE 0) - (IF r \in Within(m, x) THEN 1 ELSE 0)
  <1>1. /\ Answered(m) \in SUBSET Requests /\ Answered(m)' \in SUBSET Requests
        /\ \A q \in Requests \ {r} : q \in Answered(m)' <=> q \in Answered(m)
    BY DEF OthersStay, Answered
  <1>2. /\ Within(m, x) \in SUBSET Requests /\ Within(m, x)' \in SUBSET Requests
        /\ \A q \in Requests \ {r} : q \in Within(m, x)' <=> q \in Within(m, x)
    BY <1>1 DEF OthersStay, Within
  <1>3. QED
    BY <1>1, <1>2, MembersMove

LEMMA ServedStep ==
  ASSUME TypeInv, Placed, ServedCounted, NEW r \in Requests, OthersStay(r),
         \/ Deciding(r)
         \/ RecordRequest(r) \/ RecordInputTokens(r) \/ ObserveLatency(r) \/ Gate(r)
         \/ Exported(r)
  PROVE  ServedCounted'
  <1> SUFFICES ASSUME NEW m \in Labels
               PROVE  /\ served'[m].count = Cardinality(Answered(m)')
                      /\ \A b \in Bounds :
                           served'[m].buckets[b] = Cardinality(Within(m, b)')
    BY DEF ServedCounted, Answered, Within, Labels
  <1> USE DEF Goto
  <1>1. /\ Cardinality(Answered(m)) \in Nat
        /\ Cardinality(Answered(m)') = Cardinality(Answered(m))
             + (IF r \in Answered(m)' THEN 1 ELSE 0) - (IF r \in Answered(m) THEN 1 ELSE 0)
        /\ served[m].count = Cardinality(Answered(m))
    BY AnsweredMoves DEF ServedCounted
  <1>2. ASSUME NEW b \in Bounds
        PROVE  /\ Cardinality(Within(m, b)) \in Nat
               /\ Cardinality(Within(m, b)') = Cardinality(Within(m, b))
                    + (IF r \in Within(m, b)' THEN 1 ELSE 0)
                    - (IF r \in Within(m, b) THEN 1 ELSE 0)
               /\ served[m].buckets[b] = Cardinality(Within(m, b))
    BY AnsweredMoves DEF ServedCounted
  <1>3. /\ pc \in [Requests -> Locations] /\ served \in [Labels -> Histogram]
        /\ latency[r] \in Nat /\ asked[r].label \in Labels
    BY DEF TypeInv, ProgressTyped, HistogramsTyped
  <1>4. /\ \A b \in Bounds : r \in Within(m, b) <=> r \in Answered(m) /\ latency[r] <= b
        /\ \A b \in Bounds : r \in Within(m, b)' <=> r \in Answered(m)' /\ latency'[r] <= b
    BY DEF Within
  <1>5. CASE ObserveLatency(r)
    <2>1. /\ served' = [served EXCEPT ![asked[r].label] = Observed(@, latency[r])]
          /\ pc[r] = "observe" /\ pc'[r] = "file" /\ UNCHANGED <<asked, outcome, latency>>
          /\ outcome[r] = "allowed"
      BY <1>3, <1>5 DEF ObserveLatency, Placed
    <2>2. r \notin Answered(m) /\ (r \in Answered(m)' <=> asked[r].label = m)
      BY <2>1 DEF Answered
    <2>3. CASE asked[r].label = m
      <3>1. served'[m] = Observed(served[m], latency[r])
        BY <1>3, <2>1, <2>3
      <3>2. /\ served'[m].count = served[m].count + 1
            /\ \A b \in Bounds :
                 served'[m].buckets[b]
                   = served[m].buckets[b] + (IF latency[r] <= b THEN 1 ELSE 0)
        BY <3>1 DEF Observed
      <3>3. QED
        BY <1>1, <1>2, <1>4, <2>1, <2>2, <2>3, <3>2
    <2>4. CASE asked[r].label # m
      <3>1. served'[m] = served[m]
        BY <1>3, <2>1, <2>4
      <3>2. QED
        BY <1>1, <1>2, <1>4, <2>2, <2>4, <3>1
    <2>5. QED
      BY <2>3, <2>4
  <1>6. CASE Deciding(r) \/ RecordRequest(r) \/ RecordInputTokens(r) \/ Gate(r)
    <2>1. served' = served
      BY <1>6 DEF Deciding, RecordRequest, RecordInputTokens, Gate
    <2>2. r \notin Answered(m)
      BY <1>6 DEF Deciding, RecordRequest, RecordInputTokens, Gate, Answered, Waiting
    <2>3. r \notin Answered(m)'
      <3>1. CASE Deciding(r)
        BY <3>1 DEF Deciding, Answered
      <3>2. CASE RecordRequest(r)
        BY <1>3, <3>2 DEF RecordRequest, Answered
      <3>3. CASE RecordInputTokens(r)
        BY <1>3, <3>3 DEF RecordInputTokens, AfterSpend, Answered
      <3>4. CASE Gate(r)
        BY <3>4 DEF Gate, Placed, Answered
      <3>5. QED
        BY <1>6, <3>1, <3>2, <3>3, <3>4
    <2>4. QED
      BY <1>1, <1>2, <1>4, <2>1, <2>2, <2>3
  <1>7. CASE Exported(r)
    <2>1. served' = served /\ latency' = latency
      BY <1>7 DEF Exported
    <2>2. r \in Answered(m)' <=> r \in Answered(m)
      BY <1>7 DEF Exported, Answered
    <2>3. QED
      BY <1>1, <1>2, <1>4, <2>1, <2>2
  <1>8. QED
    BY <1>5, <1>6, <1>7

LEMMA AuthStep ==
  ASSUME TypeInv, AuthCounted, NEW r \in Requests, OthersStay(r),
         Admission(r) \/ Recording(r) \/ Exporting(r)
  PROVE  AuthCounted'
  <1> USE DEF Goto
  <1>1. /\ Arrived \in SUBSET Requests /\ Arrived' \in SUBSET Requests
        /\ \A q \in Requests \ {r} : q \in Arrived' <=> q \in Arrived
    BY DEF Arrived, OthersStay
  <1>2. /\ Cardinality(Arrived) \in Nat
        /\ Cardinality(Arrived') = Cardinality(Arrived)
             + (IF r \in Arrived' THEN 1 ELSE 0) - (IF r \in Arrived THEN 1 ELSE 0)
    BY <1>1, MembersMove
  <1>3. pc \in [Requests -> Locations] /\ auth \in [{"accepted", "failed"} -> Nat]
    BY DEF TypeInv, ProgressTyped, CountersTyped
  <1>4. CASE RecordAuth(r)
    <2>1. PICK known \in BOOLEAN :
            auth' = [auth EXCEPT ![IF known THEN "accepted" ELSE "failed"] = @ + 1]
      BY <1>4 DEF RecordAuth
    <2>2. auth'["accepted"] + auth'["failed"] = auth["accepted"] + auth["failed"] + 1
      BY <1>3, <2>1
    <2>3. r \notin Arrived /\ r \in Arrived'
      BY <1>3, <1>4 DEF RecordAuth, Arrived
    <2>4. QED
      BY <1>2, <2>2, <2>3 DEF AuthCounted
  <1>5. CASE ~ RecordAuth(r)
    <2>1. auth' = auth
      BY <1>5 DEF Admission, CheckRequests, CheckTokens, Check, CallBackend, AdmissionRaises,
         Recording, RecordRequest, RecordInputTokens, ObserveLatency, Gate,
         Exporting, WriteFile, Post, PostFails, PostRaises, limits
    <2>2. pc[r] # "new" /\ pc'[r] # "new"
      <3>1. CASE Admission(r)
        BY <1>3, <1>5, <3>1
           DEF Admission, CheckRequests, CheckTokens, Check, CallBackend, AdmissionRaises
      <3>2. CASE Recording(r)
        BY <1>3, <3>2
           DEF Recording, RecordRequest, RecordInputTokens, ObserveLatency, Gate, AfterSpend
      <3>3. CASE Exporting(r)
        BY <1>3, <3>3 DEF Exporting, WriteFile, Post, PostFails, PostRaises
      <3>4. QED
        BY <3>1, <3>2, <3>3
    <2>3. QED
      BY <1>2, <2>1, <2>2 DEF AuthCounted, Arrived
  <1>6. QED
    BY <1>4, <1>5

LEMMA ChecksStep ==
  ASSUME TypeInv, Placed, ChecksCounted, NEW r \in Requests, OthersStay(r),
         Admission(r) \/ Recording(r) \/ Exporting(r)
  PROVE  ChecksCounted'
  <1> USE DEF Goto
  <1>1. /\ CheckedOnce \in SUBSET Requests /\ CheckedOnce' \in SUBSET Requests
        /\ \A q \in Requests \ {r} : q \in CheckedOnce' <=> q \in CheckedOnce
    BY DEF CheckedOnce, OthersStay
  <1>2. /\ CheckedTwice \in SUBSET Requests /\ CheckedTwice' \in SUBSET Requests
        /\ \A q \in Requests \ {r} : q \in CheckedTwice' <=> q \in CheckedTwice
    BY DEF CheckedTwice, OthersStay
  <1>3. /\ Cardinality(CheckedOnce) \in Nat /\ Cardinality(CheckedTwice) \in Nat
        /\ Cardinality(CheckedOnce') = Cardinality(CheckedOnce)
             + (IF r \in CheckedOnce' THEN 1 ELSE 0) - (IF r \in CheckedOnce THEN 1 ELSE 0)
        /\ Cardinality(CheckedTwice') = Cardinality(CheckedTwice)
             + (IF r \in CheckedTwice' THEN 1 ELSE 0) - (IF r \in CheckedTwice THEN 1 ELSE 0)
    BY <1>1, <1>2, MembersMove
  <1>4. /\ pc \in [Requests -> Locations] /\ outcome \in [Requests -> Outcomes \cup {"none"}]
        /\ checks \in [{"requests", "input_tokens"} -> Histogram]
    BY DEF TypeInv, ProgressTyped, HistogramsTyped
  <1>5. checks["requests"].count \in Nat /\ checks["input_tokens"].count \in Nat
    BY <1>4 DEF Histogram
  <1>6. ASSUME NEW l \in {"requests", "input_tokens"}, NEW next, Check(r, l, next)
        PROVE  /\ checks'[l].count = checks[l].count + 1
               /\ \A k \in {"requests", "input_tokens"} : k # l => checks'[k] = checks[k]
    BY <1>4, <1>6 DEF Check, Observed
  <1>7. pc[r] \in Waiting => outcome[r] = "none"
    BY DEF Placed
  <1>8. CASE CheckRequests(r)
    <2>1. r \notin CheckedOnce /\ r \notin CheckedTwice /\ r \notin CheckedTwice'
      BY <1>4, <1>7, <1>8 DEF CheckRequests, Check, CheckedOnce, CheckedTwice, Decide, Waiting,
                              Refusal
    <2>2. /\ checks'["requests"].count = checks["requests"].count + 1
          /\ checks'["input_tokens"] = checks["input_tokens"]
      BY <1>6, <1>8 DEF CheckRequests
    <2>3. QED
      BY <1>3, <1>5, <2>1, <2>2 DEF ChecksCounted
  <1>9. CASE CheckTokens(r)
    <2>1. r \in CheckedOnce /\ r \notin CheckedOnce' /\ r \notin CheckedTwice
      BY <1>4, <1>7, <1>9 DEF CheckTokens, Check, CheckedOnce, CheckedTwice, Decide, Waiting,
                              Refusal
    <2>2. /\ checks'["input_tokens"].count = checks["input_tokens"].count + 1
          /\ checks'["requests"] = checks["requests"]
      BY <1>6, <1>9 DEF CheckTokens
    <2>3. QED
      BY <1>3, <1>5, <2>1, <2>2 DEF ChecksCounted
  <1>10. CASE RecordAuth(r) \/ CallBackend(r) \/ AdmissionRaises(r) \/ Recording(r)
                \/ Exporting(r)
    <2>1. checks' = checks
      BY <1>10 DEF RecordAuth, CallBackend, AdmissionRaises, Recording, RecordRequest,
         RecordInputTokens, ObserveLatency, Gate, Exporting, WriteFile, Post, PostFails,
         PostRaises, limits
    <2>2. (r \in CheckedOnce' => r \in CheckedOnce) /\ (r \in CheckedTwice' => r \in CheckedTwice)
      <3>1. CASE RecordAuth(r)
        BY <1>4, <1>7, <3>1 DEF RecordAuth, Decide, CheckedOnce, CheckedTwice, Waiting
      <3>2. CASE CallBackend(r)
        BY <1>4, <3>2 DEF CallBackend, Decide, CheckedOnce, CheckedTwice
      <3>3. CASE AdmissionRaises(r)
        BY <1>4, <3>3 DEF AdmissionRaises, CheckedOnce, CheckedTwice
      <3>4. CASE Recording(r)
        BY <1>4, <3>4 DEF Recording, RecordRequest, RecordInputTokens, ObserveLatency, Gate,
                          AfterSpend, CheckedOnce, CheckedTwice
      <3>5. CASE Exporting(r)
        BY <1>4, <3>5 DEF Exporting, WriteFile, Post, PostFails, PostRaises, CheckedOnce,
                          CheckedTwice
      <3>6. QED
        BY <1>10, <3>1, <3>2, <3>3, <3>4, <3>5
    <2>3. QED
      BY <1>3, <1>5, <2>1, <2>2 DEF ChecksCounted
  <1>11. QED
    BY <1>8, <1>9, <1>10 DEF Admission

LEMMA SuppressedStep ==
  ASSUME TypeInv, FileInv, Placed, SuppressedCounted, NEW r \in Requests, OthersStay(r),
         Admission(r) \/ Recording(r) \/ Exporting(r)
  PROVE  SuppressedCounted'
  <1> USE DEF Goto
  <1>1. /\ DeniedDone \in SUBSET Requests /\ DeniedDone' \in SUBSET Requests
        /\ \A q \in Requests \ {r} : q \in DeniedDone' <=> q \in DeniedDone
    BY DEF DeniedDone, OthersStay
  <1>2. pc \in [Requests -> Locations] /\ suppressed \in Nat
    BY DEF TypeInv, ProgressTyped, CountersTyped
  <1>3. pc[r] # "done" /\ file' \subseteq file \cup {Span(r)} /\ file \subseteq file'
    BY DEF Admission, RecordAuth, CheckRequests, CheckTokens, Check, CallBackend,
       AdmissionRaises, Recording, RecordRequest, RecordInputTokens, ObserveLatency, Gate,
       Exporting, WriteFile, Post, PostFails, PostRaises, exports
  <1>4. ASSUME NEW q \in Requests \ {r} PROVE Span(q)' = Span(q) /\ Span(q) # Span(r)
    BY DEF OthersStay, Span
  <1>5. /\ DoneUnwritten \in SUBSET Requests /\ DoneUnwritten' \in SUBSET Requests
        /\ \A q \in Requests \ {r} : q \in DoneUnwritten' <=> q \in DoneUnwritten
    BY <1>3, <1>4 DEF DoneUnwritten, OthersStay
  <1>6. r \notin DeniedDone /\ r \notin DoneUnwritten
    BY <1>3 DEF DeniedDone, DoneUnwritten
  <1>7. /\ Cardinality(DeniedDone) \in Nat /\ Cardinality(DoneUnwritten) \in Nat
        /\ Cardinality(DeniedDone')
             = Cardinality(DeniedDone) + (IF r \in DeniedDone' THEN 1 ELSE 0)
        /\ Cardinality(DoneUnwritten')
             = Cardinality(DoneUnwritten) + (IF r \in DoneUnwritten' THEN 1 ELSE 0)
    BY <1>1, <1>5, <1>6, MembersMove
  <1>8. CASE suppressed' = suppressed /\ ("file" \in Exporters => r \notin DoneUnwritten')
    BY <1>2, <1>7, <1>8 DEF SuppressedCounted
  <1>9. CASE Gate(r) /\ pc'[r] = "done"
    <2>1. /\ pc[r] = "gate" /\ outcome'[r] = outcome[r] /\ file' = file
          /\ suppressed' = suppressed + 1
      BY <1>2, <1>9 DEF Gate, exports
    <2>2. r \in DeniedDone'
      BY <1>9, <2>1 DEF Placed, DeniedDone
    <2>3. Span(r)' = Span(r)
      BY <2>1 DEF Span
    <2>4. ASSUME "file" \in Exporters PROVE Span(r) \notin file
      BY <2>1, <2>4 DEF FileInv, Span
    <2>5. "file" \in Exporters => r \in DoneUnwritten'
      BY <1>9, <2>1, <2>3, <2>4 DEF DoneUnwritten
    <2>6. QED
      BY <1>2, <1>7, <2>1, <2>2, <2>5 DEF SuppressedCounted
  <1>10. CASE Exporting(r)
    <2>1. suppressed' = suppressed /\ outcome' = outcome
      BY <1>10 DEF Exporting, WriteFile, Post, PostFails, PostRaises
    <2>2. pc'[r] = "done" => pc[r] = "collector"
      BY <1>2, <1>10 DEF Exporting, WriteFile, Post, PostFails, PostRaises
    <2>3. Span(r)' = Span(r)
      BY <2>1 DEF Span
    <2>4. "file" \in Exporters => r \notin DoneUnwritten'
      BY <1>3, <2>2, <2>3 DEF DoneUnwritten, FileInv
    <2>5. QED
      BY <1>8, <2>1, <2>4
  <1>11. CASE Admission(r) \/ RecordRequest(r) \/ RecordInputTokens(r) \/ ObserveLatency(r)
                \/ (Gate(r) /\ pc'[r] # "done")
    <2>1. suppressed' = suppressed
      BY <1>2, <1>11 DEF Admission, RecordAuth, CheckRequests, CheckTokens, Check, CallBackend,
         AdmissionRaises, RecordRequest, RecordInputTokens, ObserveLatency, Gate
    <2>2. pc'[r] # "done"
      BY <1>2, <1>11 DEF Admission, RecordAuth, CheckRequests, CheckTokens, Check, CallBackend,
         AdmissionRaises, RecordRequest, RecordInputTokens, ObserveLatency, AfterSpend
    <2>3. QED
      BY <1>8, <2>1, <2>2 DEF DoneUnwritten
  <1>12. QED
    BY <1>9, <1>10, <1>11 DEF Recording

LEMMA CountInit == Init => CountInv
  <1> SUFFICES ASSUME Init PROVE CountInv
    OBVIOUS
  <1>1. /\ \A r \in Requests : pc[r] = "new" /\ outcome[r] = "none"
        /\ auth["accepted"] = 0 /\ auth["failed"] = 0 /\ suppressed = 0 /\ file = {}
        /\ collector = {}
    BY DEF Init
  <1>2. /\ \A m \in Labels, o \in Outcomes : requests[m][o] = 0 /\ tokens[m][o] = 0
        /\ \A l \in {"requests", "input_tokens"} : checks[l].count = 0
        /\ \A m \in Labels : served[m].count = 0 /\ \A b \in Bounds : served[m].buckets[b] = 0
    BY DEF Init, EmptyHistogram
  <1>3. /\ \A m, o : OfOutcome(m, o, RecordedAt) = {} /\ OfOutcome(m, o, SpentAt) = {}
        /\ \A m : Answered(m) = {} /\ \A b : Within(m, b) = {}
    BY <1>1 DEF OfOutcome, RecordedAt, SpentAt, Answered, Within
  <1>4. /\ Arrived = {} /\ CheckedOnce = {} /\ CheckedTwice = {} /\ DeniedDone = {}
        /\ DoneUnwritten = {}
    BY <1>1 DEF Arrived, CheckedOnce, CheckedTwice, DeniedDone, DoneUnwritten
  <1>5. Cardinality({}) = 0
    BY FS_EmptySet
  <1>6. RequestsCounted /\ TokensCounted /\ ServedCounted
    BY <1>2, <1>3, <1>5 DEF RequestsCounted, TokensCounted, ServedCounted
  <1>7. AuthCounted /\ ChecksCounted /\ SuppressedCounted
    BY <1>1, <1>2, <1>4, <1>5 DEF AuthCounted, ChecksCounted, SuppressedCounted
  <1>8. FileInv /\ Placed
    BY <1>1 DEF FileInv, Placed, Waiting
  <1>9. QED
    BY <1>6, <1>7, <1>8, TypeInit DEF CountInv

LEMMA CountStep == CountInv /\ [Next]_vars => CountInv'
  <1> SUFFICES ASSUME CountInv, [Next]_vars PROVE CountInv'
    OBVIOUS
  <1>1. TypeInv' /\ FileInv'
    BY TypeStep, FileStep DEF CountInv
  <1>2. CASE UNCHANGED vars
    <2>1. UNCHANGED <<pc, asked, outcome, latency, auth, requests, tokens, checks, served,
                      suppressed, file>>
      BY <1>2 DEF vars, progress, limits, counters, exports
    <2>2. Placed' /\ RequestsCounted' /\ TokensCounted' /\ AuthCounted' /\ ChecksCounted'
      BY <2>1 DEF CountInv, Placed, RequestsCounted, TokensCounted, AuthCounted, ChecksCounted,
                  OfOutcome, Arrived, CheckedOnce, CheckedTwice
    <2>3. ServedCounted' /\ SuppressedCounted'
      BY <2>1 DEF CountInv, ServedCounted, SuppressedCounted, Answered, Within, DeniedDone,
                  DoneUnwritten, Span
    <2>4. QED
      BY <1>1, <2>2, <2>3 DEF CountInv
  <1>3. ASSUME NEW r \in Requests, Admission(r) \/ Recording(r) \/ Exporting(r)
        PROVE  CountInv'
    <2>1. /\ OthersStay(r)
          /\ \/ Deciding(r)
             \/ RecordRequest(r) \/ RecordInputTokens(r) \/ ObserveLatency(r) \/ Gate(r)
             \/ Exported(r)
      BY <1>3, StepKinds DEF CountInv
    <2>2. Placed' /\ RequestsCounted' /\ TokensCounted' /\ ServedCounted'
      BY <2>1, PlacedStep, RequestsStep, TokensStep, ServedStep DEF CountInv
    <2>3. AuthCounted' /\ ChecksCounted' /\ SuppressedCounted'
      BY <1>3, <2>1, AuthStep, ChecksStep, SuppressedStep DEF CountInv
    <2>4. QED
      BY <1>1, <2>2, <2>3 DEF CountInv
  <1>4. QED
    BY <1>2, <1>3 DEF Next

-----------------------------------------------------------------------------
LEMMA LabelsFinite == IsFiniteSet(Labels) /\ IsFiniteSet(Outcomes)
  <1>1. IsFiniteSet(Labels)
    BY TelemetryAssumption, FS_AddElement DEF Labels
  <1>2. \A x : IsFiniteSet({x})
    BY FS_Singleton
  <1>3. \A x, y : IsFiniteSet({x} \cup {y})
    BY <1>2, FS_Union
  <1>4. \A x, y, z : IsFiniteSet(({x} \cup {y}) \cup {z})
    BY <1>2, <1>3, FS_Union
  <1>5. Outcomes = (({"policy_denied"} \cup {"rate_limited"}) \cup {"token_budget_limited"})
                     \cup ({"backend_error"} \cup {"allowed"})
    BY DEF Outcomes
  <1>6. QED
    BY <1>1, <1>3, <1>4, <1>5, FS_Union

Recorded(O) == {r \in Requests : outcome[r] \in O /\ pc[r] \in RecordedAt}

(* The counter of requests, summed over labels and outcomes, is a number   *)
(* of requests.                                                            *)
LEMMA RequestsWithIs ==
  ASSUME TypeInv, RequestsCounted, NEW O \in SUBSET Outcomes
  PROVE  RequestsWith(O) = Cardinality(Recorded(O))
  <1> DEFINE perLabel == [m \in Labels |-> SumFunctionOnSet(requests[m], O)]
             label == [r \in Requests |-> asked[r].label]
  <1>1. IsFiniteSet(Requests) /\ IsFiniteSet(O) /\ IsFiniteSet(Labels)
    BY LabelsFinite, FS_Subset, TelemetryAssumption
  <1>2. ASSUME NEW m \in Labels
        PROVE  perLabel[m] = Cardinality({r \in Recorded(O) : label[r] = m})
    <2> DEFINE R == {r \in Requests : asked[r].label = m /\ pc[r] \in RecordedAt}
    <2>1. IsFiniteSet(R)
      BY <1>1, FS_Subset
    <2>2. ASSUME NEW o \in O
          PROVE  requests[m][o] = Cardinality({r \in R : outcome[r] = o})
      <3>1. {r \in R : outcome[r] = o} = OfOutcome(m, o, RecordedAt)
        BY DEF OfOutcome
      <3>2. QED
        BY <3>1 DEF RequestsCounted
    <2>3. {r \in R : outcome[r] \in O} = {r \in Recorded(O) : label[r] = m}
      BY DEF Recorded
    <2> HIDE DEF R
    <2>4. SumFunctionOnSet(requests[m], O) = Cardinality({r \in R : outcome[r] \in O})
      BY <1>1, <2>1, <2>2, SumFibers
    <2>5. QED
      BY <2>3, <2>4
  <1>3. IsFiniteSet(Recorded(O))
    BY <1>1, FS_Subset DEF Recorded
  <1>4. {r \in Recorded(O) : label[r] \in Labels} = Recorded(O)
    BY DEF Recorded, TypeInv, ProgressTyped
  <1>5. RequestsWith(O) = SumFunctionOnSet(perLabel, Labels)
    BY DEF RequestsWith
  <1> DEFINE R == Recorded(O)
  <1> HIDE DEF perLabel, label, R
  <1>6. /\ IsFiniteSet(R) /\ IsFiniteSet(Labels)
        /\ \A x \in Labels : perLabel[x] = Cardinality({r \in R : label[r] = x})
    BY <1>1, <1>2, <1>3 DEF R
  <1>7. SumFunctionOnSet(perLabel, Labels) = Cardinality({r \in R : label[r] \in Labels})
    <2>1. PICK h, f, Q, S : h = perLabel /\ f = label /\ Q = R /\ S = Labels
      OBVIOUS
    <2>2. /\ IsFiniteSet(Q) /\ IsFiniteSet(S)
          /\ \A x \in S : h[x] = Cardinality({r \in Q : f[r] = x})
      BY <1>6, <2>1
    <2>3. SumFunctionOnSet(h, S) = Cardinality({r \in Q : f[r] \in S})
      BY <2>2, SumFibers
    <2>4. QED
      BY <2>1, <2>3
  <1>8. QED
    BY <1>4, <1>5, <1>7 DEF R

LEMMA Fewer ==
  ASSUME NEW S \in SUBSET Requests, NEW T \in SUBSET S
  PROVE  /\ Cardinality(S) \in Nat /\ Cardinality(T) \in Nat
         /\ Cardinality(T) <= Cardinality(S)
  <1>1. IsFiniteSet(S) /\ IsFiniteSet(T)
    BY FS_Subset, TelemetryAssumption
  <1>2. QED
    BY <1>1, FS_Subset, FS_CardinalityType

LEMMA CausesFirst == CountInv => NoEffectWithoutCause
  <1> SUFFICES ASSUME CountInv PROVE NoEffectWithoutCause
    OBVIOUS
  <1> DEFINE Checked == {"token_budget_limited", "backend_error", "allowed"}
  <1>1. /\ RequestsWith(Outcomes) = Cardinality(Recorded(Outcomes))
        /\ RequestsWith({"policy_denied"}) = Cardinality(Recorded({"policy_denied"}))
        /\ RequestsWith({"rate_limited"}) = Cardinality(Recorded({"rate_limited"}))
        /\ RequestsWith(Checked) = Cardinality(Recorded(Checked))
    BY RequestsWithIs DEF CountInv, Outcomes
  <1>2. /\ Arrived \in SUBSET Requests /\ Recorded(Outcomes) \in SUBSET Arrived
        /\ Recorded({"policy_denied"}) \in SUBSET Requests
        /\ DeniedDone \in SUBSET Recorded({"policy_denied"})
    BY DEF Arrived, Recorded, RecordedAt, DeniedDone
  <1>3. /\ CheckedOnce \in SUBSET Requests /\ Recorded({"rate_limited"}) \in SUBSET CheckedOnce
        /\ CheckedTwice \in SUBSET Requests /\ Recorded(Checked) \in SUBSET CheckedTwice
    BY DEF CheckedOnce, CheckedTwice, Recorded
  <1>4. /\ Cardinality(Recorded(Outcomes)) <= Cardinality(Arrived)
        /\ Cardinality(DeniedDone) <= Cardinality(Recorded({"policy_denied"}))
        /\ Cardinality(Recorded({"rate_limited"})) <= Cardinality(CheckedOnce)
        /\ Cardinality(Recorded(Checked)) <= Cardinality(CheckedTwice)
    BY <1>2, <1>3, Fewer
  <1>5. /\ Cardinality(Arrived) \in Nat /\ Cardinality(Recorded(Outcomes)) \in Nat
        /\ Cardinality(DeniedDone) \in Nat /\ Cardinality(Recorded({"policy_denied"})) \in Nat
        /\ Cardinality(CheckedOnce) \in Nat /\ Cardinality(Recorded({"rate_limited"})) \in Nat
        /\ Cardinality(CheckedTwice) \in Nat /\ Cardinality(Recorded(Checked)) \in Nat
    BY <1>2, <1>3, Fewer
  <1>6. /\ checks["requests"].count \in Nat /\ checks["input_tokens"].count \in Nat
        /\ suppressed \in Nat
    BY DEF CountInv, TypeInv, HistogramsTyped, CountersTyped, Histogram
  <1>7. ASSUME NEW m \in Labels, NEW o \in Outcomes PROVE tokens[m][o] <= requests[m][o]
    <2>1. /\ OfOutcome(m, o, RecordedAt) \in SUBSET Requests
          /\ OfOutcome(m, o, SpentAt) \in SUBSET OfOutcome(m, o, RecordedAt)
      BY DEF OfOutcome, SpentAt
    <2>2. QED
      BY <2>1, Fewer DEF CountInv, RequestsCounted, TokensCounted
  <1>8. ASSUME NEW m \in Labels PROVE served[m].count <= requests[m]["allowed"]
    <2>1. /\ OfOutcome(m, "allowed", RecordedAt) \in SUBSET Requests
          /\ Answered(m) \in SUBSET OfOutcome(m, "allowed", RecordedAt)
      BY DEF OfOutcome, RecordedAt, Answered
    <2>2. QED
      BY <2>1, Fewer DEF CountInv, RequestsCounted, ServedCounted, Outcomes
  <1> HIDE DEF Checked
  <1>9. /\ RequestsWith(Outcomes) <= auth["accepted"] + auth["failed"]
        /\ suppressed <= RequestsWith({"policy_denied"})
    BY <1>1, <1>4, <1>5, <1>6 DEF CountInv, AuthCounted, SuppressedCounted
  <1>10. /\ RequestsWith({"rate_limited"}) + checks["input_tokens"].count
              <= checks["requests"].count
         /\ RequestsWith(Checked) <= checks["input_tokens"].count
    BY <1>1, <1>4, <1>5, <1>6 DEF CountInv, ChecksCounted
  <1>11. QED
    BY <1>7, <1>8, <1>9, <1>10 DEF NoEffectWithoutCause, Checked

(* A scrape never shows an effect without its cause, whatever the labels   *)
(* and however the handlers interleave (app.py:181-364, 726-744).          *)
THEOREM EffectsHaveCauses == Spec => []NoEffectWithoutCause
  BY CountInit, CountStep, CausesFirst, PTL DEF Spec

(* As many spans in the file as requests whose span is there.              *)
LEMMA SpansOfRequests ==
  ASSUME TypeInv, FileInv, "file" \in Exporters
  PROVE  /\ IsFiniteSet({r \in Requests : Span(r) \in file})
         /\ Cardinality(file) = Cardinality({r \in Requests : Span(r) \in file})
  <1> DEFINE W == {r \in Requests : Span(r) \in file}
             f == [r \in W |-> Span(r)]
  <1>1. IsFiniteSet(W)
    BY FS_Subset, TelemetryAssumption
  <1>2. \A r \in Requests : Span(r).request = r
    BY DEF Span
  <1>3. \A s \in file : s.request \in W /\ s = f[s.request]
    BY DEF FileInv
  <1>4. f \in [W -> file]
    OBVIOUS
  <1>5. \A a, b \in W : f[a] = f[b] => a = b
    BY <1>2
  <1> HIDE DEF f, W
  <1>6. f \in Bijection(W, file)
    BY <1>3, <1>4, <1>5 DEF Bijection, Injection, IsInjective, Surjection
  <1>7. QED
    BY <1>1, <1>6, FS_Bijection DEF ExistsBijection, W

LEMMA QuietReconciles == CountInv => QuietScrapeReconciles
  <1> SUFFICES ASSUME CountInv, Quiet
               PROVE  /\ tokens = requests
                      /\ \A m \in Labels : served[m].count = requests[m]["allowed"]
                      /\ "file" \in Exporters =>
                           Cardinality(file) + suppressed = RequestsWith(Outcomes)
    BY DEF QuietScrapeReconciles
  <1>1. \A m, o : OfOutcome(m, o, RecordedAt) = OfOutcome(m, o, SpentAt)
    BY DEF Quiet, OfOutcome, SpentAt, RecordedAt
  <1>2. tokens = requests
    <2>1. tokens \in [Labels -> [Outcomes -> Nat]] /\ requests \in [Labels -> [Outcomes -> Nat]]
      BY DEF CountInv, TypeInv, CountersTyped
    <2>2. \A m \in Labels, o \in Outcomes : tokens[m][o] = requests[m][o]
      BY <1>1 DEF CountInv, RequestsCounted, TokensCounted
    <2>3. \A m \in Labels : tokens[m] = requests[m]
      BY <2>1, <2>2
    <2>4. QED
      BY <2>1, <2>3
  <1>3. ASSUME NEW m \in Labels PROVE served[m].count = requests[m]["allowed"]
    <2>1. Answered(m) = OfOutcome(m, "allowed", RecordedAt)
      BY DEF Quiet, Answered, OfOutcome, RecordedAt
    <2>2. QED
      BY <2>1 DEF CountInv, ServedCounted, RequestsCounted, Outcomes
  <1>4. ASSUME "file" \in Exporters
        PROVE  Cardinality(file) + suppressed = RequestsWith(Outcomes)
    <2> DEFINE W == {r \in Requests : Span(r) \in file}
    <2>1. IsFiniteSet(W) /\ Cardinality(file) = Cardinality(W)
      BY <1>4, SpansOfRequests DEF CountInv
    <2>2. \A r \in W : pc[r] = "done"
      BY <1>4 DEF CountInv, FileInv, Quiet, Span
    <2>3. \A r \in Requests : pc[r] = "done" => outcome[r] \in Outcomes
      BY DEF CountInv, TypeInv, Decided, Undecided
    <2>4. /\ Recorded(Outcomes) = W \cup DoneUnwritten
          /\ W \cap DoneUnwritten = {}
      BY <2>2, <2>3 DEF Quiet, Recorded, RecordedAt, DoneUnwritten
    <2> HIDE DEF W
    <2>5. IsFiniteSet(DoneUnwritten) /\ Cardinality(DoneUnwritten) \in Nat
      BY RequestsFinite DEF DoneUnwritten
    <2>6. Cardinality(W) \in Nat
      BY <2>1, FS_CardinalityType
    <2>7. Cardinality(W \cup DoneUnwritten)
            = Cardinality(W) + Cardinality(DoneUnwritten) - Cardinality(W \cap DoneUnwritten)
      BY <2>1, <2>5, FS_Union
    <2>8. Cardinality(Recorded(Outcomes)) = Cardinality(W) + Cardinality(DoneUnwritten)
      BY <2>4, <2>5, <2>6, <2>7, FS_EmptySet
    <2>9. QED
      BY <1>4, <2>1, <2>5, <2>6, <2>8, RequestsWithIs DEF CountInv, SuppressedCounted
  <1>5. QED
    BY <1>2, <1>3, <1>4

(* Once no handler is under way and none was ended by an error, metrics    *)
(* and file agree (app.py:181-364, trace_exporter.py:66-78).               *)
THEOREM QuietScrapesReconcile == Spec => []QuietScrapeReconciles
  BY CountInit, CountStep, QuietReconciles, PTL DEF Spec

-----------------------------------------------------------------------------
(* The rank is the least number that is 95 percent or more.                *)
LEMMA TargetIsLeast ==
  ASSUME NEW c \in Nat, c # 0, NEW w \in Nat
  PROVE  w >= Target(c) <=> 100 * w >= 95 * c
  <1> DEFINE q == (95 * c + 99) \div 100
  <1>1. q \in Int /\ 100 * q <= 95 * c + 99 /\ 95 * c < 100 * q + 1
    OBVIOUS
  <1>2. Target(c) = Max({1, q})
    BY DEF Target
  <1> HIDE DEF q
  <1>3. q >= 1
    BY <1>1
  <1>4. Max({1, q}) = q
    BY <1>1, <1>3 DEF Max
  <1>5. QED
    BY <1>1, <1>2, <1>4

LEMMA TailBounded == CountInv => TailIsBounded
  <1> SUFFICES ASSUME CountInv, NEW m \in Labels, Answered(m) # {}
               PROVE  /\ TailBound(served[m]) # Beyond =>
                           100 * Cardinality(Within(m, TailBound(served[m])))
                             >= 95 * Cardinality(Answered(m))
                      /\ \A b \in Bounds :
                           (TailBound(served[m]) = Beyond \/ b < TailBound(served[m])) =>
                             ~ (100 * Cardinality(Within(m, b)) >= 95 * Cardinality(Answered(m)))
    BY DEF TailIsBounded
  <1> DEFINE c == Cardinality(Answered(m))
             Holding == {b \in Bounds : served[m].buckets[b] >= Target(served[m].count)}
             Holds95(x) == 100 * Cardinality(Within(m, x)) >= 95 * c
  <1>1. Answered(m) \in SUBSET Requests /\ \A x : Within(m, x) \in SUBSET Requests
    BY DEF Answered, Within
  <1>2. c \in Nat /\ c # 0 /\ \A x : Cardinality(Within(m, x)) \in Nat
    BY <1>1, RequestsFinite, FS_EmptySet
  <1>3. served[m].count = c
    BY DEF CountInv, ServedCounted
  <1>4. \A b \in Bounds : b \in Holding <=> Holds95(b)
    BY <1>2, <1>3, TargetIsLeast DEF CountInv, ServedCounted
  <1>5. TailBound(served[m]) = IF Holding = {} THEN Beyond ELSE Min(Holding)
    BY <1>2, <1>3 DEF TailBound
  <1>6. Holding \subseteq Bounds /\ IsFiniteSet(Bounds) /\ \A b \in Bounds : b \in Nat
    BY TelemetryAssumption
  <1> HIDE DEF Holding, Holds95
  <1>7. CASE Holding = {}
    BY <1>4, <1>5, <1>7 DEF Holds95
  <1>8. CASE Holding # {}
    <2>0. Holding \in SUBSET Int /\ IsFiniteSet(Holding)
      BY <1>6, FS_Subset
    <2>1. \E x \in Holding : \A y \in Holding : x <= y
      BY <1>8, <2>0, FiniteMin
    <2>2. Min(Holding) \in Holding /\ \A y \in Holding : Min(Holding) <= y
      BY <2>1 DEF Min
    <2> DEFINE low == Min(Holding)
    <2> HIDE DEF low
    <2>3. low \in Holding /\ (\A y \in Holding : low <= y) /\ TailBound(served[m]) = low
      BY <1>5, <1>8, <2>2 DEF low
    <2>7. low \in Bounds /\ low \in Nat
      BY <1>6, <2>3
    <2>8. low # Beyond
      BY <2>7 DEF Beyond
    <2>4. Holds95(low)
      BY <1>4, <2>3, <2>7
    <2>5. ASSUME NEW b \in Bounds, b < low PROVE ~ Holds95(b)
      <3>1. b \notin Holding
        BY <1>6, <2>3, <2>5, <2>7
      <3>2. QED
        BY <1>4, <3>1
    <2>6. QED
      BY <2>3, <2>4, <2>5, <2>8 DEF Holds95
  <1>9. QED
    BY <1>7, <1>8

(* The snapshot's p95 is an upper bound of 95 percent of the latencies and *)
(* the tightest the buckets give, for any bounds                           *)
(* (telemetry_snapshot.py:209-225).                                        *)
THEOREM TailsAreBounded == Spec => []TailIsBounded
  BY CountInit, CountStep, TailBounded, PTL DEF Spec
=============================================================================
