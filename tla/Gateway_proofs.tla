--------------------------- MODULE Gateway_proofs ---------------------------
(***************************************************************************)
(* Theorems about Gateway and BackendLoad, for any requests, callers,      *)
(* models, limits, faults and restarts.                                    *)
(***************************************************************************)
EXTENDS BackendLoad, SumTheorems

(* A handler that is about to count, gate, write, export or reply has come *)
(* to an outcome; the type of the audit log rests on it.                   *)
Undecided == {"new", "authorize", "rate", "tokens", "backend", "stream"}

Decided == {"count", "gate", "audit", "trace", "reply"}

OutcomeKnown == \A r \in Requests : pc[r] \in Decided => outcome[r] \in Outcomes

HandlersTyped ==
  /\ pc \in [Requests -> Locations]
  /\ request \in [Requests -> Call]
  /\ outcome \in [Requests -> Outcomes \cup {"none"}]
  /\ status \in [Requests -> Statuses]

BudgetsTyped ==
  /\ rateTaken \in [Keys -> SUBSET Requests]
  /\ tokenTaken \in [Keys -> SUBSET Requests]
  /\ denialTaken \in SUBSET Requests

TelemetryTyped == counted \in SUBSET Requests /\ suppressed \in Nat

FilesTyped == auditLog \in [Requests -> Seq(AuditEvent)] /\ spans \in [Requests -> Seq(Outcomes)]

(* The type invariant by the variables that steps change together.         *)
TypeInv ==
  HandlersTyped /\ OutcomeKnown /\ BudgetsTyped /\ TelemetryTyped /\ FilesTyped /\ crashes \in Nat

LEMMA TypeParts == TypeInv => TypeOK
  BY DEF TypeInv, TypeOK, HandlersTyped, BudgetsTyped, TelemetryTyped, FilesTyped

LEMMA TypeInit == Init => TypeInv
  BY GatewayAssumption
  DEF Init, TypeInv, HandlersTyped, OutcomeKnown, BudgetsTyped, TelemetryTyped, FilesTyped,
      Locations, Statuses, Answers, NoRequest, Call, Routes, Decided

(* A handler's step keeps the types of the handlers' variables when it     *)
(* goes to a location, with an outcome and a status, that have them.       *)
LEMMA HandlerStep ==
  ASSUME HandlersTyped, OutcomeKnown, NEW r \in Requests, UNCHANGED request,
         NEW l \in Locations, pc' = [pc EXCEPT ![r] = l],
         NEW o \in Outcomes \cup {"none"}, outcome' = [outcome EXCEPT ![r] = o],
         NEW s \in Statuses, status' = [status EXCEPT ![r] = s],
         l \in Decided => o \in Outcomes
  PROVE  HandlersTyped' /\ OutcomeKnown'
  BY DEF HandlersTyped, OutcomeKnown

(* The same when the outcome stays, or the status.                         *)
LEMMA HandlerMoves ==
  ASSUME HandlersTyped, OutcomeKnown, NEW r \in Requests, UNCHANGED request,
         NEW l \in Locations, pc' = [pc EXCEPT ![r] = l],
         \/ UNCHANGED outcome /\ (l \in Decided => outcome[r] \in Outcomes)
         \/ \E o \in Outcomes : outcome' = [outcome EXCEPT ![r] = o],
         UNCHANGED status \/ \E s \in Statuses : status' = [status EXCEPT ![r] = s]
  PROVE  HandlersTyped' /\ OutcomeKnown'
  <1>1. PICK o \in Outcomes \cup {"none"} :
          outcome' = [outcome EXCEPT ![r] = o] /\ (l \in Decided => o \in Outcomes)
    BY DEF HandlersTyped
  <1>2. PICK s \in Statuses : status' = [status EXCEPT ![r] = s]
    BY DEF HandlersTyped
  <1>3. QED
    BY <1>1, <1>2, HandlerStep

LEMMA Names ==
  /\ {"policy_denied", "rate_limited", "token_budget_limited", "allowed", "backend_error"} = Outcomes
  /\ {"streaming", "failed", "gone", "lost", "200", "403", "429", "502", "cut"} \subseteq Statuses
  /\ Undecided \cup Decided \cup {"done"} = Locations
  /\ "done" \notin Decided
  BY DEF Outcomes, DeniedOutcomes, Statuses, Answers, Locations, Undecided, Decided

LEMMA AdmissionTyped ==
  ASSUME TypeInv, NEW r \in Requests, Admission(r) PROVE TypeInv'
  <1> USE Names DEF TypeInv, Goto, Decide, Settle, budgets, telemetry, files
  <1>1. CASE Authorize(r)
    <2>1. HandlersTyped' /\ OutcomeKnown'
      BY <1>1, HandlerMoves DEF Authorize, Undecided, Decided
    <2>2. QED
      BY <1>1, <2>1 DEF Authorize, BudgetsTyped, TelemetryTyped, FilesTyped
  <1>2. CASE TakeRequest(r)
    <2>1. HandlersTyped' /\ OutcomeKnown'
      BY <1>2, HandlerMoves DEF TakeRequest, Undecided, Decided
    <2>2. BudgetsTyped'
      BY <1>2 DEF TakeRequest, ChargeRequest, BudgetsTyped
    <2>3. QED
      BY <1>2, <2>1, <2>2 DEF TakeRequest, TelemetryTyped, FilesTyped
  <1>3. CASE TakeTokens(r)
    <2>1. HandlersTyped' /\ OutcomeKnown'
      BY <1>3, HandlerMoves DEF TakeTokens, Undecided, Decided
    <2>2. BudgetsTyped'
      BY <1>3 DEF TakeTokens, ChargeTokens, BudgetsTyped
    <2>3. QED
      BY <1>3, <2>1, <2>2 DEF TakeTokens, TelemetryTyped, FilesTyped
  <1>4. CASE LimiterRaises(r)
    <2>1. HandlersTyped' /\ OutcomeKnown'
      BY <1>4, HandlerMoves DEF LimiterRaises
    <2>2. BudgetsTyped'
      BY <1>4 DEF LimiterRaises, ChargeRequest, ChargeTokens, BudgetsTyped
    <2>3. QED
      BY <1>4, <2>1, <2>2 DEF LimiterRaises, TelemetryTyped, FilesTyped
  <1>5. QED
    BY <1>1, <1>2, <1>3, <1>4 DEF Admission

LEMMA ServingTyped ==
  ASSUME TypeInv, NEW r \in Requests, Serving(r) PROVE TypeInv'
  <1> USE Names DEF TypeInv, Goto, Decide, Settle, budgets, telemetry, files
  <1>1. HandlersTyped' /\ OutcomeKnown'
    <2>1. CASE CallBackend(r)
      BY <2>1, HandlerMoves DEF CallBackend, Undecided, Decided
    <2>2. CASE BackendMalformed(r)
      BY <2>2, HandlerMoves DEF BackendMalformed
    <2>3. CASE EndStream(r)
      BY <2>3, HandlerMoves DEF EndStream, Decided
    <2>4. CASE StreamNeverStarts(r)
      BY <2>4, HandlerMoves DEF StreamNeverStarts
    <2>5. QED
      BY <2>1, <2>2, <2>3, <2>4 DEF Serving
  <1>2. UNCHANGED <<budgets, telemetry, files, crashes>>
    BY DEF Serving, CallBackend, BackendMalformed, EndStream, StreamNeverStarts
  <1>3. QED
    BY <1>1, <1>2 DEF BudgetsTyped, TelemetryTyped, FilesTyped

LEMMA RecordingTyped ==
  ASSUME TypeInv, NEW r \in Requests, Recording(r) \/ Reply(r) PROVE TypeInv'
  <1> USE Names DEF TypeInv, Goto, Settle, budgets, telemetry, files
  <1>1. CASE Count(r)
    <2>1. HandlersTyped' /\ OutcomeKnown'
      BY <1>1, HandlerMoves DEF Count, AfterCount, OutcomeKnown, Decided
    <2>2. QED
      BY <1>1, <2>1 DEF Count, BudgetsTyped, TelemetryTyped, FilesTyped
  <1>2. CASE Gate(r)
    <2>1. HandlersTyped' /\ OutcomeKnown'
      BY <1>2, HandlerMoves DEF Gate, OutcomeKnown, Decided
    <2>2. BudgetsTyped' /\ TelemetryTyped'
      BY <1>2 DEF Gate, BudgetsTyped, TelemetryTyped
    <2>3. QED
      BY <1>2, <2>1, <2>2 DEF Gate, FilesTyped
  <1>3. CASE Audit(r)
    <2>1. HandlersTyped' /\ OutcomeKnown'
      BY <1>3, HandlerMoves DEF Audit, OutcomeKnown, Decided
    <2>2. Event(r) \in AuditEvent
      BY <1>3 DEF Audit, OutcomeKnown, Decided, Event, AuditEvent
    <2>3. FilesTyped'
      BY <1>3, <2>2 DEF Audit, FilesTyped
    <2>4. QED
      BY <1>3, <2>1, <2>3 DEF Audit, BudgetsTyped, TelemetryTyped
  <1>4. CASE ExportSpan(r)
    <2>1. HandlersTyped' /\ OutcomeKnown'
      BY <1>4, HandlerMoves DEF ExportSpan, OutcomeKnown, Decided
    <2>2. outcome[r] \in Outcomes
      BY <1>4 DEF ExportSpan, OutcomeKnown, Decided
    <2>3. FilesTyped'
      BY <1>4, <2>2 DEF ExportSpan, FilesTyped
    <2>4. QED
      BY <1>4, <2>1, <2>3 DEF ExportSpan, BudgetsTyped, TelemetryTyped
  <1>5. CASE RecordingRaises(r)
    <2>1. HandlersTyped' /\ OutcomeKnown'
      BY <1>5, HandlerMoves DEF RecordingRaises
    <2>2. QED
      BY <1>5, <2>1 DEF RecordingRaises, BudgetsTyped, TelemetryTyped, FilesTyped
  <1>6. CASE Reply(r)
    <2>1. outcome[r] \in Outcomes
      BY <1>6 DEF Reply, OutcomeKnown, Decided
    <2>2. HandlersTyped' /\ OutcomeKnown'
      BY <1>6, <2>1, HandlerMoves DEF Reply, StatusOf
    <2>3. QED
      BY <1>6, <2>2 DEF Reply, BudgetsTyped, TelemetryTyped, FilesTyped
  <1>7. QED
    BY <1>1, <1>2, <1>3, <1>4, <1>5, <1>6 DEF Recording

LEMMA TypeStep == TypeInv /\ [Next]_vars => TypeInv'
  <1> SUFFICES ASSUME TypeInv, [Next]_vars PROVE TypeInv'
    OBVIOUS
  <1> USE DEF TypeInv, handlers, budgets, telemetry, files
  <1>1. ASSUME NEW r \in Requests, Arrive(r) PROVE TypeInv'
    <2>1. HandlersTyped' /\ OutcomeKnown'
      BY <1>1, GatewayAssumption, Names DEF Arrive, Goto, HandlersTyped, OutcomeKnown,
         Undecided, Decided
    <2>2. QED
      BY <1>1, <2>1 DEF Arrive, BudgetsTyped, TelemetryTyped, FilesTyped
  <1>2. ASSUME NEW r \in Requests, Handle(r) PROVE TypeInv'
    BY <1>2, AdmissionTyped, ServingTyped, RecordingTyped DEF Handle
  <1>3. CASE RequestWindowEnds \/ TokenWindowEnds \/ DenialWindowEnds
    BY <1>3 DEF RequestWindowEnds, TokenWindowEnds, DenialWindowEnds,
       HandlersTyped, OutcomeKnown, BudgetsTyped, TelemetryTyped, FilesTyped
  <1>4. CASE Crash
    <2>1. HandlersTyped'
      BY <1>4, Names DEF Crash, HandlersTyped
    <2>2. OutcomeKnown'
      BY <1>4, Names DEF Crash, InHandler, HandlersTyped, OutcomeKnown
    <2>3. BudgetsTyped' /\ TelemetryTyped' /\ FilesTyped' /\ crashes' \in Nat
      BY <1>4 DEF Crash, BudgetsTyped, TelemetryTyped, FilesTyped
    <2>4. QED
      BY <2>1, <2>2, <2>3
  <1>5. CASE UNCHANGED vars
    BY <1>5 DEF vars, HandlersTyped, OutcomeKnown, BudgetsTyped, TelemetryTyped, FilesTyped
  <1>6. QED
    BY <1>1, <1>2, <1>3, <1>4, <1>5 DEF Next

(* Every variable keeps its type, whatever requests arrive and fail.       *)
THEOREM TypeCorrect == Spec => []TypeOK
  BY TypeParts, TypeInit, TypeStep, PTL DEF Spec

-----------------------------------------------------------------------------
(* The audit log.  What a request has written so far is settled by where   *)
(* its handler is, and a caller without credentials gets no further than   *)
(* the policy; a failure or a restart stops a handler anywhere.            *)
Unwritten(r) == auditLog[r] = <<>> /\ spans[r] = <<>>

Written(r) == auditLog[r] = <<Event(r)>>

Agrees(r) ==
  /\ auditLog[r] \in {<<>>, <<Event(r)>>}
  /\ spans[r] # <<>> => auditLog[r] = <<Event(r)>> /\ spans[r] = <<outcome[r]>>

AnswerAudited(r) ==
  status[r] \in Answers =>
    \/ auditLog[r] = <<Event(r)>>
    \/ Anonymous(r) /\ status[r] = "403" /\ auditLog[r] = <<>>

Progress(r) ==
  /\ pc[r] # "done" => status[r] \in {"none", "streaming"}
  /\ Anonymous(r) /\ pc[r] \notin {"new", "authorize", "done"} =>
       pc[r] \in Decided /\ outcome[r] = "policy_denied"
  /\ pc[r] \in Undecided \cup {"count", "gate", "audit"} => Unwritten(r)
  /\ pc[r] = "trace" => Written(r) /\ spans[r] = <<>>
  /\ pc[r] = "reply" => \/ Written(r) /\ spans[r] = <<outcome[r]>>
                        \/ Anonymous(r) /\ Unwritten(r)
  /\ pc[r] = "done" => Agrees(r) /\ AnswerAudited(r)

AuditInv == TypeInv /\ \A r \in Requests : Progress(r)

LEMMA AuditImplies == AuditInv => AnswersAreAudited /\ LogsAgree
  <1> SUFFICES ASSUME AuditInv, NEW r \in Requests PROVE AnswerAudited(r) /\ Agrees(r)
    BY DEF AnswersAreAudited, LogsAgree, Agrees, AnswerAudited
  <1>1. pc[r] \in Undecided \cup Decided \cup {"done"}
    BY Names DEF AuditInv, TypeInv, HandlersTyped
  <1>2. QED
    BY <1>1 DEF AuditInv, Progress, Unwritten, Written, Agrees, AnswerAudited, Answers,
       Undecided, Decided

LEMMA AuditInit == Init => AuditInv
  BY TypeInit DEF Init, AuditInv, Progress, Unwritten, Anonymous, NoRequest, Undecided, Decided

(* A handler's step leaves what the other requests are and have written.   *)
LEMMA OthersStay ==
  ASSUME TypeInv, NEW r \in Requests, Arrive(r) \/ Handle(r), NEW q \in Requests, q # r
  PROVE  /\ pc'[q] = pc[q] /\ request'[q] = request[q]
         /\ outcome'[q] = outcome[q] /\ status'[q] = status[q]
         /\ auditLog'[q] = auditLog[q] /\ spans'[q] = spans[q]
  <1> USE DEF TypeInv, HandlersTyped, FilesTyped, Goto, Decide, Settle, files
  <1>1. CASE Arrive(r)
    BY <1>1 DEF Arrive
  <1>2. CASE Admission(r)
    BY <1>2 DEF Admission, Authorize, TakeRequest, TakeTokens, LimiterRaises
  <1>3. CASE Serving(r)
    BY <1>3 DEF Serving, CallBackend, BackendMalformed, EndStream, StreamNeverStarts
  <1>4. CASE Recording(r)
    BY <1>4 DEF Recording, Count, Gate, Audit, ExportSpan, RecordingRaises
  <1>5. CASE Reply(r)
    BY <1>5 DEF Reply
  <1>6. QED
    BY <1>1, <1>2, <1>3, <1>4, <1>5 DEF Handle

(* What a handler's step does to its own request, one action at a time.    *)
LEMMA OwnProgress ==
  ASSUME TypeInv, NEW r \in Requests, Progress(r), Arrive(r) \/ Handle(r)
  PROVE  Progress(r)'
  <1> USE DEF TypeInv, HandlersTyped, FilesTyped, Progress, Unwritten, Written, Anonymous,
              Event, Decided, Undecided, Goto, Decide, Settle, files
  <1>1. CASE Arrive(r)
    BY <1>1 DEF Arrive
  <1>2. CASE Authorize(r)
    BY <1>2 DEF Authorize, PolicyAllows
  <1>3. CASE TakeRequest(r)
    BY <1>3 DEF TakeRequest
  <1>4. CASE TakeTokens(r)
    BY <1>4 DEF TakeTokens
  <1>5. CASE LimiterRaises(r)
    BY <1>5 DEF LimiterRaises, Agrees, AnswerAudited, Answers
  <1>6. CASE CallBackend(r)
    BY <1>6 DEF CallBackend
  <1>7. CASE BackendMalformed(r)
    BY <1>7 DEF BackendMalformed, Agrees, AnswerAudited, Answers
  <1>8. CASE EndStream(r)
    BY <1>8 DEF EndStream
  <1>9. CASE StreamNeverStarts(r)
    BY <1>9 DEF StreamNeverStarts, Agrees, AnswerAudited, Answers
  <1>10. CASE Count(r)
    BY <1>10 DEF Count, AfterCount
  <1>11. CASE Gate(r)
    BY <1>11 DEF Gate, DrawsOnBudget
  <1>12. CASE Audit(r)
    BY <1>12 DEF Audit
  <1>13. CASE ExportSpan(r)
    BY <1>13 DEF ExportSpan
  <1>14. CASE RecordingRaises(r)
    BY <1>14 DEF RecordingRaises, Agrees, AnswerAudited, Answers
  <1>15. CASE Reply(r)
    BY <1>15 DEF Reply, StatusOf, Agrees, AnswerAudited
  <1>16. QED
    BY <1>1, <1>2, <1>3, <1>4, <1>5, <1>6, <1>7, <1>8, <1>9, <1>10, <1>11, <1>12, <1>13,
       <1>14, <1>15
    DEF Handle, Admission, Serving, Recording

LEMMA AuditStep == AuditInv /\ [Next]_vars => AuditInv'
  <1> SUFFICES ASSUME AuditInv, [Next]_vars, NEW q \in Requests PROVE Progress(q)'
    BY TypeStep DEF AuditInv
  <1> USE DEF AuditInv
  <1>1. ASSUME NEW r \in Requests, Arrive(r) \/ Handle(r) PROVE Progress(q)'
    <2>1. CASE q = r
      BY <1>1, <2>1, OwnProgress
    <2>2. CASE q # r
      BY <1>1, <2>2, OthersStay
      DEF Progress, Unwritten, Written, Agrees, AnswerAudited, Anonymous, Event
    <2>3. QED
      BY <2>1, <2>2
  <1>2. CASE UNCHANGED <<handlers, files>>
    BY <1>2 DEF handlers, files, Progress, Unwritten, Written, Agrees, AnswerAudited,
       Anonymous, Event
  <1>3. CASE Crash
    <2>1. CASE InHandler(q)
      BY <1>3, <2>1, AuditImplies
      DEF Crash, InHandler, files, TypeInv, HandlersTyped, Progress, LogsAgree, Agrees,
          AnswerAudited, Answers, Anonymous, Event, Undecided
    <2>2. CASE ~ InHandler(q)
      BY <1>3, <2>2
      DEF Crash, InHandler, files, TypeInv, HandlersTyped, Progress, Unwritten, Written, Agrees,
          AnswerAudited, Anonymous, Event
    <2>3. QED
      BY <2>1, <2>2
  <1>4. QED
    BY <1>1, <1>2, <1>3
    DEF Next, RequestWindowEnds, TokenWindowEnds, DenialWindowEnds, vars

(* No client is told anything the audit log does not hold, but the denial  *)
(* of a caller without credentials.                                        *)
THEOREM AnswersAudited == Spec => []AnswersAreAudited
  BY AuditImplies, AuditInit, AuditStep, PTL DEF Spec

(* Log, spans and decision agree, and no event is there twice.             *)
THEOREM LogsNeverDisagree == Spec => []LogsAgree
  BY AuditImplies, AuditInit, AuditStep, PTL DEF Spec

-----------------------------------------------------------------------------
(* The gap in the audit log.  A request that was denied and is through     *)
(* with its recording, and has no event: the suppression counter is the    *)
(* number of them.  A stream that has begun is never a denial, so that the *)
(* status of a denied request is the one its denial gives it.              *)
LeftOut(r) ==
  /\ pc[r] \in {"reply", "done"} /\ outcome[r] \in DeniedOutcomes
  /\ status[r] \in {"none", "403", "429"} /\ auditLog[r] = <<>>

StreamServed(r) ==
  status[r] = "streaming" =>
    \/ pc[r] = "stream"
    \/ pc[r] \in Decided /\ outcome[r] \in {"allowed", "backend_error"}

GapInv == AuditInv /\ (\A r \in Requests : StreamServed(r)) /\ GapIsCounted

LEMMA GapInit == Init => GapInv
  <1> SUFFICES ASSUME Init PROVE GapInv
    OBVIOUS
  <1>1. {r \in Requests : LeftOut(r)} = {}
    BY DEF Init, LeftOut
  <1>2. GapIsCounted
    BY <1>1, FS_EmptySet DEF Init, GapIsCounted, LeftOut
  <1>3. QED
    BY <1>2, AuditInit DEF Init, GapInv, StreamServed

(* A handler's step counts a suppressed denial exactly when its request    *)
(* becomes one that is left out.                                           *)
LEMMA GapOwnStep ==
  ASSUME AuditInv, NEW r \in Requests, StreamServed(r), Arrive(r) \/ Handle(r)
  PROVE  /\ StreamServed(r)'
         /\ \/ UNCHANGED suppressed /\ (LeftOut(r)' <=> LeftOut(r))
            \/ suppressed' = suppressed + 1 /\ ~ LeftOut(r) /\ LeftOut(r)'
  <1> USE DEF AuditInv, TypeInv, HandlersTyped, FilesTyped, StreamServed, LeftOut, Decided,
              Goto, Decide, Settle, files, telemetry
  <1>1. CASE Arrive(r)
    BY <1>1 DEF Arrive
  <1>2. CASE Admission(r)
    BY <1>2 DEF Admission, Authorize, TakeRequest, TakeTokens, LimiterRaises, Progress
  <1>3. CASE Serving(r)
    BY <1>3 DEF Serving, CallBackend, BackendMalformed, EndStream, StreamNeverStarts, Progress
  <1>4. CASE Count(r)
    BY <1>4 DEF Count, AfterCount
  <1>5. CASE Gate(r)
    <2>1. StreamServed(r)'
      BY <1>5 DEF Gate
    <2>2. CASE pc'[r] = "audit" /\ UNCHANGED suppressed
      BY <1>5, <2>1, <2>2 DEF Gate
    <2>3. CASE Anonymous(r) /\ pc'[r] = "reply" /\ suppressed' = suppressed + 1
      <3>1. outcome[r] = "policy_denied" /\ auditLog[r] = <<>>
              /\ status[r] \in {"none", "streaming"}
        BY <1>5, <2>3 DEF Gate, Progress, Unwritten
      <3>2. QED
        BY <1>5, <2>1, <2>3, <3>1 DEF Gate, DeniedOutcomes
    <2>4. QED
      BY <1>5, <2>2, <2>3 DEF Gate, DrawsOnBudget
  <1>6. CASE Audit(r)
    BY <1>6 DEF Audit
  <1>7. CASE ExportSpan(r)
    BY <1>7 DEF ExportSpan, Progress, Written
  <1>8. CASE RecordingRaises(r)
    BY <1>8 DEF RecordingRaises
  <1>9. CASE Reply(r)
    <2>1. StreamServed(r)'
      BY <1>9 DEF Reply, StatusOf, OutcomeKnown, Outcomes, DeniedOutcomes
    <2>2. LeftOut(r)' <=> LeftOut(r)
      BY <1>9 DEF Reply, StatusOf, OutcomeKnown, Outcomes, DeniedOutcomes, Progress
    <2>3. QED
      BY <1>9, <2>1, <2>2 DEF Reply
  <1>10. QED
    BY <1>1, <1>2, <1>3, <1>4, <1>5, <1>6, <1>7, <1>8, <1>9 DEF Handle, Recording

LEMMA GapStep == GapInv /\ [Next]_vars => GapInv'
  <1> SUFFICES ASSUME GapInv, [Next]_vars PROVE GapInv'
    OBVIOUS
  <1> DEFINE Left == {q \in Requests : LeftOut(q)}
  <1>1. AuditInv'
    BY AuditStep DEF GapInv
  <1>2. IsFiniteSet(Left) /\ Cardinality(Left) \in Nat
    BY GatewayAssumption, FS_Subset, FS_CardinalityType
  <1>3. GapIsCounted <=> (crashes = 0 => suppressed = Cardinality(Left))
    BY DEF GapIsCounted, LeftOut
  <1>4. GapIsCounted' <=> (crashes' = 0 => suppressed' = Cardinality(Left'))
    BY DEF GapIsCounted, LeftOut
  <1>5. ASSUME NEW r \in Requests, Arrive(r) \/ Handle(r) PROVE GapInv'
    <2>1. \A q \in Requests \ {r} : (StreamServed(q)' <=> StreamServed(q))
                                      /\ (LeftOut(q)' <=> LeftOut(q))
      BY <1>5, OthersStay DEF GapInv, AuditInv, StreamServed, LeftOut
    <2>2. /\ StreamServed(r)'
          /\ \/ UNCHANGED suppressed /\ (LeftOut(r)' <=> LeftOut(r))
             \/ suppressed' = suppressed + 1 /\ ~ LeftOut(r) /\ LeftOut(r)'
      BY <1>5, GapOwnStep DEF GapInv
    <2>3. UNCHANGED crashes
      BY <1>5 DEF Arrive, Handle, Admission, Authorize, TakeRequest, TakeTokens, LimiterRaises,
         Serving, CallBackend, BackendMalformed, EndStream, StreamNeverStarts, Recording, Count,
         Gate, Audit, ExportSpan, RecordingRaises, Reply
    <2>4. CASE UNCHANGED suppressed /\ (LeftOut(r)' <=> LeftOut(r))
      <3>1. Left' = Left
        BY <2>1, <2>4
      <3>2. QED
        BY <1>1, <1>3, <1>4, <2>1, <2>2, <2>3, <2>4, <3>1 DEF GapInv
    <2>5. CASE suppressed' = suppressed + 1 /\ ~ LeftOut(r) /\ LeftOut(r)'
      <3>1. Left' = Left \cup {r} /\ r \notin Left
        BY <2>1, <2>5
      <3>2. Cardinality(Left') = Cardinality(Left) + 1
        BY <1>2, <3>1, FS_AddElement
      <3>3. QED
        BY <1>1, <1>3, <1>4, <2>1, <2>2, <2>3, <2>5, <3>2 DEF GapInv
    <2>6. QED
      BY <2>2, <2>4, <2>5
  <1>6. CASE UNCHANGED <<handlers, telemetry, files, crashes>>
    <2>1. Left' = Left
      BY <1>6 DEF handlers, files, LeftOut
    <2>2. \A q \in Requests : StreamServed(q)' <=> StreamServed(q)
      BY <1>6 DEF handlers, StreamServed
    <2>3. QED
      BY <1>1, <1>3, <1>4, <1>6, <2>1, <2>2 DEF GapInv, telemetry
  <1>7. CASE Crash
    <2>1. GapIsCounted'
      BY <1>7 DEF Crash, GapInv, AuditInv, TypeInv, GapIsCounted
    <2>2. ASSUME NEW q \in Requests PROVE StreamServed(q)'
      BY <1>7, <2>2 DEF Crash, InHandler, GapInv, AuditInv, TypeInv, HandlersTyped,
         StreamServed, Decided
    <2>3. QED
      BY <1>1, <2>1, <2>2 DEF GapInv
  <1>8. QED
    BY <1>5, <1>6, <1>7
    DEF Next, RequestWindowEnds, TokenWindowEnds, DenialWindowEnds, vars

(* Until the process is restarted, its suppression counter is the number   *)
(* of the denials that the audit log lacks.                                *)
THEOREM GapCounted == Spec => []GapIsCounted
  <1>1. GapInv => GapIsCounted
    BY DEF GapInv
  <1>2. QED
    BY <1>1, GapInit, GapStep, PTL DEF Spec

-----------------------------------------------------------------------------
(* The counters, the denial budget and the token windows.  A request that  *)
(* is to be gated or audited has been counted; the denial budget holds     *)
(* only requests without credentials, which cannot acquire any, and never  *)
(* more than its limit; who holds tokens has passed both limiters.         *)
CountedFirst == \A r \in Requests : pc[r] \in {"gate", "audit"} => r \in counted

DenialsAnonymous ==
  /\ \A r \in denialTaken : pc[r] # "new" /\ Anonymous(r)
  /\ IsFiniteSet(denialTaken)
  /\ Cardinality(denialTaken) <= DenialLimit

TokensAdmitted ==
  /\ \A r \in Requests : pc[r] \in Undecided => outcome[r] = "none"
  /\ \A k \in Keys : \A r \in tokenTaken[k] :
       pc[r] \notin {"new", "authorize", "rate", "tokens"} /\ outcome[r] \notin DeniedOutcomes

SharedInv == TypeInv /\ CountedFirst /\ DenialsAnonymous /\ TokensAdmitted

LEMMA SharedInit == Init => SharedInv
  BY TypeInit, FS_EmptySet, GatewayAssumption
  DEF Init, SharedInv, CountedFirst, DenialsAnonymous, TokensAdmitted, Undecided

LEMMA CountedStep == ASSUME SharedInv, [Next]_vars PROVE CountedFirst'
  <1> USE DEF SharedInv, TypeInv, HandlersTyped, TelemetryTyped, CountedFirst, Goto, handlers,
              telemetry
  <1>1. ASSUME NEW r \in Requests, Arrive(r) PROVE CountedFirst'
    BY <1>1 DEF Arrive
  <1>2. ASSUME NEW r \in Requests, Admission(r) PROVE CountedFirst'
    BY <1>2 DEF Admission, Authorize, TakeRequest, TakeTokens, LimiterRaises
  <1>3. ASSUME NEW r \in Requests, Serving(r) PROVE CountedFirst'
    BY <1>3 DEF Serving, CallBackend, BackendMalformed, EndStream, StreamNeverStarts
  <1>4. ASSUME NEW r \in Requests, Recording(r) \/ Reply(r) PROVE CountedFirst'
    BY <1>4 DEF Recording, Count, Gate, Audit, ExportSpan, RecordingRaises, Reply
  <1>5. CASE Crash
    BY <1>5 DEF Crash, InHandler
  <1>6. CASE UNCHANGED <<handlers, telemetry>>
    BY <1>6
  <1>7. QED
    BY <1>1, <1>2, <1>3, <1>4, <1>5, <1>6
    DEF Next, Handle, RequestWindowEnds, TokenWindowEnds, DenialWindowEnds, vars

LEMMA DenialsStep == ASSUME SharedInv, [Next]_vars PROVE DenialsAnonymous'
  <1> USE DEF SharedInv, TypeInv, HandlersTyped, BudgetsTyped, DenialsAnonymous, Anonymous,
              Goto, handlers, budgets
  <1>1. ASSUME NEW r \in Requests, Arrive(r) PROVE DenialsAnonymous'
    BY <1>1 DEF Arrive
  <1>2. ASSUME NEW r \in Requests, Admission(r) PROVE DenialsAnonymous'
    BY <1>2 DEF Admission, Authorize, TakeRequest, TakeTokens, LimiterRaises
  <1>3. ASSUME NEW r \in Requests, Serving(r) PROVE DenialsAnonymous'
    BY <1>3 DEF Serving, CallBackend, BackendMalformed, EndStream, StreamNeverStarts
  <1>4. ASSUME NEW r \in Requests, Gate(r) PROVE DenialsAnonymous'
    <2>1. pc' = [pc EXCEPT ![r] = pc'[r]] /\ pc'[r] # "new" /\ UNCHANGED request
      BY <1>4 DEF Gate
    <2>2. CASE UNCHANGED denialTaken
      BY <2>1, <2>2
    <2>3. CASE /\ Anonymous(r) /\ Cardinality(denialTaken) < DenialLimit
               /\ denialTaken' = denialTaken \cup {r}
      <3>1. IsFiniteSet(denialTaken')
        BY <2>3, FS_AddElement
      <3>2. Cardinality(denialTaken') \in {Cardinality(denialTaken), Cardinality(denialTaken) + 1}
        BY <2>3, FS_AddElement
      <3>3. Cardinality(denialTaken) \in Nat
        BY FS_CardinalityType
      <3>4. Cardinality(denialTaken') <= DenialLimit
        BY <2>3, <3>2, <3>3, GatewayAssumption
      <3>5. QED
        BY <2>1, <2>3, <3>1, <3>4
    <2>4. QED
      BY <1>4, <2>2, <2>3 DEF Gate, DrawsOnBudget, DenialFits
  <1>5. ASSUME NEW r \in Requests,
               Count(r) \/ Audit(r) \/ ExportSpan(r) \/ RecordingRaises(r) \/ Reply(r)
        PROVE  DenialsAnonymous'
    BY <1>5 DEF Count, AfterCount, Audit, ExportSpan, RecordingRaises, Reply
  <1>6. CASE Crash \/ DenialWindowEnds
    <2>1. denialTaken' = {}
      BY <1>6 DEF Crash, DenialWindowEnds
    <2>2. QED
      BY <2>1, FS_EmptySet, GatewayAssumption
  <1>7. CASE UNCHANGED <<handlers, denialTaken>>
    BY <1>7
  <1>8. QED
    BY <1>1, <1>2, <1>3, <1>4, <1>5, <1>6, <1>7
    DEF Next, Handle, Recording, RequestWindowEnds, TokenWindowEnds, vars

LEMMA TokensStep == ASSUME SharedInv, [Next]_vars PROVE TokensAdmitted'
  <1> USE DEF SharedInv, TypeInv, HandlersTyped, BudgetsTyped, TokensAdmitted, DeniedOutcomes,
              Undecided, Goto, Decide, handlers, budgets
  <1>1. ASSUME NEW r \in Requests, Arrive(r) PROVE TokensAdmitted'
    BY <1>1 DEF Arrive
  <1>2. ASSUME NEW r \in Requests, Authorize(r) \/ TakeRequest(r) PROVE TokensAdmitted'
    BY <1>2 DEF Authorize, TakeRequest
  <1>3. ASSUME NEW r \in Requests, TakeTokens(r) PROVE TokensAdmitted'
    BY <1>3 DEF TakeTokens, ChargeTokens
  <1>4. ASSUME NEW r \in Requests, LimiterRaises(r) PROVE TokensAdmitted'
    BY <1>4 DEF LimiterRaises, ChargeTokens
  <1>5. ASSUME NEW r \in Requests, Serving(r) PROVE TokensAdmitted'
    BY <1>5 DEF Serving, CallBackend, BackendMalformed, EndStream, StreamNeverStarts
  <1>6. ASSUME NEW r \in Requests, Recording(r) \/ Reply(r) PROVE TokensAdmitted'
    BY <1>6 DEF Recording, Count, AfterCount, Gate, Audit, ExportSpan, RecordingRaises, Reply
  <1>7. CASE Crash
    BY <1>7 DEF Crash, InHandler
  <1>8. CASE RequestWindowEnds \/ TokenWindowEnds \/ DenialWindowEnds
    BY <1>8 DEF RequestWindowEnds, TokenWindowEnds, DenialWindowEnds
  <1>9. CASE UNCHANGED vars
    BY <1>9 DEF vars
  <1>10. QED
    BY <1>1, <1>2, <1>3, <1>4, <1>5, <1>6, <1>7, <1>8, <1>9 DEF Next, Handle, Admission

LEMMA SharedStep == SharedInv /\ [Next]_vars => SharedInv'
  BY TypeStep, CountedStep, DenialsStep, TokensStep DEF SharedInv

(* No denied request holds tokens that another could have used.            *)
THEOREM DeniedHoldNoTokens == Spec => []DenialSpendsNoTokens
  <1>1. SharedInv => DenialSpendsNoTokens
    BY DEF SharedInv, TokensAdmitted, DenialSpendsNoTokens
  <1>2. QED
    BY <1>1, SharedInit, SharedStep, PTL DEF Spec

(* A request is in the counters before it is in the audit log.             *)
THEOREM CountersLeadTheLog == Spec => CountedBeforeAudited
  <1>1. SharedInv /\ [Next]_vars =>
          [\A r \in Requests : auditLog'[r] # auditLog[r] => r \in counted]_vars
    <2> SUFFICES ASSUME SharedInv, [Next]_vars, NEW r \in Requests, auditLog'[r] # auditLog[r]
                 PROVE  r \in counted
      OBVIOUS
    <2>1. PICK q \in Requests : Audit(q)
      BY DEF Next, Arrive, Handle, Admission, Authorize, TakeRequest, TakeTokens, LimiterRaises,
         Serving, CallBackend, BackendMalformed, EndStream, StreamNeverStarts, Recording, Count,
         Gate, ExportSpan, RecordingRaises, Reply, RequestWindowEnds, TokenWindowEnds,
         DenialWindowEnds, Crash, files, vars
    <2>2. r = q
      BY <2>1 DEF Audit, SharedInv, TypeInv, FilesTyped
    <2>3. QED
      BY <2>1, <2>2 DEF Audit, Goto, SharedInv, CountedFirst
  <1>2. QED
    BY <1>1, SharedInit, SharedStep, PTL DEF Spec, CountedBeforeAudited

(* Only an anonymous denial is left out of the log, and only when as many  *)
(* anonymous denials as the budget allows were recorded in its window.     *)
THEOREM OnlyFloodsSuppressed == Spec => OnlyFloodsAreSuppressed
  <1>1. SharedInv /\ [Next]_vars =>
          [\A r \in Requests : pc[r] = "gate" /\ pc'[r] = "reply" =>
             /\ Anonymous(r)
             /\ Cardinality({q \in denialTaken : Anonymous(q)}) = DenialLimit]_vars
    <2> SUFFICES ASSUME SharedInv, Next, NEW r \in Requests, pc[r] = "gate", pc'[r] = "reply"
                 PROVE  /\ Anonymous(r)
                        /\ Cardinality({q \in denialTaken : Anonymous(q)}) = DenialLimit
      BY DEF vars, handlers
    <2>1. PICK p \in Requests : Gate(p) /\ pc'[p] = "reply" /\ p = r
      BY DEF SharedInv, TypeInv, HandlersTyped, Goto, Next, Arrive, Handle, Admission, Authorize,
         TakeRequest, TakeTokens, LimiterRaises, Serving, CallBackend, BackendMalformed,
         EndStream, StreamNeverStarts, Recording, Count, Gate, Audit, ExportSpan,
         RecordingRaises, Reply, RequestWindowEnds, TokenWindowEnds, DenialWindowEnds, Crash,
         InHandler, handlers
    <2>2. Anonymous(r) /\ ~ (Cardinality(denialTaken) < DenialLimit)
      BY <2>1 DEF Gate, DrawsOnBudget, DenialFits, Goto, SharedInv, TypeInv, HandlersTyped
    <2>3. {q \in denialTaken : Anonymous(q)} = denialTaken
      BY DEF SharedInv, DenialsAnonymous
    <2>4. Cardinality(denialTaken) = DenialLimit
      BY <2>2, FS_CardinalityType, GatewayAssumption DEF SharedInv, DenialsAnonymous
    <2>5. QED
      BY <2>2, <2>3, <2>4
  <1>2. QED
    BY <1>1, SharedInit, SharedStep, PTL DEF Spec, OnlyFloodsAreSuppressed

-----------------------------------------------------------------------------
(* The windows' sums.  A request's key is known once policy has allowed    *)
(* it, and what it asks for is fixed when it is charged; so a window's sum *)
(* changes only when a request is charged to it.                           *)
KeysKnown == \A r \in Requests : pc[r] \in {"rate", "tokens"} => Key(r) \in Keys

WithinBudgets(k) ==
  /\ Cardinality(rateTaken[k]) <= RateLimit[k[2]]
  /\ TokensIn(tokenTaken[k]) <= TokenLimit[k[2]]

WindowsWithin == \A k \in Keys : WithinBudgets(k)

PaidInv == SharedInv /\ KeysKnown /\ WindowsWithin

TokensOf == [q \in Requests |-> request[q].tokens]

LEMMA TokensTyped ==
  ASSUME SharedInv, NEW S \in SUBSET Requests
  PROVE  /\ IsFiniteSet(S) /\ Cardinality(S) \in Nat
         /\ \A q \in S : TokensOf[q] \in Nat
         /\ TokensIn(S) = SumFunctionOnSet(TokensOf, S)
         /\ TokensIn(S) \in Nat
  <1>1. IsFiniteSet(S) /\ Cardinality(S) \in Nat
    BY GatewayAssumption, FS_Subset, FS_CardinalityType
  <1>2. \A q \in S : TokensOf[q] \in Nat
    BY DEF SharedInv, TypeInv, HandlersTyped, Call, TokensOf
  <1>3. TokensIn(S) = SumFunctionOnSet(TokensOf, S)
    BY DEF TokensIn, TokensOf
  <1>4. QED
    BY <1>1, <1>2, <1>3, SumNat

LEMMA TokensFixed ==
  ASSUME SharedInv, SharedInv', NEW S \in SUBSET Requests, \A q \in S : request'[q] = request[q]
  PROVE  SumFunctionOnSet(TokensOf', S) = SumFunctionOnSet(TokensOf, S)
  <1>1. ASSUME NEW q \in S PROVE TokensOf[q] \in Int /\ TokensOf'[q] = TokensOf[q]
    <2>1. q \in Requests /\ TokensOf[q] \in Nat
      BY TokensTyped
    <2>2. TokensOf[q] = request[q].tokens /\ TokensOf'[q] = request'[q].tokens
      BY <2>1 DEF TokensOf
    <2>3. QED
      BY <2>1, <2>2
  <1>2. IsFiniteSet(S)
    BY TokensTyped
  <1>3. QED
    BY <1>1, <1>2, SumSame

LEMMA ArrivesOnce ==
  ASSUME SharedInv, [Next]_vars, NEW q \in Requests, pc[q] # "new"
  PROVE  request'[q] = request[q]
  <1>1. pc[q] # "new" /\ q \in Requests
    OBVIOUS
  <1>2. request' = request \/ \E r \in Requests : Arrive(r)
    BY DEF Next, Handle, Admission, Authorize, TakeRequest, TakeTokens, LimiterRaises, Serving,
           CallBackend, BackendMalformed, EndStream, StreamNeverStarts, Recording, Count, Gate,
           Audit, ExportSpan, RecordingRaises, Reply, RequestWindowEnds, TokenWindowEnds,
           DenialWindowEnds, Crash, handlers, vars
  <1>3. QED
    BY <1>1, <1>2 DEF Arrive, Goto, SharedInv, TypeInv, HandlersTyped

(* Who is charged keeps the request that was charged.                      *)
LEMMA ChargedStay ==
  ASSUME SharedInv, [Next]_vars, NEW k \in Keys, NEW q \in tokenTaken[k]
  PROVE  request'[q] = request[q]
  <1>1. pc[q] # "new" /\ q \in Requests
    BY DEF SharedInv, TokensAdmitted, TypeInv, BudgetsTyped
  <1>2. QED
    BY <1>1, ArrivesOnce

LEMMA KeysStep == ASSUME SharedInv, KeysKnown, [Next]_vars PROVE KeysKnown'
  <1> USE DEF SharedInv, TypeInv, HandlersTyped, KeysKnown, Key, Goto, handlers
  <1>1. ASSUME NEW r \in Requests, Arrive(r) PROVE KeysKnown'
    BY <1>1 DEF Arrive
  <1>2. ASSUME NEW r \in Requests, Authorize(r) PROVE KeysKnown'
    <2>1. PolicyAllows(request[r]) => Key(r) \in Keys
      BY GatewayAssumption DEF PolicyAllows, Keys, Call
    <2>2. QED
      BY <1>2, <2>1 DEF Authorize
  <1>3. ASSUME NEW r \in Requests, TakeRequest(r) \/ TakeTokens(r) \/ LimiterRaises(r) PROVE KeysKnown'
    BY <1>3 DEF TakeRequest, TakeTokens, LimiterRaises
  <1>4. ASSUME NEW r \in Requests, Serving(r) PROVE KeysKnown'
    BY <1>4 DEF Serving, CallBackend, BackendMalformed, EndStream, StreamNeverStarts
  <1>5. ASSUME NEW r \in Requests, Recording(r) \/ Reply(r) PROVE KeysKnown'
    BY <1>5 DEF Recording, Count, AfterCount, Gate, Audit, ExportSpan, RecordingRaises, Reply
  <1>6. CASE Crash
    BY <1>6 DEF Crash, InHandler
  <1>7. CASE UNCHANGED handlers
    BY <1>7
  <1>8. QED
    BY <1>1, <1>2, <1>3, <1>4, <1>5, <1>6, <1>7
    DEF Next, Handle, Admission, RequestWindowEnds, TokenWindowEnds, DenialWindowEnds, vars

(* What a step may do to the windows.                                      *)
LEMMA WindowsChange ==
  ASSUME SharedInv, KeysKnown, [Next]_vars
  PROVE  /\ \/ rateTaken' = rateTaken
            \/ \E r \in Requests : Key(r) \in Keys /\ RequestFits(r) /\ ChargeRequest(r)
            \/ \A k \in Keys : rateTaken'[k] \in {{}, rateTaken[k]}
         /\ \/ tokenTaken' = tokenTaken
            \/ \E r \in Requests : pc[r] = "tokens" /\ Key(r) \in Keys /\ TokensFit(r) /\ ChargeTokens(r)
            \/ \A k \in Keys : tokenTaken'[k] \in {{}, tokenTaken[k]}
  <1> USE DEF SharedInv, TypeInv, BudgetsTyped, KeysKnown, Goto, budgets
  <1>1. ASSUME NEW r \in Requests, Admission(r) \/ Arrive(r)
        PROVE  /\ \/ rateTaken' = rateTaken
                  \/ Key(r) \in Keys /\ RequestFits(r) /\ ChargeRequest(r)
               /\ \/ tokenTaken' = tokenTaken
                  \/ pc[r] = "tokens" /\ Key(r) \in Keys /\ TokensFit(r) /\ ChargeTokens(r)
    BY <1>1 DEF Arrive, Admission, Authorize, TakeRequest, TakeTokens, LimiterRaises
  <1>2. ASSUME NEW r \in Requests, Serving(r) \/ Recording(r) \/ Reply(r)
        PROVE  rateTaken' = rateTaken /\ tokenTaken' = tokenTaken
    BY <1>2 DEF Serving, CallBackend, BackendMalformed, EndStream, StreamNeverStarts, Recording,
                Count, Gate, Audit, ExportSpan, RecordingRaises, Reply
  <1>3. CASE RequestWindowEnds \/ TokenWindowEnds \/ DenialWindowEnds \/ Crash
    BY <1>3 DEF RequestWindowEnds, TokenWindowEnds, DenialWindowEnds, Crash
  <1>4. CASE UNCHANGED vars
    BY <1>4 DEF vars
  <1>5. QED
    BY <1>1, <1>2, <1>3, <1>4 DEF Next, Handle

LEMMA WithinStep == ASSUME PaidInv, SharedInv', [Next]_vars PROVE WindowsWithin'
  <1> SUFFICES ASSUME NEW k \in Keys PROVE WithinBudgets(k)'
    BY DEF WindowsWithin
  <1>1. SharedInv /\ KeysKnown /\ WithinBudgets(k)
    BY DEF PaidInv, WindowsWithin
  <1>2. /\ rateTaken[k] \in SUBSET Requests /\ tokenTaken[k] \in SUBSET Requests
        /\ rateTaken \in [Keys -> SUBSET Requests] /\ tokenTaken \in [Keys -> SUBSET Requests]
        /\ tokenTaken'[k] \in SUBSET Requests
    BY <1>1 DEF SharedInv, TypeInv, BudgetsTyped
  <1>3. RateLimit[k[2]] \in Nat \ {0} /\ TokenLimit[k[2]] \in Nat \ {0}
    BY GatewayAssumption DEF Keys
  <1>4. \A r \in Requests : Key(r) = k => request[r].model = k[2]
    BY DEF Key
  <1>5. Cardinality(rateTaken'[k]) <= RateLimit[k[2]]
    <2>1. CASE rateTaken'[k] = rateTaken[k]
      BY <1>1, <2>1 DEF WithinBudgets
    <2>2. CASE rateTaken'[k] = {}
      BY <1>3, <2>2, FS_EmptySet
    <2>3. ASSUME NEW r \in Requests, Key(r) \in Keys, RequestFits(r), ChargeRequest(r)
          PROVE  Cardinality(rateTaken'[k]) <= RateLimit[k[2]]
      <3>1. CASE Key(r) = k
        <4>1. rateTaken'[k] = rateTaken[k] \cup {r}
          BY <1>2, <2>3, <3>1 DEF ChargeRequest
        <4>2. Cardinality(rateTaken[k]) < RateLimit[k[2]]
          BY <1>4, <2>3, <3>1 DEF RequestFits
        <4>3. IsFiniteSet(rateTaken[k]) /\ Cardinality(rateTaken[k]) \in Nat
          BY <1>1, <1>2, TokensTyped
        <4>4. Cardinality(rateTaken[k] \cup {r})
                \in {Cardinality(rateTaken[k]), Cardinality(rateTaken[k]) + 1}
          BY <4>3, FS_AddElement
        <4>5. QED
          BY <1>3, <4>1, <4>2, <4>3, <4>4
      <3>2. CASE Key(r) # k
        BY <1>2, <2>1, <2>3, <3>2 DEF ChargeRequest
      <3>3. QED
        BY <3>1, <3>2
    <2>4. QED
      BY <1>1, <2>1, <2>2, <2>3, WindowsChange
  <1>6. TokensIn(tokenTaken[k])' = SumFunctionOnSet(TokensOf', tokenTaken'[k])
    BY DEF TokensIn, TokensOf
  <1>7. /\ TokensIn(tokenTaken[k]) = SumFunctionOnSet(TokensOf, tokenTaken[k])
        /\ TokensIn(tokenTaken[k]) <= TokenLimit[k[2]]
        /\ IsFiniteSet(tokenTaken[k]) /\ \A q \in Requests : TokensOf[q] \in Nat
        /\ TokensIn(tokenTaken[k]) \in Nat
    <2>1. \A q \in Requests : TokensOf[q] \in Nat
      BY <1>1, TokensTyped
    <2>2. QED
      BY <1>1, <1>2, <2>1, TokensTyped DEF WithinBudgets
  <1>8. SumFunctionOnSet(TokensOf', tokenTaken'[k]) <= TokenLimit[k[2]]
    <2>1. SumFunctionOnSet(TokensOf', tokenTaken[k]) = SumFunctionOnSet(TokensOf, tokenTaken[k])
      BY <1>1, <1>2, ChargedStay, TokensFixed
    <2>2. CASE tokenTaken'[k] = tokenTaken[k]
      BY <1>7, <2>1, <2>2
    <2>3. CASE tokenTaken'[k] = {}
      BY <1>3, <2>3, SumEmpty
    <2>4. ASSUME NEW r \in Requests, pc[r] = "tokens", Key(r) \in Keys, TokensFit(r), ChargeTokens(r)
          PROVE  SumFunctionOnSet(TokensOf', tokenTaken'[k]) <= TokenLimit[k[2]]
      <3>1. CASE Key(r) = k
        <4>1. tokenTaken'[k] = tokenTaken[k] \cup {r}
          BY <1>2, <2>4, <3>1 DEF ChargeTokens
        <4>2. TokensIn(tokenTaken[k]) + request[r].tokens <= TokenLimit[k[2]]
          BY <1>4, <2>4, <3>1 DEF TokensFit
        <4>3. r \notin tokenTaken[k]
          BY <1>1, <2>4 DEF SharedInv, TokensAdmitted
        <4>4. request'[r] = request[r]
          BY <1>1, <2>4, ArrivesOnce
        <4>5. SumFunctionOnSet(TokensOf, tokenTaken[k] \cup {r})
                = SumFunctionOnSet(TokensOf, tokenTaken[k]) + TokensOf[r]
          BY <1>2, <1>7, <4>3, SumAdd
        <4>6. SumFunctionOnSet(TokensOf', tokenTaken[k] \cup {r})
                = SumFunctionOnSet(TokensOf, tokenTaken[k] \cup {r})
          <5>1. tokenTaken[k] \cup {r} \in SUBSET Requests
            BY <1>2
          <5>2. \A q \in tokenTaken[k] \cup {r} : request'[q] = request[q]
            BY <1>1, <4>4, ChargedStay
          <5>3. QED
            BY <1>1, <5>1, <5>2, TokensFixed
        <4>7. TokensOf[r] = request[r].tokens
          BY DEF TokensOf
        <4>8. QED
          BY <1>7, <4>1, <4>2, <4>5, <4>6, <4>7
      <3>2. CASE Key(r) # k
        BY <1>2, <2>2, <2>4, <3>2 DEF ChargeTokens
      <3>3. QED
        BY <3>1, <3>2
    <2>5. QED
      BY <1>1, <2>2, <2>3, <2>4, WindowsChange
  <1>9. QED
    BY <1>5, <1>6, <1>8 DEF WithinBudgets

LEMMA PaidInit == Init => PaidInv
  <1> SUFFICES ASSUME Init, NEW k \in Keys PROVE WithinBudgets(k)
    BY SharedInit DEF PaidInv, WindowsWithin, KeysKnown, Init
  <1>1. rateTaken[k] = {} /\ tokenTaken[k] = {}
    BY DEF Init
  <1>2. RateLimit[k[2]] \in Nat \ {0} /\ TokenLimit[k[2]] \in Nat \ {0}
    BY GatewayAssumption DEF Keys
  <1>3. Cardinality(rateTaken[k]) = 0 /\ TokensIn(tokenTaken[k]) = 0
    BY <1>1, FS_EmptySet, SumEmpty DEF TokensIn
  <1>4. QED
    BY <1>2, <1>3 DEF WithinBudgets

LEMMA PaidStep == PaidInv /\ [Next]_vars => PaidInv'
  BY SharedStep, KeysStep, WithinStep DEF PaidInv

-----------------------------------------------------------------------------
(* The load of the backend.  Who was let through to it is in a window that *)
(* is open, or was in one that has ended; those that are in none that is   *)
(* open weigh no more than the ended windows had room for.  weight is 1    *)
(* for the request limiter, and the tokens of a request for the other.     *)
Ended(window, begun) == IF window = {} THEN begun ELSE begun - 1

Covered(weight, limit, passed, window, begun) ==
  /\ window # {} => begun >= 1
  /\ SumFunctionOnSet(weight, passed \ window) <= limit * Ended(window, begun)

LEMMA CoveredTotal ==
  ASSUME NEW weight, NEW limit \in Nat, NEW passed \in SUBSET Requests,
         NEW window \in SUBSET Requests, NEW begun \in Nat, NEW S \in SUBSET passed,
         \A q \in Requests : weight[q] \in Nat,
         Covered(weight, limit, passed, window, begun),
         SumFunctionOnSet(weight, window) <= limit
  PROVE  SumFunctionOnSet(weight, S) <= limit * begun
  <1> DEFINE Out == passed \ window
             All == Out \cup window
  <1>1. IsFiniteSet(Out) /\ IsFiniteSet(window) /\ Out \cap window = {} /\ IsFiniteSet(All)
    <2>1. Out \in SUBSET Requests /\ All \in SUBSET Requests
      OBVIOUS
    <2>2. QED
      BY <2>1, GatewayAssumption, FS_Subset
  <1>2. /\ \A q \in All : weight[q] \in Nat /\ weight[q] \in Int
        /\ \A q \in Out : weight[q] \in Nat
        /\ \A q \in window : weight[q] \in Nat
    OBVIOUS
  <1>3. S \in SUBSET All
    OBVIOUS
  <1>4. SumFunctionOnSet(weight, Out) <= limit * Ended(window, begun)
    BY DEF Covered
  <1> HIDE DEF Out, All
  <1>5. SumFunctionOnSet(weight, S) <= SumFunctionOnSet(weight, All)
    BY <1>1, <1>2, <1>3, SumSubset
  <1>6. SumFunctionOnSet(weight, All) = SumFunctionOnSet(weight, Out) + SumFunctionOnSet(weight, window)
    BY <1>1, <1>2, SumSplit DEF All
  <1>7. /\ SumFunctionOnSet(weight, Out) \in Nat
        /\ SumFunctionOnSet(weight, window) \in Nat
        /\ SumFunctionOnSet(weight, S) \in Nat
    <2>1. IsFiniteSet(S) /\ \A q \in S : weight[q] \in Nat
      BY <1>1, <1>2, <1>3, FS_Subset
    <2>2. QED
      BY <1>1, <1>2, <2>1, SumNat
  <1>8. CASE window = {}
    BY <1>4, <1>5, <1>6, <1>7, <1>8, SumEmpty DEF Ended
  <1>9. CASE window # {}
    <2>1. begun - 1 \in Nat /\ Ended(window, begun) = begun - 1
      BY <1>9 DEF Covered, Ended
    <2>2. limit * (begun - 1) + limit = limit * begun
      BY <2>1
    <2>3. limit * (begun - 1) \in Nat /\ limit * begun \in Nat
      BY <2>1
    <2>4. QED
      BY <1>4, <1>5, <1>6, <1>7, <2>1, <2>2, <2>3
  <1>10. QED
    BY <1>8, <1>9

(* A step may let those pass that it charges, and may end a window.        *)
LEMMA CoveredStep ==
  ASSUME NEW weight, NEW limit \in Nat, NEW passed \in SUBSET Requests,
         NEW window \in SUBSET Requests, NEW begun \in Nat,
         NEW passedNext \in SUBSET Requests, NEW windowNext \in SUBSET Requests, NEW begunNext,
         \A q \in Requests : weight[q] \in Nat,
         Covered(weight, limit, passed, window, begun),
         SumFunctionOnSet(weight, window) <= limit,
         passedNext \subseteq passed \cup windowNext,
         windowNext = {} \/ window \subseteq windowNext,
         begunNext = begun + (IF window = {} /\ windowNext # {} THEN 1 ELSE 0)
  PROVE  begunNext \in Nat /\ Covered(weight, limit, passedNext, windowNext, begunNext)
  <1>1. begunNext \in Nat /\ (windowNext # {} => begunNext >= 1)
    BY DEF Covered
  <1>2. CASE windowNext = {}
    <2>1. passedNext \in SUBSET passed /\ passedNext \ windowNext = passedNext
      BY <1>2
    <2>2. SumFunctionOnSet(weight, passedNext) <= limit * begun
      BY <2>1, CoveredTotal
    <2>3. begunNext = begun /\ Ended(windowNext, begunNext) = begun
      BY <1>2 DEF Ended
    <2>4. QED
      BY <1>1, <1>2, <2>1, <2>2, <2>3 DEF Covered
  <1>3. CASE windowNext # {} /\ window \subseteq windowNext
    <2>1. passedNext \ windowNext \in SUBSET (passed \ window)
      BY <1>3
    <2>2. IsFiniteSet(passed \ window) /\ \A q \in passed \ window : weight[q] \in Nat
      <3>1. passed \ window \in SUBSET Requests
        OBVIOUS
      <3>2. QED
        BY <3>1, GatewayAssumption, FS_Subset
    <2>3. SumFunctionOnSet(weight, passedNext \ windowNext)
            <= SumFunctionOnSet(weight, passed \ window)
      BY <2>1, <2>2, SumSubset
    <2>4. /\ SumFunctionOnSet(weight, passed \ window) \in Nat
          /\ SumFunctionOnSet(weight, passedNext \ windowNext) \in Nat
      <3>1. IsFiniteSet(passedNext \ windowNext)
              /\ \A q \in passedNext \ windowNext : weight[q] \in Nat
        BY <2>1, <2>2, FS_Subset
      <3>2. QED
        BY <2>2, <3>1, SumNat
    <2>5. Ended(windowNext, begunNext) = Ended(window, begun) /\ Ended(window, begun) \in Nat
      BY <1>3 DEF Ended, Covered
    <2>6. limit * Ended(window, begun) \in Nat
      BY <2>5
    <2>7. QED
      BY <1>1, <2>3, <2>4, <2>5, <2>6 DEF Covered
  <1>4. QED
    BY <1>2, <1>3

Ones == [q \in Requests |-> 1]

(* The requests of a key that have passed the first limiter, or both.      *)
PassedRate(k) ==
  {r \in Requests : Key(r) = k /\ (r \in asked \/ pc[r] \in {"tokens", "backend"})}

PassedTokens(k) == {r \in Requests : Key(r) = k /\ (r \in asked \/ pc[r] = "backend")}

HistoryTyped ==
  /\ asked \in SUBSET Requests
  /\ rateWindows \in [Keys -> Nat]
  /\ tokenWindows \in [Keys -> Nat]

PolicyKept ==
  \A r \in Requests :
    /\ r \in asked => pc[r] \notin {"new", "authorize", "rate", "tokens", "backend"}
    /\ r \in asked \/ pc[r] \in {"rate", "tokens", "backend"} => PolicyAllows(request[r])

WindowsCover ==
  \A k \in Keys :
    /\ Covered(Ones, RateLimit[k[2]], PassedRate(k), rateTaken[k], rateWindows[k])
    /\ Covered(TokensOf, TokenLimit[k[2]], PassedTokens(k), tokenTaken[k], tokenWindows[k])

LoadInv == PaidInv /\ HistoryTyped /\ PolicyKept /\ WindowsCover

LEMMA LoadBegins == LoadInit => LoadInv
  <1> SUFFICES ASSUME LoadInit PROVE LoadInv
    OBVIOUS
  <1>1. PaidInv
    BY PaidInit DEF LoadInit
  <1>2. HistoryTyped /\ PolicyKept
    BY DEF LoadInit, Init, HistoryTyped, PolicyKept
  <1>3. ASSUME NEW k \in Keys
        PROVE  PassedRate(k) = {} /\ PassedTokens(k) = {} /\ rateTaken[k] = {} /\ tokenTaken[k] = {}
                 /\ rateWindows[k] = 0 /\ tokenWindows[k] = 0
    BY DEF LoadInit, Init, PassedRate, PassedTokens
  <1>4. ASSUME NEW k \in Keys PROVE RateLimit[k[2]] \in Nat /\ TokenLimit[k[2]] \in Nat
    BY GatewayAssumption DEF Keys
  <1>5. WindowsCover
    <2>1. \A f, limit : limit \in Nat => Covered(f, limit, {}, {}, 0)
      BY SumEmpty DEF Covered, Ended
    <2>2. QED
      BY <1>3, <1>4, <2>1 DEF WindowsCover
  <1>6. QED
    BY <1>1, <1>2, <1>5 DEF LoadInv

LEMMA LoadLooksOn == [LoadNext]_loadVars => [Next]_vars
  BY DEF LoadNext, loadVars

(* Who comes to the second limiter was charged by the first, and who comes *)
(* to the backend by the second.                                           *)
LEMMA NobodyPassesUncharged ==
  ASSUME PaidInv, [Next]_vars, NEW r \in Requests
  PROVE  /\ pc'[r] = "tokens" /\ pc[r] # "tokens" =>
              pc[r] = "rate" /\ Key(r) \in Keys /\ r \in rateTaken'[Key(r)]
         /\ pc'[r] = "backend" /\ pc[r] # "backend" =>
              pc[r] = "tokens" /\ Key(r) \in Keys /\ r \in tokenTaken'[Key(r)]
         /\ pc'[r] = "rate" /\ pc[r] # "rate" => pc[r] = "authorize" /\ PolicyAllows(request[r])
         /\ pc[r] # "new" => pc'[r] # "new"
         /\ pc[r] \notin {"new", "authorize"} => pc'[r] # "authorize"
  <1> USE DEF PaidInv, SharedInv, TypeInv, HandlersTyped, BudgetsTyped, KeysKnown, Goto, handlers
  <1>1. ASSUME NEW q \in Requests, TakeRequest(q)
        PROVE  /\ pc[q] = "rate" /\ pc' \in {[pc EXCEPT ![q] = "tokens"], [pc EXCEPT ![q] = "count"]}
               /\ pc'[q] = "tokens" => Key(q) \in Keys /\ q \in rateTaken'[Key(q)]
    BY <1>1 DEF TakeRequest, ChargeRequest
  <1>2. ASSUME NEW q \in Requests, TakeTokens(q)
        PROVE  /\ pc[q] = "tokens" /\ pc' \in {[pc EXCEPT ![q] = "backend"], [pc EXCEPT ![q] = "count"]}
               /\ pc'[q] = "backend" => Key(q) \in Keys /\ q \in tokenTaken'[Key(q)]
    BY <1>2 DEF TakeTokens, ChargeTokens
  <1>3. ASSUME NEW q \in Requests, Authorize(q)
        PROVE  /\ pc[q] = "authorize" /\ pc' \in {[pc EXCEPT ![q] = "rate"], [pc EXCEPT ![q] = "count"]}
               /\ pc'[q] = "rate" => PolicyAllows(request[q])
    BY <1>3 DEF Authorize
  <1>4. ASSUME NEW q \in Requests, Arrive(q)
        PROVE  pc[q] = "new" /\ pc' = [pc EXCEPT ![q] = "authorize"]
    BY <1>4 DEF Arrive
  <1>5. ASSUME NEW q \in Requests, LimiterRaises(q) \/ Serving(q) \/ Recording(q) \/ Reply(q)
        PROVE  \E l \in {"count", "gate", "audit", "trace", "reply", "stream", "done"} :
                 pc' = [pc EXCEPT ![q] = l]
    BY <1>5 DEF LimiterRaises, Serving, CallBackend, BackendMalformed, EndStream,
                StreamNeverStarts, Recording, Count, AfterCount, Gate, Audit, ExportSpan,
                RecordingRaises, Reply
  <1>6. CASE Crash
    BY <1>6 DEF Crash, InHandler
  <1>7. CASE UNCHANGED pc
    BY <1>7
  <1>8. CASE \E q \in Requests : Arrive(q) \/ Handle(q)
    BY <1>1, <1>2, <1>3, <1>4, <1>5, <1>8 DEF Handle, Admission
  <1>9. QED
    BY <1>6, <1>7, <1>8 DEF Next, RequestWindowEnds, TokenWindowEnds, DenialWindowEnds, vars

LEMMA AskedOnce ==
  ASSUME LoadInv, [LoadNext]_loadVars, NEW r \in Requests
  PROVE  /\ r \in asked' => r \in asked \/ (pc[r] = "backend" /\ pc'[r] # "backend")
         /\ asked' \in SUBSET Requests
  BY DEF LoadInv, HistoryTyped, LoadNext, loadVars, Asks

LEMMA PolicyStep == ASSUME LoadInv, [LoadNext]_loadVars PROVE PolicyKept'
  <1> SUFFICES ASSUME NEW r \in Requests
               PROVE  /\ r \in asked' => pc'[r] \notin {"new", "authorize", "rate", "tokens", "backend"}
                      /\ r \in asked' \/ pc'[r] \in {"rate", "tokens", "backend"} =>
                           PolicyAllows(request'[r])
    BY DEF PolicyKept, PolicyAllows
  <1>1. [Next]_vars /\ PaidInv /\ SharedInv
    BY LoadLooksOn DEF LoadInv, PaidInv
  <1>2. /\ r \in asked => pc[r] \notin {"new", "authorize", "rate", "tokens", "backend"}
        /\ r \in asked \/ pc[r] \in {"rate", "tokens", "backend"} => PolicyAllows(request[r])
    BY DEF LoadInv, PolicyKept
  <1>3. pc[r] # "new" => request'[r] = request[r]
    BY <1>1, ArrivesOnce
  <1>4. r \in asked' => r \in asked \/ (pc[r] = "backend" /\ pc'[r] # "backend")
    BY AskedOnce
  <1>5. QED
    BY <1>1, <1>2, <1>3, <1>4, NobodyPassesUncharged

LEMMA PassedStep ==
  ASSUME LoadInv, [LoadNext]_loadVars, NEW k \in Keys
  PROVE  /\ PassedRate(k)' \subseteq PassedRate(k) \cup rateTaken'[k]
         /\ PassedTokens(k)' \subseteq PassedTokens(k) \cup tokenTaken'[k]
         /\ \A r \in PassedTokens(k) : pc[r] # "new"
  <1>1. [Next]_vars /\ PaidInv /\ SharedInv
    BY LoadLooksOn DEF LoadInv, PaidInv
  <1>2. ASSUME NEW r \in Requests, r \in asked' \/ pc'[r] \in {"tokens", "backend"}
        PROVE  /\ Key(r)' = Key(r)
               /\ r \in asked \/ pc[r] \in {"tokens", "backend"} \/ r \in rateTaken'[Key(r)]
               /\ r \in asked' \/ pc'[r] = "backend" =>
                    r \in asked \/ pc[r] = "backend" \/ r \in tokenTaken'[Key(r)]
    <2>1. r \in asked' => r \in asked \/ (pc[r] = "backend" /\ pc'[r] # "backend")
      BY AskedOnce
    <2>2. r \in asked => pc[r] # "new"
      BY DEF LoadInv, PolicyKept
    <2>3. pc[r] # "new"
      BY <1>1, <1>2, <2>1, <2>2, NobodyPassesUncharged
    <2>4. request'[r] = request[r]
      BY <1>1, <2>3, ArrivesOnce
    <2>5. Key(r)' = Key(r)
      BY <2>4 DEF Key
    <2>6. QED
      BY <1>1, <1>2, <2>1, <2>5, NobodyPassesUncharged
  <1>3. \A r \in PassedTokens(k) : pc[r] # "new"
    BY DEF LoadInv, PolicyKept, PassedTokens
  <1>4. PassedRate(k)' \subseteq PassedRate(k) \cup rateTaken'[k]
    BY <1>2 DEF PassedRate
  <1>5. PassedTokens(k)' \subseteq PassedTokens(k) \cup tokenTaken'[k]
    BY <1>2 DEF PassedTokens
  <1>6. QED
    BY <1>3, <1>4, <1>5

(* A window is emptied, or keeps whom it has.                              *)
LEMMA WindowsGrow ==
  ASSUME SharedInv, KeysKnown, [Next]_vars, NEW k \in Keys
  PROVE  /\ rateTaken'[k] = {} \/ rateTaken[k] \subseteq rateTaken'[k]
         /\ tokenTaken'[k] = {} \/ tokenTaken[k] \subseteq tokenTaken'[k]
  <1> USE DEF SharedInv, TypeInv, BudgetsTyped
  <1>1. ASSUME NEW r \in Requests, ChargeRequest(r) PROVE rateTaken[k] \subseteq rateTaken'[k]
    BY <1>1 DEF ChargeRequest
  <1>2. ASSUME NEW r \in Requests, ChargeTokens(r) PROVE tokenTaken[k] \subseteq tokenTaken'[k]
    BY <1>2 DEF ChargeTokens
  <1>3. QED
    BY <1>1, <1>2, WindowsChange

LEMMA BegunStep ==
  ASSUME LoadInv, [LoadNext]_loadVars, NEW k \in Keys
  PROVE  /\ rateWindows'[k]
               = rateWindows[k] + (IF rateTaken[k] = {} /\ rateTaken'[k] # {} THEN 1 ELSE 0)
         /\ tokenWindows'[k]
               = tokenWindows[k] + (IF tokenTaken[k] = {} /\ tokenTaken'[k] # {} THEN 1 ELSE 0)
         /\ rateWindows[k] \in Nat /\ tokenWindows[k] \in Nat
  <1>1. rateWindows[k] \in Nat /\ tokenWindows[k] \in Nat
    BY DEF LoadInv, HistoryTyped
  <1>2. CASE LoadNext
    BY <1>1, <1>2 DEF LoadNext, Begun
  <1>3. CASE UNCHANGED loadVars
    BY <1>1, <1>3 DEF loadVars, vars, budgets
  <1>4. QED
    BY <1>1, <1>2, <1>3

LEMMA CoverStep == ASSUME LoadInv, PaidInv', [LoadNext]_loadVars PROVE WindowsCover'
  <1> SUFFICES ASSUME NEW k \in Keys
               PROVE  /\ Covered(Ones, RateLimit[k[2]], PassedRate(k), rateTaken[k], rateWindows[k])'
                      /\ Covered(TokensOf, TokenLimit[k[2]], PassedTokens(k), tokenTaken[k],
                                 tokenWindows[k])'
    BY DEF WindowsCover
  <1>1. [Next]_vars /\ PaidInv /\ SharedInv /\ KeysKnown /\ SharedInv'
    BY LoadLooksOn DEF LoadInv, PaidInv
  <1>2. RateLimit[k[2]] \in Nat /\ TokenLimit[k[2]] \in Nat
    BY GatewayAssumption DEF Keys
  <1>3. /\ rateTaken[k] \in SUBSET Requests /\ tokenTaken[k] \in SUBSET Requests
        /\ rateTaken'[k] \in SUBSET Requests /\ tokenTaken'[k] \in SUBSET Requests
    BY <1>1 DEF SharedInv, TypeInv, BudgetsTyped
  <1>4. /\ PassedRate(k) \in SUBSET Requests /\ PassedTokens(k) \in SUBSET Requests
        /\ PassedRate(k)' \in SUBSET Requests /\ PassedTokens(k)' \in SUBSET Requests
    BY DEF PassedRate, PassedTokens
  <1>5. /\ Covered(Ones, RateLimit[k[2]], PassedRate(k), rateTaken[k], rateWindows[k])
        /\ Covered(TokensOf, TokenLimit[k[2]], PassedTokens(k), tokenTaken[k], tokenWindows[k])
    BY DEF LoadInv, WindowsCover
  <1>6. /\ SumFunctionOnSet(Ones, rateTaken[k]) <= RateLimit[k[2]]
        /\ SumFunctionOnSet(TokensOf, tokenTaken[k]) <= TokenLimit[k[2]]
    <2>1. WithinBudgets(k)
      BY <1>1 DEF PaidInv, WindowsWithin
    <2>2. IsFiniteSet(rateTaken[k]) /\ \A q \in rateTaken[k] : Ones[q] = 1
      BY <1>1, <1>3, TokensTyped DEF Ones
    <2>3. SumFunctionOnSet(Ones, rateTaken[k]) = Cardinality(rateTaken[k])
      BY <2>2, SumOfOnes
    <2>4. TokensIn(tokenTaken[k]) = SumFunctionOnSet(TokensOf, tokenTaken[k])
      BY <1>1, <1>3, TokensTyped
    <2>5. QED
      BY <2>1, <2>3, <2>4 DEF WithinBudgets
  <1>7. (\A q \in Requests : Ones[q] \in Nat) /\ (\A q \in Requests : TokensOf[q] \in Nat)
    <2>1. \A q \in Requests : TokensOf[q] \in Nat
      BY <1>1, TokensTyped
    <2>2. QED
      BY <2>1 DEF Ones
  <1>8. Covered(Ones, RateLimit[k[2]], PassedRate(k)', rateTaken'[k], rateWindows'[k])
    BY <1>1, <1>2, <1>3, <1>4, <1>5, <1>6, <1>7, PassedStep, WindowsGrow, BegunStep, CoveredStep
  <1>9. Covered(TokensOf, TokenLimit[k[2]], PassedTokens(k)', tokenTaken'[k], tokenWindows'[k])
    BY <1>1, <1>2, <1>3, <1>4, <1>5, <1>6, <1>7, PassedStep, WindowsGrow, BegunStep, CoveredStep
  <1>10. SumFunctionOnSet(TokensOf', PassedTokens(k)' \ tokenTaken'[k])
           = SumFunctionOnSet(TokensOf, PassedTokens(k)' \ tokenTaken'[k])
    <2>1. PassedTokens(k)' \ tokenTaken'[k] \in SUBSET Requests
      BY <1>4
    <2>2. ASSUME NEW q \in PassedTokens(k)' \ tokenTaken'[k] PROVE request'[q] = request[q]
      BY <1>1, <2>1, <2>2, PassedStep, ArrivesOnce
    <2>3. QED
      BY <1>1, <2>1, <2>2, TokensFixed
  <1>11. Covered(Ones, RateLimit[k[2]], PassedRate(k), rateTaken[k], rateWindows[k])'
    BY <1>8 DEF Covered, Ended, Ones
  <1>12. Covered(TokensOf, TokenLimit[k[2]], PassedTokens(k), tokenTaken[k], tokenWindows[k])'
    BY <1>9, <1>10 DEF Covered, Ended
  <1>13. QED
    BY <1>11, <1>12

LEMMA LoadStep == LoadInv /\ [LoadNext]_loadVars => LoadInv'
  <1> SUFFICES ASSUME LoadInv, [LoadNext]_loadVars PROVE LoadInv'
    OBVIOUS
  <1>1. PaidInv'
    BY PaidStep, LoadLooksOn DEF LoadInv
  <1>2. PolicyKept' /\ WindowsCover'
    BY <1>1, PolicyStep, CoverStep
  <1>3. HistoryTyped'
    <2>1. \A k \in Keys : rateWindows'[k] \in Nat /\ tokenWindows'[k] \in Nat
      BY BegunStep
    <2>2. DOMAIN rateWindows' = Keys /\ DOMAIN tokenWindows' = Keys
      BY DEF LoadInv, HistoryTyped, LoadNext, loadVars
    <2>3. /\ rateWindows' = [k \in Keys |-> rateWindows'[k]]
          /\ tokenWindows' = [k \in Keys |-> tokenWindows'[k]]
      BY DEF LoadInv, HistoryTyped, LoadNext, loadVars
    <2>4. asked' \in SUBSET Requests
      BY DEF LoadInv, HistoryTyped, LoadNext, loadVars
    <2>5. QED
      BY <2>1, <2>3, <2>4 DEF HistoryTyped
  <1>4. QED
    BY <1>1, <1>2, <1>3 DEF LoadInv

LEMMA LoadBounded == LoadInv => BackendWithinBudgets
  <1> SUFFICES ASSUME LoadInv PROVE BackendWithinBudgets
    OBVIOUS
  <1>1. PaidInv /\ SharedInv
    BY DEF LoadInv, PaidInv
  <1>2. \A r \in asked : PolicyAllows(request[r])
    BY DEF LoadInv, PolicyKept, HistoryTyped
  <1>3. ASSUME NEW k \in Keys
        PROVE  /\ Cardinality(Asked(k)) <= RateLimit[k[2]] * rateWindows[k]
               /\ TokensIn(Asked(k)) <= TokenLimit[k[2]] * tokenWindows[k]
    <2>1. RateLimit[k[2]] \in Nat /\ TokenLimit[k[2]] \in Nat
      BY GatewayAssumption DEF Keys
    <2>2. /\ Asked(k) \in SUBSET PassedRate(k) /\ Asked(k) \in SUBSET PassedTokens(k)
          /\ PassedRate(k) \in SUBSET Requests /\ PassedTokens(k) \in SUBSET Requests
          /\ Asked(k) \in SUBSET Requests
      BY DEF Asked, PassedRate, PassedTokens, LoadInv, HistoryTyped
    <2>3. /\ rateTaken[k] \in SUBSET Requests /\ tokenTaken[k] \in SUBSET Requests
          /\ rateWindows[k] \in Nat /\ tokenWindows[k] \in Nat
      BY <1>1 DEF SharedInv, TypeInv, BudgetsTyped, LoadInv, HistoryTyped
    <2>4. /\ Covered(Ones, RateLimit[k[2]], PassedRate(k), rateTaken[k], rateWindows[k])
          /\ Covered(TokensOf, TokenLimit[k[2]], PassedTokens(k), tokenTaken[k], tokenWindows[k])
      BY DEF LoadInv, WindowsCover
    <2>5. /\ \A S \in SUBSET Requests :
               /\ SumFunctionOnSet(Ones, S) = Cardinality(S)
               /\ SumFunctionOnSet(TokensOf, S) = TokensIn(S)
          /\ \A q \in Requests : Ones[q] \in Nat
          /\ \A q \in Requests : TokensOf[q] \in Nat
      <3>1. ASSUME NEW S \in SUBSET Requests
            PROVE  /\ SumFunctionOnSet(Ones, S) = Cardinality(S)
                   /\ SumFunctionOnSet(TokensOf, S) = TokensIn(S)
        <4>1. IsFiniteSet(S) /\ \A q \in S : Ones[q] = 1
          BY <1>1, TokensTyped DEF Ones
        <4>2. SumFunctionOnSet(TokensOf, S) = TokensIn(S)
          BY <1>1, TokensTyped
        <4>3. QED
          BY <4>1, <4>2, SumOfOnes
      <3>2. \A q \in Requests : TokensOf[q] \in Nat
        BY <1>1, TokensTyped
      <3>3. \A q \in Requests : Ones[q] \in Nat
        BY DEF Ones
      <3>4. QED
        BY <3>1, <3>2, <3>3
    <2>6. /\ SumFunctionOnSet(Ones, rateTaken[k]) <= RateLimit[k[2]]
          /\ SumFunctionOnSet(TokensOf, tokenTaken[k]) <= TokenLimit[k[2]]
      BY <1>1, <2>3, <2>5 DEF PaidInv, WindowsWithin, WithinBudgets
    <2>7. SumFunctionOnSet(Ones, Asked(k)) <= RateLimit[k[2]] * rateWindows[k]
      BY <2>1, <2>2, <2>3, <2>4, <2>5, <2>6, CoveredTotal
    <2>8. SumFunctionOnSet(TokensOf, Asked(k)) <= TokenLimit[k[2]] * tokenWindows[k]
      BY <2>1, <2>2, <2>3, <2>4, <2>5, <2>6, CoveredTotal
    <2>9. QED
      BY <2>2, <2>5, <2>7, <2>8
  <1>4. QED
    BY <1>2, <1>3 DEF BackendWithinBudgets

(* For any requests, limits, faults and restarts, and wherever windows     *)
(* end: the backend is asked for what the policy allows, and never for     *)
(* more requests or tokens of a key than its windows so far have room for. *)
THEOREM BackendLoadBounded == LoadSpec => []BackendWithinBudgets
  BY LoadBegins, LoadStep, LoadBounded, PTL DEF LoadSpec
=============================================================================
