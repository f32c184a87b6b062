------------------------------ MODULE Readiness ------------------------------
(***************************************************************************)
(* The chain of reports that a change of limits must pass before a rollout *)
(* (docs/OPERATIONS.md): the replay of a workload through the gateway's    *)
(* policy and limiters (workload_replay.py), the capacity plan             *)
(* (capacity_plan.py), the limiter's rules (distributed_limiter.py), the   *)
(* phases of the deployment (deployment_readiness.py) and the drill of     *)
(* degraded conditions (resilience_drill.py).  Each report takes the       *)
(* earlier ones' verdicts into its gates; one gate that holds, holds all.  *)
(*                                                                         *)
(* A replay is over long before a window is, so that every key has one     *)
(* window.  Fractions are whole percents, latencies are in microseconds,   *)
(* and ratios are compared before they are rounded.                        *)
(***************************************************************************)
EXTENDS Integers, SequencesExt

CONSTANTS
  Callers, Models,
  Grants,             \* the (caller, model) pairs whose roles meet
  ReasonRequired,     \* the models that want a reason
  Replayable,         \* the requests a workload is made of
  BaseLatency,        \* of a model
  Profile,            \* of a model: requests and tokens a minute, at a utilization
  Assumption,         \* of the plan: the utilization it aims at, the safety margin
  Reviews,            \* what a review may be given: limits, thresholds, phases and probes
  RequiredScenarios,
  MaxReplayed         \* bound: length of a workload

Limits == [requests : Nat \ {0}, tokens : Nat \ {0}]

Percent == 0 .. 100

ASSUME ReadinessAssumption ==
  /\ IsFiniteSet(Models) /\ Models # {}
  /\ Grants \subseteq Callers \X Models
  /\ ReasonRequired \subseteq Models
  /\ \A r \in Replayable : r.characters \in Nat /\ r.reason \in BOOLEAN
  /\ BaseLatency \in [Models -> Nat]
  /\ \A m \in Models : /\ [requests |-> Profile[m].requests, tokens |-> Profile[m].tokens] \in Limits
                       /\ Profile[m].utilization \in Percent \ {0}
  /\ Assumption.target \in Percent \ {0} /\ Assumption.margin \in Percent \ {100}
  /\ \A v \in Reviews :
       /\ v.limits \in [Models -> Limits]
       /\ v.maxLatency \in Nat \ {0}
       /\ v.maxUtilization \in Percent \ {0}
       /\ v.phases \in Seq([traffic : Int, reserved : Int])
  /\ MaxReplayed \in Nat

VARIABLES
  review,     \* the inputs of this review
  taken,      \* requests admitted by the request limiter, by key
  spent,      \* tokens admitted by the token limiter, by key
  outcomes,   \* of the requests replayed so far, in order
  latencies   \* of the allowed ones, in order

readinessVars == <<review, taken, spent, outcomes, latencies>>

Keys == Callers \X Models

Outcomes == {"allowed", "policy_denied", "rate_limited", "token_budget_limited"}

Key(request) == <<request.caller, request.model>>

(* estimate_input_tokens: four characters a token, rounded up.             *)
Tokens(request) == Max({1, (request.characters + 3) \div 4})

PolicyAllows(request) ==
  /\ Key(request) \in Grants
  /\ request.model \in ReasonRequired => request.reason

-----------------------------------------------------------------------------
ReadinessInit ==
  /\ review \in Reviews
  /\ taken = [k \in Keys |-> 0]
  /\ spent = [k \in Keys |-> 0]
  /\ outcomes = <<>>
  /\ latencies = <<>>

RequestFits(request) == taken[Key(request)] < review.limits[request.model].requests

TokensFit(request) ==
  spent[Key(request)] + Tokens(request) <= review.limits[request.model].tokens

(* estimate_latency_ms: what a model takes, its tokens up to a point, and  *)
(* a jitter by the request's place in the workload.                        *)
Latency(request, place) ==
  BaseLatency[request.model] + Min({18 * Tokens(request), 34000}) + 700 * (place % 5)

Record(outcome) == Len(outcomes) < MaxReplayed /\ outcomes' = Append(outcomes, outcome)

Deny(request) ==
  /\ ~ PolicyAllows(request)
  /\ Record("policy_denied")
  /\ UNCHANGED <<review, taken, spent, latencies>>

LimitRequests(request) ==
  /\ PolicyAllows(request) /\ ~ RequestFits(request)
  /\ Record("rate_limited")
  /\ UNCHANGED <<review, taken, spent, latencies>>

TakeRequest(request) ==
  /\ PolicyAllows(request) /\ RequestFits(request)
  /\ taken' = [taken EXCEPT ![Key(request)] = @ + 1]

(* Mutant: the outcome of the other limiter is counted.                    *)
LimitTokensMisnamed(request) ==
  /\ TakeRequest(request) /\ ~ TokensFit(request)
  /\ Record("token_limited")
  /\ UNCHANGED <<review, spent, latencies>>

LimitTokens(request) ==
  /\ TakeRequest(request) /\ ~ TokensFit(request)
  /\ Record("token_budget_limited")
  /\ UNCHANGED <<review, spent, latencies>>

Allow(request) ==
  /\ TakeRequest(request) /\ TokensFit(request)
  /\ spent' = [spent EXCEPT ![Key(request)] = @ + Tokens(request)]
  /\ Record("allowed")
  /\ latencies' = Append(latencies, Latency(request, Len(outcomes) + 1))
  /\ UNCHANGED review

ReadinessNext ==
  \E request \in Replayable :
    Deny(request) \/ LimitRequests(request) \/ LimitTokens(request) \/ Allow(request)

ReadinessSpec == ReadinessInit /\ [][ReadinessNext]_readinessVars
-----------------------------------------------------------------------------
(* workload_replay.py: percentile and build_release_gates.                 *)
(* Mutant: the rank is rounded down.                                       *)
RankRoundedDown(percent, count) == Max({1, (percent * count) \div 100})

Rank(percent, count) == Max({1, (percent * count + 99) \div 100})

(* The sample of this rank in the sorted list: the least that so many keep *)
(* to.                                                                     *)
Percentile(samples, percent) ==
  Min({x \in ToSet(samples) :
         Cardinality({n \in DOMAIN samples : samples[n] <= x}) >= Rank(percent, Len(samples))})

WorkloadReady ==
  /\ Outcomes \subseteq ToSet(outcomes)
  /\ latencies # <<>>
  /\ Percentile(latencies, 95) <= review.maxLatency

(* capacity_plan.py: a limit over what the model is thought to sustain, at *)
(* the target utilization and less the margin.  UtilizationWithin compares *)
(* a share of that ratio with a threshold, both in percent.                *)
Modeled(measured) == measured * Assumption.target * (100 - Assumption.margin)

UtilizationWithin(m, budget, share, threshold) ==
  review.limits[m][budget] * Profile[m].utilization * 100 * share
    <= threshold * Modeled(Profile[m][budget])

LimitsWithin(m, share, threshold) ==
  \A budget \in {"requests", "tokens"} : UtilizationWithin(m, budget, share, threshold)

CapacityReady == Models # {} /\ \A m \in Models : LimitsWithin(m, 100, 100)

(* distributed_limiter.py: two rules for every policy.  That its script    *)
(* has the fragments of a fixed window is a constant of the code.          *)
Rules == Models \X {"request_count", "estimated_input_tokens"}

LimiterReady ==
  /\ Cardinality(Rules) = 2 * Cardinality(Models)
  /\ {rule[2] : rule \in Rules} = {"request_count", "estimated_input_tokens"}

(* deployment_readiness.py: a phase that reserves less than its traffic is *)
(* refused, and so is the report.                                          *)
PhaseValid(phase) ==
  /\ phase.traffic \in Percent /\ phase.reserved \in Percent \ {0}
  /\ phase.reserved >= phase.traffic

(* Mutant: any phases will do.                                             *)
RolloutShapedLoosely(phases) == phases # <<>>

RolloutShaped(phases) == phases # <<>> /\ Last(phases).traffic = 100

SourcesReady == CapacityReady /\ WorkloadReady /\ LimiterReady

DeploymentGates ==
  /\ SourcesReady
  /\ RolloutShaped(review.phases)
  /\ \A phase \in ToSet(review.phases), m \in Models :
       LimitsWithin(m, phase.reserved, review.maxUtilization)

DeploymentReady ==
  /\ \A phase \in ToSet(review.phases) : PhaseValid(phase)
  /\ DeploymentGates

(* resilience_drill.py.                                                    *)
ProbePasses(probe) ==
  /\ 100 * probe.latency <= probe.baseline * review.maxSlowdown
  /\ probe.errors <= review.maxErrors
  /\ probe.queue <= review.maxQueue
  /\ probe.recovery <= review.maxRecovery

ScenariosCovered == RequiredScenarios \subseteq {probe.scenario : probe \in review.probes}

DrillSourcesReady == SourcesReady /\ DeploymentReady

DrillGates ==
  /\ DrillSourcesReady
  /\ ScenariosCovered
  /\ \A probe \in review.probes : ProbePasses(probe)

DrillReady == review.probes # {} /\ DrillGates

-----------------------------------------------------------------------------
ReadinessTypeOK ==
  /\ review \in Reviews
  /\ taken \in [Keys -> Nat]
  /\ spent \in [Keys -> Nat]
  /\ outcomes \in Seq(Outcomes)
  /\ latencies \in Seq(Nat)

AllowedWithin(latency) == {n \in DOMAIN latencies : latencies[n] <= latency}

(* The last verdict of the chain is as good as its words: a change that is *)
(* ready for review, whatever it was made of, has limits that fit into the *)
(* threshold's share of what was measured even when a model has all of its *)
(* traffic, though the gates see phases only and the plan sees no rollout; *)
(* its replay reached every guardrail, its windows within their limits,    *)
(* with 95 percent of what was allowed in time; and a probe of each        *)
(* required scenario recovered (workload_replay.py:75-215,                 *)
(* capacity_plan.py:112-143, deployment_readiness.py:95-290,               *)
(* resilience_drill.py:165-373).                                           *)
ReadyIsEarned ==
  DrillReady =>
    /\ \A m \in Models : LimitsWithin(m, 100, review.maxUtilization)
    /\ \A k \in Keys : taken[k] <= review.limits[k[2]].requests
                        /\ spent[k] <= review.limits[k[2]].tokens
    /\ \E n \in 1 .. Len(outcomes) : \E k \in Keys :
         outcomes[n] = "rate_limited" /\ taken[k] = review.limits[k[2]].requests
    /\ 100 * Cardinality(AllowedWithin(review.maxLatency)) >= 95 * Len(latencies)
    /\ \A scenario \in RequiredScenarios : \E probe \in review.probes :
         probe.scenario = scenario /\ ProbePasses(probe)
=============================================================================
