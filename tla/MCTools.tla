------------------------------- MODULE MCTools -------------------------------
(* Instances for TLC of the tools beside the gateway, which have nothing   *)
(* in common: one of them runs, and the others do not start.               *)
(*   Sampling (and Benchmark): one cell, one level.                        *)
(*   Readiness: one caller and two models, one of which wants a reason;    *)
(*     reviews that are good, or each amiss in one place.                  *)
(*   Probe: of one request, of twenty-one (the first whose 95th percentile *)
(*     is not the last), of the most and of too many.                      *)
(*   ReplicaCheck: deployments with and without Redis, with the limit or   *)
(*     half of it, the window or a longer one, and windows that are unused *)
(*     or half used up.                                                    *)
(*   Overhead: the connections and requests that its configuration names.  *)
EXTENDS Sampling, Readiness, Probe, ReplicaCheck, Overhead

CONSTANTS analyst, summarizer, echo

AnalystGrants == {<<analyst, summarizer>>, <<analyst, echo>>}

Replayed(model, characters, reason) ==
  [caller |-> analyst, model |-> model, characters |-> characters, reason |-> reason]

Workload ==
  {Replayed(summarizer, 4, TRUE), Replayed(summarizer, 9, TRUE), Replayed(summarizer, 4, FALSE),
   Replayed(echo, 0, FALSE)}

Base == [m \in Models |-> IF m = echo THEN 18000 ELSE 42000]
MeasuredProfile ==
  [m \in Models |-> [requests |-> 5, tokens |-> 5, utilization |-> IF m = echo THEN 36 ELSE 68]]
Margins == [target |-> 72, margin |-> 20]

Scenarios == {"latency", "errors"}

ProbeOf(scenario, latency) ==
  [scenario |-> scenario, baseline |-> 100, latency |-> latency, errors |-> 1, queue |-> 8,
   recovery |-> 18]

Good ==
  [limits |-> [m \in Models |-> [requests |-> 3, tokens |-> 3]],
   maxLatency |-> 43500, maxUtilization |-> 80,
   phases |-> <<[traffic |-> 0, reserved |-> 5], [traffic |-> 50, reserved |-> 60],
                [traffic |-> 100, reserved |-> 100]>>,
   probes |-> {ProbeOf("latency", 150), ProbeOf("errors", 100)},
   maxSlowdown |-> 150, maxErrors |-> 2, maxQueue |-> 64, maxRecovery |-> 60]

FourRequests == [m \in Models |-> [requests |-> 4, tokens |-> 3]]
SixTokens == [m \in Models |-> [requests |-> 3, tokens |-> 6]]

MixedReviews ==
  {Good,
   [Good EXCEPT !.limits = FourRequests],
   [Good EXCEPT !.limits = SixTokens],
   [Good EXCEPT !.limits = FourRequests, !.phases = SubSeq(@, 1, 2)],
   [Good EXCEPT !.phases = Append(@, [traffic |-> 100, reserved |-> 90])],
   [Good EXCEPT !.probes = {ProbeOf("latency", 150)}],
   [Good EXCEPT !.probes = {ProbeOf("latency", 151), ProbeOf("errors", 100)}]}

Probes ==
  {[requests |-> n, given |-> g, blank |-> FALSE, failOnHold |-> TRUE] :
     n \in {0, 1, 21}, g \in {0, 33}}
  \cup {[requests |-> 32, given |-> 0, blank |-> FALSE, failOnHold |-> FALSE],
        [requests |-> 3, given |-> 2, blank |-> TRUE, failOnHold |-> FALSE]}

OneLevel == <<1>>

TheCell == [workload |-> 0, level |-> 0]

(* As the check is told, or amiss in one place; with Redis and without.    *)
SomeDeployments ==
  UNION {{[shared |-> shared, limit |-> 2, window |-> 2, spent |-> 0],
          [shared |-> shared, limit |-> 1, window |-> 2, spent |-> 0],
          [shared |-> shared, limit |-> 2, window |-> 3, spent |-> 0],
          [shared |-> shared, limit |-> 2, window |-> 2, spent |-> 1]} : shared \in BOOLEAN}

-----------------------------------------------------------------------------
VARIABLE tool  \* the one that runs

ToolsInit ==
  /\ tool \in {"benchmark", "readiness", "probe", "replicas", "overhead"}
  /\ SamplingInit /\ ReadinessInit /\ ProbeInit /\ ReplicaInit /\ OverheadInit
  /\ tool # "readiness" => review = Good
  /\ tool # "probe" => invocation.blank
  /\ tool # "replicas" => clock = 0 /\ deployment.shared /\ deployment.window = 3

ToolsNext ==
  /\ UNCHANGED tool
  /\ \/ /\ tool = "benchmark" /\ SamplingNext
        /\ UNCHANGED <<readinessVars, probeVars, replicaVars, overheadVars>>
     \/ /\ tool = "readiness" /\ ReadinessNext
        /\ UNCHANGED <<samplingVars, probeVars, replicaVars, overheadVars>>
     \/ /\ tool = "probe" /\ ProbeNext
        /\ UNCHANGED <<samplingVars, readinessVars, replicaVars, overheadVars>>
     \/ /\ tool = "replicas" /\ ReplicaNext
        /\ UNCHANGED <<samplingVars, readinessVars, probeVars, overheadVars>>
     \/ /\ tool = "overhead" /\ OverheadNext
        /\ UNCHANGED <<samplingVars, readinessVars, probeVars, replicaVars>>

ToolsSpec ==
  /\ ToolsInit
  /\ [][ToolsNext]_<<tool, samplingVars, readinessVars, probeVars, replicaVars, overheadVars>>
=============================================================================
