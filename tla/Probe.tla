-------------------------------- MODULE Probe --------------------------------
(***************************************************************************)
(* The probe of an inference backend (gateway/backend_probe.py): a bounded *)
(* number of requests, one after the other, through the adapter            *)
(* (backend_adapter.py:132-187), and a report of how many were answered    *)
(* and of their latencies' percentiles.  Requests that fail are counted    *)
(* and the probe goes on; its verdict is "pass" if none did.               *)
(*                                                                         *)
(* Of the latencies it has the number of each, which is all that a sorted  *)
(* list tells.  The token counts that answers report, and what inputs and  *)
(* outputs say, are left out.                                              *)
(***************************************************************************)
EXTENDS Integers, FiniteSetsExt, Functions

CONSTANTS
  MaxRequests,  \* MAX_REQUESTS
  Durations,    \* latencies an answer may have
  Invocations   \* requests: --requests; given: how many --input there are

ASSUME ProbeAssumption ==
  /\ MaxRequests \in Nat \ {0}
  /\ Durations \subseteq Nat /\ IsFiniteSet(Durations)
  /\ Invocations \subseteq [requests : Int, given : Nat, blank : BOOLEAN, failOnHold : BOOLEAN]

VARIABLES
  invocation,
  probing,   \* "running", "refused", "raised" or "reported"
  answers,   \* how many answers took how long
  failures,
  verdict,   \* the report's status
  exitCode

probeVars == <<invocation, probing, answers, failures, verdict, exitCode>>

Attempted == IF invocation.given > 0 THEN invocation.given ELSE invocation.requests

(* What main checks, and run_probe after it.                               *)
InBounds ==
  /\ invocation.requests \in 1 .. MaxRequests
  /\ Attempted <= MaxRequests
  /\ ~ invocation.blank

Successful == SumFunction(answers)

ProbeInit ==
  /\ invocation \in Invocations
  /\ probing = "running"
  /\ answers = [d \in Durations |-> 0]
  /\ failures = 0
  /\ verdict = "none"
  /\ exitCode = "none"

Refuse ==
  /\ ~ InBounds
  /\ probing = "running" /\ probing' = "refused"
  /\ UNCHANGED <<invocation, answers, failures, verdict, exitCode>>

MoreInputs == probing = "running" /\ InBounds /\ Successful + failures < Attempted

Succeed(duration) ==
  /\ MoreInputs
  /\ answers' = [answers EXCEPT ![duration] = @ + 1]
  /\ UNCHANGED <<invocation, probing, failures, verdict, exitCode>>

(* BackendAdapterError: no connection, a timeout, a status that is no      *)
(* success, no JSON or not of the shape of a completion.                   *)
Fail ==
  /\ MoreInputs
  /\ failures' = failures + 1
  /\ UNCHANGED <<invocation, probing, answers, verdict, exitCode>>

(* What the adapter lets through, as of a body that is cut short, ends the *)
(* probe without a report.                                                 *)
Abort ==
  /\ MoreInputs
  /\ probing' = "raised"
  /\ UNCHANGED <<invocation, answers, failures, verdict, exitCode>>

PassesEverything == Successful = Attempted /\ Successful > 0

Report ==
  /\ probing = "running" /\ InBounds /\ ~ MoreInputs
  /\ probing' = "reported"
  /\ verdict' = IF PassesEverything THEN "pass" ELSE "hold"
  /\ exitCode' = IF PassesEverything \/ ~ invocation.failOnHold THEN "0" ELSE "2"
  /\ UNCHANGED <<invocation, answers, failures>>

ProbeNext == Refuse \/ (\E d \in Durations : Succeed(d)) \/ Fail \/ Abort \/ Report

ProbeSpec == ProbeInit /\ [][ProbeNext]_probeVars

-----------------------------------------------------------------------------
(* percentile: the sample of this rank in the sorted list.                 *)
(* Mutant: the rank is rounded down.                                       *)
SampleRankDown(percent) == Max({1, (Successful * percent) \div 100})

SampleRank(percent) == Max({1, (Successful * percent + 99) \div 100})

SamplesUpTo(duration) == SumFunctionOnSet(answers, {d \in Durations : d <= duration})

SamplePercentile(percent) == Min({d \in Durations : SamplesUpTo(d) >= SampleRank(percent)})

(* What a reader takes the report for: all requests were made, and counted *)
(* once; a percentile is a latency that so many percent of the answers     *)
(* kept to and fewer were below, with one answer as with the most there    *)
(* may be, and is there when any was answered (test_backend_probe.py:8,    *)
(* "uses nearest rank"); and a caller that asked to be told of a hold      *)
(* exits with zero only if no request failed (backend_probe.py:22-100,     *)
(* 144).                                                                   *)
ProbeReportSound ==
  probing = "reported" =>
    /\ Successful + failures = Attempted /\ Attempted \in 1 .. MaxRequests
    /\ Successful > 0 => \A percent \in {50, 95, 99} :
         LET value == SamplePercentile(percent) IN
         /\ answers[value] > 0
         /\ 100 * SamplesUpTo(value) >= percent * Successful
         /\ 100 * SamplesUpTo(value - 1) < percent * Successful
    /\ verdict = "pass" <=> failures = 0
    /\ invocation.failOnHold => (exitCode = "0" <=> failures = 0)
=============================================================================
