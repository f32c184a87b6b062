----------------------------- MODULE Tools_proofs -----------------------------
(***************************************************************************)
(* Theorems about the tools beside the gateway: the runner of the paired   *)
(* benchmark with its sampler and its headline (Benchmark, Sampling), the  *)
(* replica check (ReplicaCheck), the overhead benchmark (Overhead), the    *)
(* backend probe (Probe) and the chain of release reports (Readiness).     *)
(*                                                                         *)
(* These tools share nothing; one module holds their theorems because they *)
(* share the lemmas, on finite sets and on integer division.               *)
(***************************************************************************)
EXTENDS Sampling, ReplicaCheck, Overhead, Probe, Readiness, SumTheorems

(* Benchmark and Sampling: types, that the rows a run leaves are of whole  *)
(* conditions, for any schedule and wherever the run is interrupted, and   *)
(* that every sample of resources is accounted for.                        *)
InCondition == {"running", "log", "failed", "raw", "sanitize", "row"}

(* Where the runner is among its files: the next row is that of condition  *)
(* `at`, unless the row of a failed condition has ended the run.           *)
Placed ==
  /\ pc \in InCondition => at \in Ordinals
  /\ at \in {Len(rows), Len(rows) + 1}
  /\ pc # "stopped" => at = Len(rows) + 1

(* The condition at hand has what the step behind it has written.          *)
Underway ==
  /\ pc \in {"failed", "raw", "sanitize", "row"} => at \in logs
  /\ \A n \in logs : n <= Len(rows) \/ n = at
  /\ \A s \in raw :
       s.ordinal <= Len(rows) \/ (s.ordinal = at /\ pc \in {"sanitize", "row", "stopped"})
  /\ pc \in {"sanitize", "row"} =>
       \E s \in raw : s.ordinal = at /\ s.shape # "torn" /\ s.failures \in FailedRequests
  /\ pc \in {"sanitize", "row"} =>
       \A s, t \in raw : s.ordinal = at /\ t.ordinal = at => s = t
  /\ pc = "row" => upstream[at] = "sanitized"

RunInv == TypeOK /\ Placed /\ Underway /\ \A n \in 1 .. Len(rows) : RowIsWhole(n)

-----------------------------------------------------------------------------
(* A condition asks for at least the minimum, so that its successes are    *)
(* what is left of its requests after the failed ones.                     *)
LEMMA EnoughRequests ==
  ASSUME BenchmarkAssumption, NEW o \in Ordinals
  PROVE  RequestCount(o) \in Nat /\ RequestCount(o) >= MinRequests
<1> DEFINE k == (o - 1) \div 2
           wanted == Concurrency[PairOf(o).level + 1] * RequestsPerConcurrency
<1>1. Levels \in Nat \ {0} /\ k \in Nat
  BY DEF BenchmarkAssumption, Levels, Ordinals
<1>2. PairOf(o).level = k % Levels
  BY DEF PairOf, PairAt
<1>3. k % Levels \in 0 .. Levels - 1
  BY <1>1
<1>4. Concurrency[PairOf(o).level + 1] \in Nat
  BY <1>1, <1>2, <1>3 DEF BenchmarkAssumption, Levels
<1>5. wanted \in Nat
  BY <1>4 DEF BenchmarkAssumption
<1>6. MinRequests \in Nat
  BY DEF BenchmarkAssumption
<1>7. \E x \in {MinRequests, wanted} : \A y \in {MinRequests, wanted} : x >= y
  BY <1>5, <1>6
<1>8. Max({MinRequests, wanted}) \in {MinRequests, wanted}
      /\ \A y \in {MinRequests, wanted} : Max({MinRequests, wanted}) >= y
  BY <1>7 DEF Max
<1> QED
  BY <1>5, <1>6, <1>8 DEF RequestCount

LEMMA InitialRun == BenchmarkAssumption /\ Init => RunInv
BY DEF BenchmarkAssumption, Init, RunInv, TypeOK, Placed, Underway, Places, NoChild, Endings,
       InCondition, Ordinals

(* A written condition stays whole while later ones are written.           *)
LEMMA WholeStays ==
  ASSUME RunInv, NEW n \in 1 .. Len(rows),
         rows'[n] = rows[n], upstream'[n] = upstream[n], n \in logs',
         \A s : s.ordinal = n => (s \in raw' <=> s \in raw)
  PROVE  RowIsWhole(n)'
BY DEF RunInv, RowIsWhole

LEMMA TypesKept ==
  ASSUME BenchmarkAssumption, RunInv, Next
  PROVE  TypeOK'
<1> USE DEF RunInv, TypeOK, Places, Goto, files
<1> SUFFICES ASSUME RunInv, Next PROVE TypeOK'
  OBVIOUS
<1>1. CASE Probe
  BY <1>1 DEF Probe
<1>2. CASE Launch
  BY <1>2 DEF Launch
<1>3. CASE ChildEnds
  BY <1>3 DEF ChildEnds
<1>4. CASE WriteLog
  <2>1. at \in Ordinals
    BY <1>4 DEF WriteLog, Placed, InCondition
  <2>2. child' \in Endings
    BY <1>4 DEF WriteLog, NoChild, Endings
  <2> QED
    BY <1>4, <2>1, <2>2 DEF WriteLog
<1>5. CASE WriteFailedRow
  <2>1. at \in Ordinals
    BY <1>5 DEF WriteFailedRow, Placed, InCondition
  <2>2. rows' \in Seq([ordinal : Ordinals, completed : BOOLEAN, successes : Nat, failures : Nat])
    BY <1>5, <2>1 DEF WriteFailedRow
  <2>3. at' \in Nat \ {0}
    BY <1>5 DEF WriteFailedRow
  <2> QED
    BY <1>5, <2>2, <2>3 DEF WriteFailedRow
<1>6. CASE WriteRaw
  <2>1. at \in Ordinals
    BY <1>6 DEF WriteRaw, Placed, InCondition
  <2>2. FailedRequests \subseteq Nat
    BY DEF BenchmarkAssumption
  <2>3. raw' \subseteq [ordinal : Ordinals, shape : Shapes \cup {"torn"}, failures : Nat]
    BY <1>6, <2>1, <2>2 DEF WriteRaw
  <2> QED
    BY <1>6, <2>3 DEF WriteRaw
<1>7. CASE Sanitize
  BY <1>7 DEF Sanitize
<1>8. CASE WriteRow
  <2>1. at \in Ordinals
    BY <1>8 DEF WriteRow, Placed, InCondition
  <2>2. PICK sample \in raw :
          /\ sample.ordinal = at
          /\ rows' = Append(rows, [ordinal |-> at, completed |-> TRUE,
                                   successes |-> RequestCount(at) - sample.failures,
                                   failures |-> sample.failures])
    BY <1>8 DEF WriteRow
  <2>3. sample.failures \in FailedRequests
    BY <1>8, <2>2 DEF WriteRow, Underway
  <2>4. sample.failures \in Nat /\ sample.failures <= MinRequests
    BY <2>3 DEF BenchmarkAssumption
  <2>5. RequestCount(at) - sample.failures \in Nat
    BY <2>1, <2>4, EnoughRequests DEF BenchmarkAssumption
  <2>6. rows' \in Seq([ordinal : Ordinals, completed : BOOLEAN, successes : Nat, failures : Nat])
    BY <2>1, <2>2, <2>4, <2>5
  <2> QED
    BY <1>8, <2>6 DEF WriteRow
<1>9. CASE Finish
  BY <1>9 DEF Finish
<1>10. CASE Interrupt
  <2>1. \/ raw' = raw
        \/ pc = "raw" /\ raw' = raw \cup {[ordinal |-> at, shape |-> "torn", failures |-> 0]}
    BY <1>10 DEF Interrupt
  <2>2. pc = "raw" => at \in Ordinals
    BY DEF Placed, InCondition
  <2>3. raw' \subseteq [ordinal : Ordinals, shape : Shapes \cup {"torn"}, failures : Nat]
    BY <2>1, <2>2
  <2>4. upstream' \in [Ordinals -> {"none", "raw", "sanitized", "torn"}]
    BY <1>10 DEF Interrupt
  <2>5. UNCHANGED <<at, child, logs, rows>> /\ pc' = "stopped"
    BY <1>10 DEF Interrupt
  <2> QED
    BY <2>3, <2>4, <2>5
<1> QED
  BY <1>1, <1>2, <1>3, <1>4, <1>5, <1>6, <1>7, <1>8, <1>9, <1>10 DEF Next, Condition

(* A row is put at the end.                                                *)
LEMMA RowAppended ==
  ASSUME RunInv, WriteFailedRow \/ WriteRow
  PROVE  /\ Len(rows') = Len(rows) + 1
         /\ \A n \in 1 .. Len(rows) : rows'[n] = rows[n]
         /\ rows' = Append(rows, rows'[Len(rows) + 1])
<1>1. PICK row : rows' = Append(rows, row)
  BY DEF WriteFailedRow, WriteRow
<1>2. PICK S : rows \in Seq(S)
  BY DEF RunInv, TypeOK
<1>3. rows \in Seq(S \cup {row}) /\ row \in S \cup {row}
  BY <1>2
<1> QED
  BY <1>1, <1>3

LEMMA PlaceKept ==
  ASSUME BenchmarkAssumption, RunInv, Next
  PROVE  Placed'
<1> SUFFICES ASSUME RunInv, Next PROVE Placed'
  OBVIOUS
<1> USE DEF RunInv, TypeOK, Placed, InCondition, Goto, files
<1>1. CASE Probe \/ Launch \/ ChildEnds \/ WriteLog \/ WriteRaw \/ Sanitize \/ Finish \/ Interrupt
  <2>1. UNCHANGED <<at, rows>>
    BY <1>1 DEF Probe, Launch, ChildEnds, WriteLog, WriteRaw, Sanitize, Finish, Interrupt
  <2>2. pc # "stopped"
    BY <1>1 DEF Probe, Launch, ChildEnds, WriteLog, WriteRaw, Sanitize, Finish, Interrupt
  <2>3. pc' \in InCondition => at \in Ordinals
    BY <1>1 DEF Probe, Launch, ChildEnds, WriteLog, WriteRaw, Sanitize, Finish, Interrupt
  <2> QED
    BY <2>1, <2>2, <2>3
<1>2. CASE WriteFailedRow \/ WriteRow
  <2>1. Len(rows') = Len(rows) + 1
    BY <1>2, RowAppended
  <2>2. at = Len(rows) + 1 /\ Len(rows) \in Nat
    BY <1>2 DEF WriteFailedRow, WriteRow
  <2> QED
    BY <1>2, <2>1, <2>2 DEF WriteFailedRow, WriteRow
<1> QED
  BY <1>1, <1>2 DEF Next, Condition

LEMMA UnderwayKept ==
  ASSUME BenchmarkAssumption, RunInv, Next
  PROVE  Underway'
<1> SUFFICES ASSUME RunInv, Next PROVE Underway'
  OBVIOUS
<1> USE DEF RunInv, Goto, files
<1>0. Len(rows) \in Nat /\ at \in Nat /\ logs \subseteq Nat /\ \A s \in raw : s.ordinal \in Nat
  BY DEF TypeOK, Ordinals
<1>1. CASE Probe \/ Launch \/ ChildEnds \/ Finish
  <2>1. UNCHANGED <<at, rows, logs, raw>>
    BY <1>1 DEF Probe, Launch, ChildEnds, Finish
  <2>2. pc' \notin {"failed", "raw", "sanitize", "row"}
    BY <1>1 DEF Probe, Launch, ChildEnds, Finish
  <2>3. pc \notin {"sanitize", "row", "stopped"}
    BY <1>1 DEF Probe, Launch, ChildEnds, Finish
  <2> QED
    BY <2>1, <2>2, <2>3 DEF Underway
<1>2. CASE WriteLog
  BY <1>2 DEF Underway, WriteLog
<1>3. CASE WriteFailedRow \/ WriteRow
  <2>1. Len(rows') = Len(rows) + 1
    BY <1>3, RowAppended
  <2>2. at = Len(rows) + 1
    BY <1>3 DEF WriteFailedRow, WriteRow, Placed
  <2>3. UNCHANGED <<logs, raw>> /\ pc' \in {"next", "stopped"}
    BY <1>3 DEF WriteFailedRow, WriteRow
  <2>4. ASSUME NEW n \in logs PROVE n <= Len(rows')
    <3>1. n <= Len(rows) \/ n = at
      BY DEF Underway
    <3>2. QED
      BY <1>0, <2>1, <2>2, <3>1
  <2>5. ASSUME NEW s \in raw PROVE s.ordinal <= Len(rows')
    <3>1. s.ordinal <= Len(rows) \/ s.ordinal = at
      BY DEF Underway
    <3>2. QED
      BY <1>0, <2>1, <2>2, <3>1
  <2> QED
    BY <2>3, <2>4, <2>5 DEF Underway
<1>4. CASE WriteRaw
  <2>1. UNCHANGED <<at, rows, logs, upstream>> /\ pc = "raw" /\ pc' \in {"sanitize", "stopped"}
    BY <1>4 DEF WriteRaw
  <2>2. at = Len(rows) + 1
    BY <2>1 DEF Placed
  <2>3. \A s \in raw : s.ordinal <= Len(rows)
    BY <2>1 DEF Underway
  <2>4. CASE pc' = "stopped"
    <3>1. raw' = raw
      BY <1>4, <2>4 DEF WriteRaw
    <3> QED
      BY <2>1, <2>3, <2>4, <3>1 DEF Underway
  <2>5. CASE pc' = "sanitize"
    <3>1. PICK s0 \in Shapes, f0 \in FailedRequests :
            raw' = raw \cup {[ordinal |-> at, shape |-> s0, failures |-> f0]}
      BY <1>4, <2>5 DEF WriteRaw
    <3>2. s0 # "torn"
      BY DEF BenchmarkAssumption
    <3>3. \A s \in raw' : s.ordinal = at => s = [ordinal |-> at, shape |-> s0, failures |-> f0]
      BY <1>0, <2>2, <2>3, <3>1
    <3>4. [ordinal |-> at, shape |-> s0, failures |-> f0] \in raw'
      BY <3>1
    <3>5. \E s \in raw' : s.ordinal = at /\ s.shape # "torn" /\ s.failures \in FailedRequests
      BY <3>2, <3>4
    <3>6. \A s, t \in raw' : s.ordinal = at /\ t.ordinal = at => s = t
      BY <3>3
    <3>7. \A s \in raw' : s.ordinal <= Len(rows) \/ s.ordinal = at
      BY <2>3, <3>1
    <3>8. at \in logs /\ \A n \in logs : n <= Len(rows) \/ n = at
      BY <2>1 DEF Underway
    <3> QED
      BY <2>1, <2>5, <3>5, <3>6, <3>7, <3>8 DEF Underway
  <2> QED
    BY <2>1, <2>4, <2>5
<1>5. CASE Sanitize
  <2>1. at \in Ordinals
    BY <1>5 DEF Sanitize, Placed, InCondition
  <2>2. upstream'[at] = "sanitized"
    BY <1>5, <2>1 DEF Sanitize, TypeOK
  <2> QED
    BY <1>5, <2>2 DEF Sanitize, Underway
<1>6. CASE Interrupt
  <2>1. UNCHANGED <<at, rows, logs>> /\ pc' = "stopped"
    BY <1>6 DEF Interrupt
  <2>2. \A s \in raw' : s \in raw \/ s.ordinal = at
    BY <1>6 DEF Interrupt
  <2> QED
    BY <2>1, <2>2 DEF Underway
<1> QED
  BY <1>1, <1>2, <1>3, <1>4, <1>5, <1>6 DEF Next, Condition

LEMMA RowsKept ==
  ASSUME BenchmarkAssumption, RunInv, Next
  PROVE  \A n \in 1 .. Len(rows') : RowIsWhole(n)'
<1> SUFFICES ASSUME RunInv, Next, NEW n \in 1 .. Len(rows') PROVE RowIsWhole(n)'
  OBVIOUS
<1> USE DEF RunInv, Goto, files
<1>0. Len(rows) \in Nat /\ at \in Nat /\ \A s \in raw : s.ordinal \in Nat
  BY DEF TypeOK, Ordinals
<1>1. CASE ~ (WriteFailedRow \/ WriteRow)
  <2>1. rows' = rows /\ pc # "stopped" /\ at = Len(rows) + 1
    BY <1>1 DEF Next, Condition, Probe, Launch, ChildEnds, WriteLog, WriteRaw, Sanitize, Finish,
                Interrupt, Placed
  <2>2. n \in 1 .. Len(rows) /\ n # at
    BY <1>0, <2>1
  <2>3. upstream' = upstream \/ \E u : upstream' = [upstream EXCEPT ![at] = u]
    BY <1>1 DEF Next, Condition, Probe, Launch, ChildEnds, WriteLog, WriteRaw, Sanitize, Finish,
                Interrupt
  <2>4. upstream'[n] = upstream[n]
    <3>1. n \in DOMAIN upstream \/ n \notin DOMAIN upstream
      OBVIOUS
    <3>2. n \in Ordinals
      BY <2>2 DEF RowIsWhole, TypeOK
    <3> QED
      BY <2>2, <2>3, <3>2 DEF TypeOK
  <2>5. logs' = logs \/ logs' = logs \cup {at}
    BY <1>1 DEF Next, Condition, Probe, Launch, ChildEnds, WriteLog, WriteRaw, Sanitize, Finish,
                Interrupt
  <2>6. n \in logs'
    BY <2>2, <2>5 DEF RowIsWhole
  <2>7. raw' = raw \/ \E shape, failed :
           raw' = raw \cup {[ordinal |-> at, shape |-> shape, failures |-> failed]}
    BY <1>1 DEF Next, Condition, Probe, Launch, ChildEnds, WriteLog, WriteRaw, Sanitize, Finish,
                Interrupt
  <2>8. \A s : s.ordinal = n => (s \in raw' <=> s \in raw)
    <3>1. CASE raw' = raw
      BY <3>1
    <3>2. ASSUME NEW shape, NEW failed,
                 raw' = raw \cup {[ordinal |-> at, shape |-> shape, failures |-> failed]}
          PROVE  \A s : s.ordinal = n => (s \in raw' <=> s \in raw)
      BY <2>2, <3>2
    <3> QED
      BY <2>7, <3>1, <3>2
  <2> QED
    BY <2>1, <2>2, <2>4, <2>6, <2>8, WholeStays
<1>2. CASE WriteFailedRow \/ WriteRow
  <2>1. UNCHANGED <<logs, upstream, raw>> /\ at = Len(rows) + 1 /\ at \in logs
    BY <1>2 DEF WriteFailedRow, WriteRow, Placed, Underway
  <2>2. Len(rows') = Len(rows) + 1
    BY <1>2, RowAppended
  <2>3. CASE n \in 1 .. Len(rows)
    <3>1. rows'[n] = rows[n]
      BY <1>2, <2>3, RowAppended
    <3>2. n \in logs'
      BY <2>1, <2>3 DEF RowIsWhole
    <3> QED
      BY <2>1, <2>3, <3>1, <3>2, WholeStays
  <2>4. CASE n = at /\ WriteFailedRow
    <3>1. rows'[n] = [ordinal |-> at, completed |-> FALSE, successes |-> 0, failures |-> 0]
      BY <2>1, <2>4 DEF WriteFailedRow, TypeOK
    <3>2. \A s \in raw : s.ordinal # at
      BY <1>0, <2>1, <2>4 DEF WriteFailedRow, Underway
    <3> QED
      BY <2>1, <2>4, <3>1, <3>2 DEF RowIsWhole
  <2>5. CASE n = at /\ WriteRow
    <3>1. PICK sample \in raw :
            /\ sample.ordinal = at
            /\ rows' = Append(rows, [ordinal |-> at, completed |-> TRUE,
                                     successes |-> RequestCount(at) - sample.failures,
                                     failures |-> sample.failures])
      BY <2>5 DEF WriteRow
    <3>2. rows'[n].ordinal = at /\ rows'[n].completed /\ rows'[n].failures = sample.failures
      BY <2>1, <2>5, <3>1 DEF TypeOK
    <3>3. sample.shape # "torn" /\ upstream[at] = "sanitized"
          /\ \A s, t \in raw : s.ordinal = at /\ t.ordinal = at => s = t
      BY <2>5, <3>1 DEF WriteRow, Underway
    <3> QED
      BY <2>1, <2>5, <3>1, <3>2, <3>3 DEF RowIsWhole
  <2> QED
    BY <1>0, <1>2, <2>1, <2>2, <2>3, <2>4, <2>5
<1> QED
  BY <1>1, <1>2

LEMMA RunStep == BenchmarkAssumption /\ RunInv /\ [Next]_vars => RunInv'
<1> SUFFICES ASSUME BenchmarkAssumption, RunInv, [Next]_vars PROVE RunInv'
  OBVIOUS
<1>1. CASE Next
  BY <1>1, TypesKept, PlaceKept, UnderwayKept, RowsKept DEF RunInv
<1>2. CASE UNCHANGED vars
  BY <1>2 DEF RunInv, TypeOK, Placed, Underway, RowIsWhole, vars, files
<1> QED
  BY <1>1, <1>2

-----------------------------------------------------------------------------
LEMMA RunInvariant == Spec => []RunInv
<1>1. BenchmarkAssumption
  BY BenchmarkAssumption
<1> QED
  BY <1>1, InitialRun, RunStep, PTL DEF Spec

(* Every variable of the benchmark keeps its type (bench/run.py).          *)
THEOREM TypeCorrect == Spec => []TypeOK
<1>1. RunInv => TypeOK
  BY DEF RunInv
<1> QED
  BY <1>1, RunInvariant, PTL

(* The rows of conditions.jsonl are of whole conditions, whatever the      *)
(* schedule, and wherever the run failed or was interrupted                *)
(* (run.py:338-404).                                                       *)
THEOREM RowsOfWholeConditions == Spec => []RowsAreWhole
<1>1. RunInv => RowsAreWhole
  BY DEF RunInv, TypeOK, Underway, RowsAreWhole
<1> QED
  BY <1>1, RunInvariant, PTL
-----------------------------------------------------------------------------
(* The sampler only looks on: with it the runner takes its own steps.      *)
LEMMA SamplerLooksOn == [SamplingNext]_samplingVars => [Next]_vars
<1> SUFFICES ASSUME [SamplingNext]_samplingVars PROVE [Next]_vars
  OBVIOUS
<1>1. CASE TakeSample \/ Wake \/ StopSampler \/ Join \/ Label \/ WriteSamples
  BY <1>1 DEF TakeSample, Wake, StopSampler, Join, Label, WriteSamples
<1>2. CASE SampledLaunch
  BY <1>2 DEF SampledLaunch, Next
<1>3. CASE SampledCondition
  BY <1>3 DEF SampledCondition, Condition, Next
<1>4. CASE SampledInterrupt \/ ((Probe \/ Finish) /\ UNCHANGED sampler)
  BY <1>4 DEF SampledInterrupt, Next
<1>5. CASE UNCHANGED samplingVars
  BY <1>5 DEF samplingVars
<1> QED
  BY <1>1, <1>2, <1>3, <1>4, <1>5 DEF SamplingNext

(* The benchmark with its sampler is the benchmark.                        *)
THEOREM SamplingImplements == SamplingSpec => Spec
<1>1. SamplingInit => Init
  BY DEF SamplingInit
<1> QED
  BY <1>1, SamplerLooksOn, PTL DEF SamplingSpec, Spec

(* Once stop() has returned, a thread that is still in a sample adds that  *)
(* one and no other.                                                       *)
LastOne ==
  place \in {"joined", "labelled", "written"} =>
    /\ stopped
    /\ returned <= samples /\ samples <= returned + 1
    /\ thread = "sampling" => samples = returned

Reported ==
  /\ place \in {"labelled", "written"} => returned <= labelled /\ labelled <= samples
  /\ place = "written" =>
       returned <= lines.labelled /\ lines.labelled + lines.stray <= samples

SampleInv ==
  /\ samples \in Nat /\ returned \in Nat /\ labelled \in Nat
  /\ lines \in [labelled : Nat, stray : Int]
  /\ place = "joining" => stopped
  /\ LastOne
  /\ Reported

LEMMA SamplesBegin == SamplingInit => SampleInv
BY DEF SamplingInit, SampleInv, LastOne, Reported, NoLines

LEMMA FreshSampler ==
  ASSUME SampleInv, NEW where, Fresh(where), lines' \in [labelled : Nat, stray : Int]
  PROVE  SampleInv'
BY DEF SampleInv, LastOne, Reported, Fresh

LEMMA SamplesKept == SampleInv /\ [SamplingNext]_samplingVars => SampleInv'
<1> SUFFICES ASSUME SampleInv, [SamplingNext]_samplingVars PROVE SampleInv'
  OBVIOUS
<1> USE DEF Moved
<1>1. CASE TakeSample
  BY <1>1 DEF TakeSample, SampleInv, LastOne, Reported
<1>2. CASE Wake
  BY <1>2 DEF Wake, AfterWait, SampleInv, LastOne, Reported
<1>3. CASE StopSampler
  BY <1>3 DEF StopSampler, SampleInv, LastOne, Reported
<1>4. CASE Join
  BY <1>4 DEF Join, SampleInv, LastOne, Reported
<1>5. CASE Label
  BY <1>5 DEF Label, SampleInv, LastOne, Reported
<1>6. CASE WriteSamples
  BY <1>6 DEF WriteSamples, SampleInv, LastOne, Reported
<1>7. CASE SampledLaunch
  <2>1. CASE Fresh("sampling") /\ UNCHANGED lines
    BY <2>1, FreshSampler DEF SampleInv
  <2>2. CASE UNCHANGED sampler
    BY <2>2 DEF sampler, SampleInv, LastOne, Reported
  <2> QED
    BY <1>7, <2>1, <2>2 DEF SampledLaunch
<1>8. CASE SampledCondition
  <2>1. CASE Fresh("gone") /\ lines' = NoLines
    BY <2>1, FreshSampler DEF NoLines
  <2>2. CASE UNCHANGED sampler
    BY <2>2 DEF sampler, SampleInv, LastOne, Reported
  <2> QED
    BY <1>8, <2>1, <2>2 DEF SampledCondition
<1>9. CASE SampledInterrupt
  <2>1. lines' \in [labelled : Nat, stray : Int]
    BY <1>9 DEF SampledInterrupt, SampleInv, NoLines
  <2> QED
    BY <1>9, <2>1, FreshSampler DEF SampledInterrupt
<1>10. CASE UNCHANGED samplingVars \/ UNCHANGED sampler
  BY <1>10 DEF samplingVars, sampler, SampleInv, LastOne, Reported
<1> QED
  BY <1>1, <1>2, <1>3, <1>4, <1>5, <1>6, <1>7, <1>8, <1>9, <1>10 DEF SamplingNext

(* A row is written after the samples.                                     *)
LEMMA RowsComeLast ==
  ASSUME [SamplingNext]_samplingVars, rows' # rows
  PROVE  place = "written"
<1>1. ASSUME Probe \/ Launch \/ ChildEnds \/ WriteLog \/ WriteRaw \/ Sanitize \/ Finish \/ Interrupt
      PROVE  FALSE
  BY <1>1 DEF Probe, Launch, ChildEnds, WriteLog, WriteRaw, Sanitize, Finish, Interrupt, files
<1>2. ASSUME UNCHANGED vars PROVE FALSE
  BY <1>2 DEF vars, files
<1>3. SampledCondition
  BY <1>1, <1>2 DEF SamplingNext, samplingVars, TakeSample, Wake, StopSampler, Join, Label,
     WriteSamples, SampledLaunch, SampledInterrupt
<1> QED
  BY <1>1, <1>3 DEF SampledCondition

(* Every sample that was in the list when stop() returned is in the file,  *)
(* under its condition, before the row that sums it up, and at most one    *)
(* more is in the sum, however long a sample takes and whenever the run is *)
(* interrupted.                                                            *)
THEOREM SamplesAreAccountedFor == SamplingSpec => SamplesAccounted
<1>1. SampleInv /\ [SamplingNext]_samplingVars =>
        [rows' # rows =>
           /\ returned <= lines.labelled
           /\ lines.labelled + lines.stray <= samples
           /\ samples <= returned + 1]_samplingVars
  BY RowsComeLast DEF SampleInv, LastOne, Reported
<1> QED
  BY <1>1, SamplesBegin, SamplesKept, PTL DEF SamplingSpec, SamplesAccounted

-----------------------------------------------------------------------------
(* ReplicaCheck: any number of replicas, any limit, burst and windows.     *)
Fleet == [Stores -> [Principals -> [open : BOOLEAN, since : Nat, spent : Nat]]]

(* All but the deployment's windows.                                       *)
CheckTyped ==
  /\ checking \in {"burst", "asleep", "done", "raised"}
  /\ statuses \in [Burst -> Statuses \cup {"none"}]
  /\ isolated \in Statuses \cup {"none"} /\ expired \in Statuses \cup {"none"}
  /\ wakes \in Nat

Typed ==
  /\ deployment \in Deployments
  /\ clock \in Nat
  /\ windows \in Fleet
  /\ CheckTyped
  /\ epochs \subseteq Nat
  /\ resent \in BOOLEAN

(* Of the requests that went to replica p.                                 *)
At(p, status) == {i \in Answered(status) : Target(i) = p}

BurstOver == checking \in {"asleep", "done"} => \A i \in Burst : ~ Open(i)

NoSharing == ~ deployment.shared /\ deployment.limit = RequestLimit /\ deployment.spent = 0

(* A replica on its own gives what its window holds, or more once it was   *)
(* renewed, and refuses only after a whole limit of its own.               *)
OwnBudgets ==
  NoSharing /\ Answered("other") = {} =>
    /\ checking = "burst" => \A p \in Stores :
         windows[p]["analyst-1"].spent <= Cardinality(At(p, "200"))
    /\ \A i \in Answered("429") : Cardinality(At(Target(i), "200")) >= RequestLimit

LEMMA DeploymentTyped ==
  ASSUME deployment \in Deployments
  PROVE  /\ deployment.shared \in BOOLEAN
         /\ deployment.limit \in Nat \ {0} /\ deployment.window \in Nat \ {0}
         /\ deployment.spent \in Nat
  BY ReplicaCheckAssumption DEF Deployment

LEMMA TargetPlace == ASSUME NEW i \in Burst PROVE Target(i) \in Stores
  BY ReplicaCheckAssumption DEF Target, Stores, Burst

LEMMA PlaceTyped == ASSUME NEW p \in Stores PROVE Store(p) \in Stores
  BY ReplicaCheckAssumption DEF Store, Stores

LEMMA EpochTyped ==
  ASSUME deployment \in Deployments, clock \in Nat
  PROVE  Epoch \in Nat
  BY DeploymentTyped DEF Epoch

LEMMA BurstFinite ==
  ASSUME NEW S \in SUBSET Burst
  PROVE  IsFiniteSet(S) /\ Cardinality(S) \in Nat /\ Cardinality(Burst) = TotalRequests
  <1>1. IsFiniteSet(Burst) /\ Cardinality(Burst) = TotalRequests
    BY FS_Interval, ReplicaCheckAssumption DEF Burst
  <1>2. QED
    BY <1>1, FS_Subset, FS_CardinalityType

LEMMA ChargedTyped ==
  ASSUME deployment \in Deployments, clock \in Nat,
         NEW w \in [open : BOOLEAN, since : Nat, spent : Nat]
  PROVE  /\ Charged(w) \in [open : BOOLEAN, since : Nat, spent : Nat]
         /\ Spent(w) \in Nat /\ Spent(w) <= w.spent
  BY DEF Charged, Spent

(* Where nothing is sent again, a limiter decides once.                    *)
LEMMA DecidesOnce ==
  ASSUME NEW p, NEW c, NEW status, Answers(p, c, status), ~ deployment.shared \/ ~ resent'
  PROVE  Decides(p, c, status)
  BY DEF Answers, Resends

(* What an answer does to the windows.                                     *)
LEMMA AnswersTyped ==
  ASSUME Typed, NEW p \in Stores, NEW c \in Principals, NEW status, Answers(p, c, status)
  PROVE  windows' \in Fleet /\ deployment' = deployment /\ resent' \in BOOLEAN
  <1> DEFINE w == windows[Store(p)][c]
  <1>1. Store(p) \in Stores
    BY PlaceTyped
  <1>2. w \in [open : BOOLEAN, since : Nat, spent : Nat]
    BY <1>1 DEF Typed, Fleet
  <1>3. /\ Charged(w) \in [open : BOOLEAN, since : Nat, spent : Nat]
        /\ Charged(Charged(w)) \in [open : BOOLEAN, since : Nat, spent : Nat]
    BY <1>2, ChargedTyped DEF Typed
  <1>4. \/ windows' = windows
        \/ \E v \in {Charged(w), Charged(Charged(w))} :
             windows' = [windows EXCEPT ![Store(p)][c] = v]
    <2>1. CASE Decides(p, c, status)
      BY <2>1 DEF Decides
    <2>2. CASE Resends(p, c, status)
      BY <2>2 DEF Resends
    <2>3. QED
      BY <2>1, <2>2 DEF Answers
  <1> HIDE DEF w
  <1>5. windows' \in Fleet
    <2>1. CASE windows' = windows
      BY <2>1 DEF Typed
    <2>2. ASSUME NEW v \in {Charged(w), Charged(Charged(w))},
                 windows' = [windows EXCEPT ![Store(p)][c] = v]
          PROVE  windows' \in Fleet
      <3>1. windows[Store(p)] \in [Principals -> [open : BOOLEAN, since : Nat, spent : Nat]]
        BY <1>1 DEF Typed, Fleet
      <3>2. [windows[Store(p)] EXCEPT ![c] = v]
              \in [Principals -> [open : BOOLEAN, since : Nat, spent : Nat]]
        BY <1>3, <3>1
      <3>3. QED
        BY <1>1, <2>2, <3>2 DEF Typed, Fleet
    <2>3. QED
      BY <1>4, <2>1, <2>2
  <1>6. deployment' = deployment /\ resent' \in BOOLEAN
    BY DEF Answers, Decides, Resends, Typed
  <1>7. QED
    BY <1>5, <1>6

LEMMA WaitTyped == Wait \in Nat /\ Wait >= WindowSeconds + 1
  <1> DEFINE tenth == WindowSeconds \div 10
  <1>1. tenth \in Int
    BY ReplicaCheckAssumption
  <1>2. \E x \in {1, tenth} : \A y \in {1, tenth} : x >= y
    BY <1>1
  <1>3. Max({1, tenth}) \in {1, tenth} /\ Max({1, tenth}) >= 1
    BY <1>2 DEF Max
  <1>4. Wait = WindowSeconds + Max({1, tenth})
    BY DEF Wait
  <1> HIDE DEF tenth
  <1>5. QED
    BY <1>1, <1>3, <1>4, ReplicaCheckAssumption

LEMMA TypedInit == ReplicaInit => Typed
  <1> SUFFICES ASSUME ReplicaInit PROVE Typed
    OBVIOUS
  <1>1. deployment \in Deployments /\ deployment.spent \in Nat
    BY DeploymentTyped DEF ReplicaInit
  <1>2. clock \in Nat
    BY ReplicaCheckAssumption DEF ReplicaInit
  <1>3. windows \in Fleet
    <2>1. /\ NoWindow \in [open : BOOLEAN, since : Nat, spent : Nat]
          /\ [open |-> TRUE, since |-> clock, spent |-> deployment.spent]
               \in [open : BOOLEAN, since : Nat, spent : Nat]
      BY <1>1, <1>2 DEF NoWindow
    <2>2. QED
      BY <2>1 DEF ReplicaInit, Fleet
  <1>4. QED
    BY <1>1, <1>2, <1>3 DEF ReplicaInit, Typed, CheckTyped, Statuses

LEMMA TypedStep == Typed /\ [ReplicaNext]_replicaVars => Typed'
  <1> SUFFICES ASSUME Typed, [ReplicaNext]_replicaVars PROVE Typed'
    OBVIOUS
  <1>1. CASE Tick
    BY <1>1 DEF Tick, Typed, CheckTyped, gateways, Fleet
  <1>2. ASSUME NEW i \in Burst, SendRequest(i) PROVE Typed'
    <2>1. PICK status \in Statuses :
            Answers(Target(i), "analyst-1", status) /\ statuses' = [statuses EXCEPT ![i] = status]
      BY <1>2 DEF SendRequest
    <2>2. windows' \in Fleet /\ deployment' = deployment /\ resent' \in BOOLEAN
      BY <2>1, TargetPlace, AnswersTyped DEF Principals
    <2>3. statuses' \in [Burst -> Statuses \cup {"none"}]
      BY <2>1 DEF Typed, CheckTyped
    <2>4. epochs' \subseteq Nat
      BY <1>2, EpochTyped DEF SendRequest, Typed
    <2>5. QED
      BY <1>2, <2>2, <2>3, <2>4 DEF SendRequest, Typed, CheckTyped
  <1>3. CASE Isolate
    <2>1. windows' \in Fleet /\ deployment' = deployment /\ resent' \in BOOLEAN
      BY <1>3, AnswersTyped, ReplicaCheckAssumption DEF Isolate, Principals, Stores
    <2>2. Wait \in Nat
      BY WaitTyped
    <2>3. wakes' \in Nat
      BY <1>3, <2>2 DEF Isolate, Typed
    <2>4. QED
      BY <1>3, <2>1, <2>3 DEF Isolate, Typed, CheckTyped
  <1>4. CASE Expire
    <2>1. windows' \in Fleet /\ deployment' = deployment /\ resent' \in BOOLEAN
      BY <1>4, AnswersTyped, ReplicaCheckAssumption DEF Expire, Principals, Stores
    <2>2. QED
      BY <1>4, <2>1 DEF Expire, Typed, CheckTyped
  <1>5. CASE Raise
    BY <1>5 DEF Raise, gateways, Typed, CheckTyped, Fleet
  <1>6. CASE UNCHANGED replicaVars
    BY <1>6 DEF replicaVars, gateways, Typed, CheckTyped, Fleet
  <1>7. QED
    BY <1>1, <1>2, <1>3, <1>4, <1>5, <1>6 DEF ReplicaNext

(* Every variable keeps its type.                                          *)
THEOREM ReplicaTypeCorrect == ReplicaSpec => []ReplicaTypeOK
  <1>1. Typed => ReplicaTypeOK
    BY DEF Typed, CheckTyped, Fleet, ReplicaTypeOK
  <1>2. QED
    BY <1>1, TypedInit, TypedStep, PTL DEF ReplicaSpec

LEMMA BurstOverStep == Typed /\ BurstOver /\ [ReplicaNext]_replicaVars => BurstOver'
  BY DEF Typed, CheckTyped, BurstOver, ReplicaNext, Tick, SendRequest, Isolate, Expire, Raise, replicaVars, Open

(* Other requests of the burst leave the counts at replica p alone.        *)
LEMMA AtStep ==
  ASSUME Typed, NEW i \in Burst, NEW status \in Statuses, Open(i),
         statuses' = [statuses EXCEPT ![i] = status]
  PROVE  \A p \in Stores, s \in Statuses :
           /\ Cardinality(At(p, s)) \in Nat
           /\ Cardinality(At(p, s)') =
                IF p = Target(i) /\ s = status THEN Cardinality(At(p, s)) + 1 ELSE Cardinality(At(p, s))
  <1> SUFFICES ASSUME NEW p \in Stores, NEW s \in Statuses
               PROVE  /\ Cardinality(At(p, s)) \in Nat
                      /\ Cardinality(At(p, s)') = IF p = Target(i) /\ s = status
                           THEN Cardinality(At(p, s)) + 1 ELSE Cardinality(At(p, s))
    OBVIOUS
  <1>1. \A j \in Burst : statuses'[j] = IF j = i THEN status ELSE statuses[j]
    BY DEF Typed, CheckTyped
  <1>2. statuses[i] = "none" /\ "none" \notin Statuses
    BY DEF Open, Statuses
  <1>3. At(p, s)' = IF p = Target(i) /\ s = status THEN At(p, s) \cup {i} ELSE At(p, s)
    BY <1>1, <1>2 DEF At, Answered, Target
  <1>4. At(p, s) \in SUBSET Burst /\ i \notin At(p, s)
    BY <1>2 DEF At, Answered
  <1>5. QED
    BY <1>3, <1>4, BurstFinite, FS_AddElement

LEMMA AnsweredStep ==
  ASSUME Typed, NEW i \in Burst, NEW status \in Statuses, Open(i),
         statuses' = [statuses EXCEPT ![i] = status],
         NEW s \in Statuses
  PROVE  Answered(s)' = IF s = status THEN Answered(s) \cup {i} ELSE Answered(s)
  BY DEF Typed, CheckTyped, Answered, Open, Statuses

LEMMA OwnBudgetsInit == ReplicaInit => OwnBudgets
  <1> SUFFICES ASSUME ReplicaInit, NoSharing, NEW p \in Stores
               PROVE  windows[p]["analyst-1"].spent <= Cardinality(At(p, "200"))
    BY DEF OwnBudgets, ReplicaInit, Answered
  <1>1. windows[p]["analyst-1"].spent = 0
    BY DEF ReplicaInit, NoSharing, NoWindow, Principals
  <1>2. At(p, "200") \in SUBSET Burst
    BY DEF At, Answered
  <1>3. Cardinality(At(p, "200")) \in Nat
    BY <1>2, BurstFinite
  <1>4. QED
    BY <1>1, <1>3

LEMMA OwnBudgetsSend ==
  ASSUME Typed, OwnBudgets, NEW i \in Burst, SendRequest(i)
  PROVE  OwnBudgets'
  <1>1. PICK status \in Statuses :
          Answers(Target(i), "analyst-1", status) /\ statuses' = [statuses EXCEPT ![i] = status]
    BY DEF SendRequest
  <1>2. /\ checking = "burst" /\ checking' = "burst" /\ Open(i) /\ deployment' = deployment
        /\ Target(i) \in Stores /\ clock \in Nat /\ deployment \in Deployments
    BY <1>1, TargetPlace, AnswersTyped DEF SendRequest, Typed, Principals
  <1> SUFFICES ASSUME NoSharing, status # "other", Answered("other") = {}
               PROVE  OwnBudgets'
    <2>1. Answered("other")' = IF status = "other" THEN {i} \cup Answered("other") ELSE Answered("other")
      BY <1>1, <1>2, AnsweredStep DEF Statuses
    <2>2. NoSharing' = NoSharing
      BY <1>2 DEF NoSharing
    <2>3. QED
      BY <2>1, <2>2 DEF OwnBudgets
  <1>0. Decides(Target(i), "analyst-1", status)
    BY <1>1, DecidesOnce DEF NoSharing
  <1> DEFINE w == windows[Target(i)]["analyst-1"]
  <1>3. /\ w \in [open : BOOLEAN, since : Nat, spent : Nat]
        /\ Store(Target(i)) = Target(i)
    BY <1>2 DEF Typed, Fleet, Principals, Store, NoSharing
  <1>4. /\ \A p \in Stores : windows[p]["analyst-1"].spent <= Cardinality(At(p, "200"))
        /\ \A j \in Answered("429") : Cardinality(At(Target(j), "200")) >= RequestLimit
    BY <1>2 DEF OwnBudgets
  <1>5. \A p \in Stores, s \in Statuses :
          /\ Cardinality(At(p, s)) \in Nat
          /\ Cardinality(At(p, s)') =
              IF p = Target(i) /\ s = status THEN Cardinality(At(p, s)) + 1 ELSE Cardinality(At(p, s))
    <2>1. Open(i) /\ statuses' = [statuses EXCEPT ![i] = status]
      BY <1>1, <1>2
    <2>2. QED
      BY <2>1, AtStep
  <1>6. /\ Spent(w) \in Nat /\ Spent(w) <= w.spent
        /\ Charged(w).spent = Spent(w) + 1
    BY <1>2, <1>3, ChargedTyped DEF Charged
  <1>7. deployment.limit = RequestLimit /\ RequestLimit \in Nat \ {0}
    BY ReplicaCheckAssumption DEF NoSharing
  <1>8. CASE status = "200"
    <2>1. windows' = [windows EXCEPT ![Target(i)]["analyst-1"] = Charged(w)]
      BY <1>0, <1>3, <1>8 DEF Decides
    <2> HIDE DEF w
    <2>2. \A p \in Stores : windows'[p]["analyst-1"] =
            IF p = Target(i) THEN Charged(w) ELSE windows[p]["analyst-1"]
      BY <2>1 DEF Typed, Fleet, Principals
    <2>3. w.spent \in Nat /\ w.spent <= Cardinality(At(Target(i), "200"))
      BY <1>2, <1>3, <1>4 DEF w
    <2>4. \A p \in Stores : windows'[p]["analyst-1"].spent <= Cardinality(At(p, "200")')
      BY <1>2, <1>4, <1>5, <1>6, <1>8, <2>2, <2>3 DEF Statuses
    <2>5. Answered("429")' = Answered("429")
      BY <1>1, <1>2, <1>8, AnsweredStep DEF Statuses
    <2>6. ASSUME NEW j \in Answered("429") PROVE Cardinality(At(Target(j), "200")') >= RequestLimit
      <3>1. Target(j) \in Stores
        BY TargetPlace DEF Answered
      <3>2. Cardinality(At(Target(j), "200")') >= Cardinality(At(Target(j), "200"))
        BY <1>5, <3>1 DEF Statuses
      <3>3. QED
        BY <1>4, <1>5, <1>7, <3>1, <3>2 DEF Statuses
    <2>7. QED
      BY <2>4, <2>5, <2>6 DEF OwnBudgets, Target, At
  <1>9. CASE status = "429"
    <2>1. windows' = windows /\ ~ (Spent(w) + 1 <= RequestLimit)
      BY <1>0, <1>3, <1>7, <1>9 DEF Decides, Fits
    <2> HIDE DEF w
    <2>2. Cardinality(At(Target(i), "200")) >= RequestLimit
      BY <1>2, <1>3, <1>4, <1>5, <1>6, <1>7, <2>1 DEF w, Statuses
    <2>3. \A p \in Stores : Cardinality(At(p, "200")') = Cardinality(At(p, "200"))
      BY <1>5, <1>9 DEF Statuses
    <2>4. Answered("429")' = Answered("429") \cup {i}
      BY <1>1, <1>2, <1>9, AnsweredStep DEF Statuses
    <2>5. ASSUME NEW j \in Answered("429")' PROVE Cardinality(At(Target(j), "200")') >= RequestLimit
      <3>1. j \in Burst /\ Target(j) \in Stores
        BY TargetPlace DEF Answered
      <3>2. QED
        BY <1>4, <2>2, <2>3, <2>4, <3>1
    <2>6. \A p \in Stores : windows'[p]["analyst-1"].spent <= Cardinality(At(p, "200")')
      BY <1>4, <2>1, <2>3
    <2>7. QED
      BY <2>5, <2>6 DEF OwnBudgets, Target, At
  <1>10. QED
    BY <1>8, <1>9 DEF Statuses

LEMMA OwnBudgetsStep == Typed /\ OwnBudgets /\ [ReplicaNext]_replicaVars => OwnBudgets'
  <1> SUFFICES ASSUME Typed, OwnBudgets, [ReplicaNext]_replicaVars PROVE OwnBudgets'
    OBVIOUS
  <1>1. ASSUME NEW i \in Burst, SendRequest(i) PROVE OwnBudgets'
    BY <1>1, OwnBudgetsSend
  <1>2. CASE Tick
    BY <1>2 DEF Tick, gateways, OwnBudgets, NoSharing, At, Answered
  <1>3. CASE Isolate
    BY <1>3 DEF Isolate, Answers, Decides, Resends, OwnBudgets, NoSharing, At, Answered
  <1>4. CASE Expire
    BY <1>4 DEF Expire, Answers, Decides, Resends, OwnBudgets, NoSharing, At, Answered
  <1>5. CASE Raise
    BY <1>5 DEF Raise, gateways, OwnBudgets, NoSharing, At, Answered
  <1>6. CASE UNCHANGED replicaVars
    BY <1>6 DEF replicaVars, gateways, OwnBudgets, NoSharing, At, Answered
  <1>7. QED
    BY <1>1, <1>2, <1>3, <1>4, <1>5, <1>6 DEF ReplicaNext

(* Replicas on their own, with the whole limit each, cannot pass: the one  *)
(* that refuses has given a whole limit, and another one, which no earlier *)
(* request can have exhausted, has given one more.                         *)
LEMMA OwnBudgetsFail ==
  ASSUME Typed, BurstOver, OwnBudgets, NoSharing, Passes
  PROVE  FALSE
  <1> USE ReplicaCheckAssumption
  <1>1. Answered("other") = {} /\ \A i \in Burst : statuses[i] \in {"200", "429"}
    BY DEF Passes, BurstOver, Open, Typed, CheckTyped, Statuses, Answered
  <1>2. PICK i \in Answered("429") : TRUE
    <2>1. Cardinality(Answered("429")) > 0
      BY DEF Passes
    <2>2. QED
      BY <2>1, FS_EmptySet
  <1>3. i \in Burst /\ Cardinality(At(Target(i), "200")) >= RequestLimit
    BY <1>1, <1>2 DEF OwnBudgets, Answered
  <1>4. PICK j \in {0, 1} : j # Target(i)
    OBVIOUS
  <1>5. j \in Burst /\ Target(j) = j
    BY DEF Burst, Target
  <1>6. PICK k \in Burst : k \in At(j, "200")
    <2>1. CASE statuses[j] = "200"
      BY <1>5, <2>1 DEF At, Answered
    <2>2. CASE statuses[j] = "429"
      <3>1. Cardinality(At(j, "200")) >= RequestLimit
        BY <1>1, <1>5, <2>2 DEF OwnBudgets, Answered
      <3>2. At(j, "200") # {}
        BY <3>1, FS_EmptySet
      <3>3. QED
        BY <3>2 DEF At, Answered
    <2>3. QED
      BY <1>1, <1>5, <2>1, <2>2
  <1> DEFINE mine == At(Target(i), "200")
  <1>7. mine \in SUBSET Burst /\ k \notin mine
    BY <1>4, <1>6 DEF At, Answered
  <1>8. /\ IsFiniteSet(mine)
        /\ Cardinality(mine \cup {k}) = Cardinality(mine) + 1
        /\ Cardinality(mine) \in Nat
    BY <1>7, BurstFinite, FS_AddElement
  <1>9. mine \cup {k} \in SUBSET Answered("200") /\ Answered("200") \in SUBSET Burst
    BY <1>6 DEF At, Answered
  <1>10. IsFiniteSet(Answered("200")) /\ Cardinality(Answered("200")) \in Nat
    BY <1>9, BurstFinite
  <1>11. Cardinality(mine \cup {k}) <= Cardinality(Answered("200"))
    BY <1>9, <1>10, FS_Subset
  <1> HIDE DEF mine
  <1>12. Cardinality(mine) >= RequestLimit /\ Cardinality(Answered("200")) = RequestLimit
    BY <1>3 DEF mine, Passes
  <1>13. QED
    BY <1>8, <1>10, <1>11, <1>12

(* A report that passes tells that the replicas share their budget, for    *)
(* any number of replicas, limit and burst, wherever the windows end.      *)
THEOREM SharingIsTold == ReplicaSpec => []PassMeansShared
  <1>1. ReplicaInit => BurstOver
    BY DEF ReplicaInit, BurstOver
  <1>2. Typed /\ BurstOver /\ OwnBudgets => PassMeansShared
    BY OwnBudgetsFail, DeploymentTyped DEF PassMeansShared, NoSharing, Typed
  <1>3. QED
    BY <1>1, <1>2, TypedInit, TypedStep, BurstOverStep, OwnBudgetsInit, OwnBudgetsStep, PTL DEF ReplicaSpec

(* The deployment the check was told of, while all of the burst has been   *)
(* answered in one epoch and no script was sent again.                     *)
Told ==
  /\ deployment = [shared |-> TRUE, limit |-> RequestLimit, window |-> WindowSeconds, spent |-> 0]
  /\ \A e, f \in epochs : e = f
  /\ ~ resent
  /\ Answered("other") = {}

Window == windows[0]["analyst-1"]

(* The one window for all replicas counts what they answered.              *)
OneBudget ==
  Told =>
    /\ checking # "done" /\ epochs = {} => ~ Window.open
    /\ epochs = {} => Answered("200") = {} /\ Answered("429") = {}
    /\ checking # "done" /\ epochs # {} =>
         /\ Window.open /\ Window.since <= clock
         /\ Window.since \div WindowSeconds \in epochs
         /\ Window.spent = Cardinality(Answered("200"))
    /\ Cardinality(Answered("200")) <= RequestLimit
    /\ Answered("429") # {} => Cardinality(Answered("200")) = RequestLimit
    /\ checking = "burst" => ~ windows[0]["security-1"].open
    /\ checking = "asleep" /\ Window.open => wakes >= Window.since + WindowSeconds + 1
    /\ checking \in {"asleep", "done"} => isolated \in {"200", "other"}
    /\ checking = "done" => expired \in {"200", "other"}

LEMMA AnsweredFinite ==
  ASSUME NEW s
  PROVE  IsFiniteSet(Answered(s)) /\ Cardinality(Answered(s)) \in Nat /\ Answered(s) \in SUBSET Burst
  BY BurstFinite DEF Answered

LEMMA LaterEpoch ==
  ASSUME NEW s \in Nat, NEW t \in Nat, NEW w \in Nat \ {0}, t >= s + w
  PROVE  t \div w # s \div w
  OBVIOUS

(* A window that is over, or was never opened, fits one request.           *)
LEMMA RoomForOne ==
  ASSUME deployment \in Deployments, NEW w, Over(w)
  PROVE  Fits(w)
  BY DeploymentTyped DEF Fits, Spent

LEMMA OneBudgetInit == ReplicaInit => OneBudget
  <1> SUFFICES ASSUME ReplicaInit, Told PROVE OneBudget
    BY DEF OneBudget
  <1>1. Answered("200") = {} /\ Answered("429") = {}
    BY DEF ReplicaInit, Answered
  <1>2. ~ Window.open /\ ~ windows[0]["security-1"].open
    <2>1. 0 \in Stores /\ deployment.spent = 0
      BY ReplicaCheckAssumption DEF Stores, Told
    <2>2. QED
      BY <2>1 DEF ReplicaInit, Window, NoWindow, Principals
  <1>3. Cardinality(Answered("200")) = 0
    BY <1>1, FS_EmptySet
  <1>4. QED
    BY <1>1, <1>2, <1>3, ReplicaCheckAssumption DEF ReplicaInit, OneBudget

(* What is told of the deployment after a step was told before it.         *)
LEMMA ToldBefore ==
  ASSUME Typed, [ReplicaNext]_replicaVars, Told'
  PROVE  Told
  <1>1. deployment' = deployment /\ epochs \subseteq epochs'
    BY DEF ReplicaNext, Tick, SendRequest, Isolate, Expire, Raise, Answers, Decides, Resends,
           replicaVars, gateways
  <1>2. resent => resent'
    BY DEF ReplicaNext, Tick, SendRequest, Isolate, Expire, Raise, Answers, Decides, Resends,
           replicaVars, gateways
  <1>3. Answered("other") \subseteq Answered("other")'
    BY DEF ReplicaNext, Tick, SendRequest, Isolate, Expire, Raise, replicaVars, Answered, Open,
           Typed, CheckTyped
  <1>4. QED
    BY <1>1, <1>2, <1>3 DEF Told

LEMMA OneBudgetSend ==
  ASSUME Typed, OneBudget, Told, Told', NEW i \in Burst, SendRequest(i)
  PROVE  OneBudget'
  <1>1. PICK status \in Statuses :
          Decides(Target(i), "analyst-1", status) /\ statuses' = [statuses EXCEPT ![i] = status]
    BY DecidesOnce DEF SendRequest, Told
  <1>2. /\ checking = "burst" /\ checking' = "burst" /\ Open(i) /\ deployment' = deployment
        /\ clock' = clock /\ clock \in Nat /\ epochs' = epochs \cup {Epoch}
        /\ Epoch = clock \div WindowSeconds
    BY <1>1 DEF SendRequest, Decides, Typed, Told, Epoch
  <1>3. \A s \in Statuses :
          Answered(s)' = IF s = status THEN Answered(s) \cup {i} ELSE Answered(s)
    BY <1>1, <1>2, AnsweredStep
  <1>4. status # "other"
    BY <1>3 DEF Told, Statuses
  <1>5. Store(Target(i)) = 0 /\ 0 \in Stores
    BY ReplicaCheckAssumption DEF Store, Told, Stores
  <1>6. epochs = {} \/ epochs = {Epoch}
    BY <1>2 DEF Told
  <1>7. Window \in [open : BOOLEAN, since : Nat, spent : Nat]
    BY <1>5 DEF Window, Typed, Fleet, Principals
  <1>8. /\ Over(Window) <=> epochs = {}
        /\ Spent(Window) = Cardinality(Answered("200"))
    <2>1. CASE epochs = {}
      BY <1>2, <2>1, FS_EmptySet DEF OneBudget, Over, Spent
    <2>2. CASE epochs = {Epoch}
      BY <1>2, <1>7, <2>2 DEF OneBudget, Over, Spent, Told
    <2>3. QED
      BY <1>6, <2>1, <2>2
  <1>9. Cardinality(Answered("200")) \in Nat /\ Cardinality(Answered("200")) <= RequestLimit
    BY AnsweredFinite DEF OneBudget
  <1>10. RequestLimit \in Nat \ {0} /\ WindowSeconds \in Nat \ {0} /\ deployment.limit = RequestLimit
    BY ReplicaCheckAssumption DEF Told
  <1>11. i \notin Answered("200")
    BY <1>2 DEF Answered, Open
  <1>12. ~ windows[0]["security-1"].open
    BY <1>2 DEF OneBudget
  <1>13. CASE status = "200"
    <2>1. /\ windows' = [windows EXCEPT ![0]["analyst-1"] = Charged(Window)]
          /\ Spent(Window) + 1 <= RequestLimit
      BY <1>1, <1>5, <1>10, <1>13 DEF Decides, Window, Fits
    <2>2. Window' = Charged(Window) /\ windows'[0]["security-1"] = windows[0]["security-1"]
      BY <1>5, <2>1 DEF Window, Typed, Fleet, Principals
    <2>3. Cardinality(Answered("200")') = Cardinality(Answered("200")) + 1
      BY <1>3, <1>11, <1>13, AnsweredFinite, FS_AddElement DEF Statuses
    <2>4. Answered("429")' = Answered("429")
      BY <1>3, <1>13 DEF Statuses
    <2>5. Answered("429") = {}
      BY <1>8, <1>9, <1>10, <2>1 DEF OneBudget
    <2>6. /\ Charged(Window).open /\ Charged(Window).spent = Cardinality(Answered("200")) + 1
          /\ Charged(Window).since = IF Over(Window) THEN clock ELSE Window.since
      BY <1>8 DEF Charged
    <2>7. /\ Charged(Window).since <= clock
          /\ Charged(Window).since \div WindowSeconds \in epochs'
      BY <1>2, <1>7, <1>8, <2>6 DEF OneBudget
    <2>8. QED
      BY <1>2, <1>8, <1>10, <1>12, <2>1, <2>2, <2>3, <2>4, <2>5, <2>6, <2>7 DEF OneBudget
  <1>14. CASE status = "429"
    <2>1. windows' = windows /\ ~ (Spent(Window) + 1 <= RequestLimit)
      BY <1>1, <1>5, <1>10, <1>14 DEF Decides, Window, Fits
    <2>2. Answered("200")' = Answered("200")
      BY <1>3, <1>14 DEF Statuses
    <2>3. Cardinality(Answered("200")) = RequestLimit
      BY <1>8, <1>9, <1>10, <2>1
    <2>4. epochs = {Epoch} /\ epochs' = epochs
      BY <1>2, <1>6, <1>8, <1>10, <2>3, FS_EmptySet DEF OneBudget
    <2>5. Window' = Window
      BY <2>1 DEF Window
    <2>6. QED
      BY <1>2, <1>10, <1>12, <2>1, <2>2, <2>3, <2>4, <2>5 DEF OneBudget
  <1>15. QED
    BY <1>4, <1>13, <1>14 DEF Statuses

LEMMA OneBudgetIsolate ==
  ASSUME Typed, OneBudget, Told, Told', Isolate
  PROVE  OneBudget'
  <1>1. /\ checking = "burst" /\ checking' = "asleep" /\ isolated' \in Statuses
        /\ Decides(0, "security-1", isolated') /\ wakes' = clock + Wait
        /\ clock' = clock /\ clock \in Nat /\ epochs' = epochs /\ statuses' = statuses
    BY DecidesOnce DEF Isolate, Typed, Told
  <1>2. Store(0) = 0 /\ 0 \in Stores
    BY ReplicaCheckAssumption DEF Store, Stores
  <1>3. Over(windows[0]["security-1"])
    BY <1>1 DEF OneBudget, Over
  <1>4. isolated' \in {"200", "other"}
    BY <1>1, <1>2, <1>3, RoomForOne DEF Decides, Statuses, Typed
  <1>5. windows'[0]["analyst-1"] = windows[0]["analyst-1"]
    BY <1>1, <1>2 DEF Decides, Typed, Fleet, Principals
  <1>6. Window' = Window /\ Window \in [open : BOOLEAN, since : Nat, spent : Nat]
    BY <1>2, <1>5 DEF Window, Typed, Fleet, Principals
  <1>7. \A s \in Statuses : Answered(s)' = Answered(s)
    BY <1>1 DEF Answered
  <1>8. Window.open => wakes' >= Window.since + WindowSeconds + 1
    <2>1. Window.open => Window.since <= clock
      BY <1>1 DEF OneBudget
    <2>2. QED
      BY <1>1, <1>6, <2>1, WaitTyped, ReplicaCheckAssumption
  <1>9. QED
    BY <1>1, <1>4, <1>6, <1>7, <1>8 DEF OneBudget, Statuses

LEMMA OneBudgetExpire ==
  ASSUME Typed, OneBudget, Told, Told', Expire
  PROVE  OneBudget'
  <1>1. /\ checking = "asleep" /\ checking' = "done" /\ expired' \in Statuses
        /\ clock >= wakes /\ Decides(1, "analyst-1", expired') /\ isolated' = isolated
        /\ clock \in Nat /\ wakes \in Nat /\ epochs' = epochs /\ statuses' = statuses
    BY DecidesOnce DEF Expire, Typed, CheckTyped, Told
  <1>2. Store(1) = 0 /\ 0 \in Stores
    BY ReplicaCheckAssumption DEF Store, Stores, Told
  <1>3. Window \in [open : BOOLEAN, since : Nat, spent : Nat]
    BY <1>2 DEF Window, Typed, Fleet, Principals
  <1>4. Over(Window)
    <2>1. CASE ~ Window.open
      BY <2>1 DEF Over
    <2>2. CASE Window.open
      <3>1. clock >= Window.since + WindowSeconds
        BY <1>1, <1>3, <2>2, ReplicaCheckAssumption DEF OneBudget
      <3>2. clock \div WindowSeconds # Window.since \div WindowSeconds
        BY <1>1, <1>3, <3>1, ReplicaCheckAssumption, LaterEpoch
      <3>3. QED
        BY <3>2 DEF Over, Epoch, Told
    <2>3. QED
      BY <2>1, <2>2
  <1>5. expired' \in {"200", "other"}
    BY <1>1, <1>2, <1>4, RoomForOne DEF Decides, Statuses, Typed, Window
  <1>6. \A s \in Statuses : Answered(s)' = Answered(s)
    BY <1>1 DEF Answered
  <1>7. QED
    BY <1>1, <1>5, <1>6 DEF OneBudget, Statuses

LEMMA OneBudgetStep == Typed /\ OneBudget /\ [ReplicaNext]_replicaVars => OneBudget'
  <1> SUFFICES ASSUME Typed, OneBudget, [ReplicaNext]_replicaVars, Told' PROVE OneBudget'
    BY DEF OneBudget
  <1>1. Told
    BY ToldBefore
  <1>2. ASSUME NEW i \in Burst, SendRequest(i) PROVE OneBudget'
    BY <1>1, <1>2, OneBudgetSend
  <1>3. CASE Tick
    <2>1. Window.open \in BOOLEAN /\ Window.since \in Nat
      BY ReplicaCheckAssumption DEF Window, Typed, Fleet, Principals, Stores
    <2>2. clock \in Nat /\ clock' = clock + 1 /\ Window' = Window
      BY <1>3 DEF Tick, gateways, Typed, Window
    <2>3. \A s \in Statuses : Answered(s)' = Answered(s)
      BY <1>3 DEF Tick, Answered
    <2>4. Window.since <= clock => Window.since <= clock'
      BY <2>1, <2>2
    <2>5. QED
      BY <1>1, <1>3, <2>2, <2>3, <2>4 DEF Tick, gateways, OneBudget, Statuses
  <1>4. CASE Isolate
    BY <1>1, <1>4, OneBudgetIsolate
  <1>5. CASE Expire
    BY <1>1, <1>5, OneBudgetExpire
  <1>6. CASE Raise
    BY <1>1, <1>6 DEF Raise, gateways, OneBudget, Answered, Window
  <1>7. CASE UNCHANGED replicaVars
    BY <1>1, <1>7 DEF replicaVars, gateways, OneBudget, Answered, Window
  <1>8. QED
    BY <1>2, <1>3, <1>4, <1>5, <1>6, <1>7 DEF ReplicaNext

(* All of a burst that is over was served or refused: a whole limit of it  *)
(* was served, as more than that was sent.                                 *)
LEMMA OneBudgetPasses ==
  ASSUME Typed, BurstOver, OneBudget, Told, checking = "done", isolated # "other", expired # "other"
  PROVE  Passes
  <1> USE ReplicaCheckAssumption
  <1>1. Burst = Answered("200") \cup Answered("429")
    BY DEF BurstOver, Open, Typed, CheckTyped, Statuses, Answered, Told
  <1>2. Answered("200") \cap Answered("429") = {}
    BY DEF Answered
  <1> DEFINE served == Cardinality(Answered("200"))
             refused == Cardinality(Answered("429"))
  <1>3. /\ IsFiniteSet(Answered("200")) /\ IsFiniteSet(Answered("429"))
        /\ served \in Nat /\ refused \in Nat
    BY AnsweredFinite
  <1>4. Cardinality(Burst) = TotalRequests
    BY BurstFinite
  <1>5. TotalRequests = served + refused
    <2>1. Cardinality(Answered("200") \cup Answered("429"))
            = served + refused - Cardinality(Answered("200") \cap Answered("429"))
      BY <1>3, FS_Union
    <2>2. Cardinality(Answered("200") \cap Answered("429")) = 0
      BY <1>2, FS_EmptySet
    <2>3. Cardinality(Answered("200") \cup Answered("429")) = TotalRequests
      BY <1>1, <1>4
    <2> HIDE DEF served, refused
    <2>4. QED
      BY <1>3, <2>1, <2>2, <2>3
  <1>6. served <= RequestLimit /\ (Answered("429") # {} => served = RequestLimit)
    BY DEF OneBudget
  <1>7. Answered("429") = {} => refused = 0
    BY FS_EmptySet
  <1> HIDE DEF served, refused
  <1>8. served = RequestLimit /\ refused = TotalRequests - RequestLimit
    BY <1>3, <1>5, <1>6, <1>7
  <1>9. isolated = "200" /\ expired = "200" /\ Answered("other") = {}
    BY DEF OneBudget, Told
  <1>10. QED
    BY <1>8, <1>9 DEF served, refused, Passes

FiniteEpochs == IsFiniteSet(epochs)

LEMMA EpochsFinite == ReplicaSpec => []FiniteEpochs
  <1>1. ReplicaInit => FiniteEpochs
    BY FS_EmptySet DEF ReplicaInit, FiniteEpochs
  <1>2. FiniteEpochs /\ [ReplicaNext]_replicaVars => FiniteEpochs'
    <2>1. [ReplicaNext]_replicaVars => epochs' = epochs \/ epochs' = epochs \cup {Epoch}
      BY DEF ReplicaNext, Tick, SendRequest, Isolate, Expire, Raise, replicaVars
    <2>2. IsFiniteSet(epochs) => IsFiniteSet(epochs \cup {Epoch})
      BY FS_AddElement
    <2>3. QED
      BY <2>1, <2>2 DEF FiniteEpochs
  <1>3. QED
    BY <1>1, <1>2, PTL DEF ReplicaSpec

(* The check raises no false alarm, either: replicas that share the budget *)
(* pass, however their answers overtake each other.                        *)
THEOREM SharingPasses == ReplicaSpec => []SharedPasses
  <1>1. ReplicaInit => BurstOver
    BY DEF ReplicaInit, BurstOver
  <1>2. Typed /\ BurstOver /\ OneBudget /\ FiniteEpochs => SharedPasses
    <2> SUFFICES ASSUME Typed, BurstOver, OneBudget, FiniteEpochs, checking = "done",
                        deployment = [shared |-> TRUE, limit |-> RequestLimit,
                                      window |-> WindowSeconds, spent |-> 0],
                        Cardinality(epochs) = 1, ~ resent, Answered("other") = {},
                        isolated # "other", expired # "other"
                 PROVE  Passes
      BY DEF SharedPasses
    <2>1. \A e, f \in epochs : e = f
      BY FS_Singleton DEF FiniteEpochs
    <2>2. QED
      BY <2>1, OneBudgetPasses DEF Told
  <1>3. QED
    BY <1>1, <1>2, TypedInit, TypedStep, BurstOverStep, OneBudgetInit, OneBudgetStep,
       EpochsFinite, PTL DEF ReplicaSpec

-----------------------------------------------------------------------------
(* Overhead: any number of connections, repetitions and requests.          *)
Where(states) == {w \in Connections : worker[w] \in states}

InFlight == {"asked", "audited", "recorded"}

PairRequests == Warmup + Requests

(* The pairs of drives of the gateway that were over before drive n.       *)
GatewayPairs(n) ==
  RepetitionOf(n) + (IF ~ InFirstHalf(n) /\ RepetitionOf(n) % 2 = 1 THEN 1 ELSE 0)

AskedBefore(n) == IF Measured(n) /\ DrivenPath(n) = "gateway" THEN Warmup ELSE 0

Summaries == [path : {"direct", "gateway"}, repetition : Nat, requests : Nat, median : Nat]

OverheadTyped ==
  /\ stage \in {"driving", "counting", "reported", "failed"}
  /\ turn \in Nat \ {0}
  /\ remaining \in Nat
  /\ worker \in [Connections -> {"opening", "ready", "asked", "audited", "recorded", "closed"}]
  /\ timings \in Nat /\ expected \in Nat /\ audits \in Nat /\ spans \in Nat /\ asked \in Nat
  /\ summaries \in Seq(Summaries)
  /\ broken \in BOOLEAN

(* Each request of a drive is yet to be begun, in flight, or measured.     *)
DriveCounted ==
  stage = "driving" =>
    /\ turn \in Turns
    /\ remaining + Cardinality(Where(InFlight)) + timings = Total(turn)
    /\ \A w \in Connections : worker[w] = "closed" => remaining = 0
    /\ \A w \in Connections : worker[w] \in {"audited", "recorded"} => DrivenPath(turn) = "gateway"

(* A request of the gateway that is not in a file is on its way there.     *)
FilesCounted ==
  stage = "driving" =>
    /\ asked = expected + AskedBefore(turn)
                 + (IF DrivenPath(turn) = "gateway" THEN Total(turn) - remaining ELSE 0)
    /\ audits + (IF DrivenPath(turn) = "gateway" THEN Cardinality(Where({"asked"})) ELSE 0) = asked
    /\ spans + (IF DrivenPath(turn) = "gateway" THEN Cardinality(Where({"asked", "audited"})) ELSE 0)
         = asked

PairsCounted == stage \in {"driving", "counting"} => expected = GatewayPairs(turn) * PairRequests

AllDriven ==
  stage \in {"counting", "reported"} =>
    /\ turn = 4 * OverheadRepetitions + 1
    /\ asked = expected /\ audits = expected /\ spans = expected
    /\ expected = OverheadRepetitions * PairRequests

SummaryAt(n) ==
  [path |-> DrivenPath(2 * n), repetition |-> RepetitionOf(2 * n), requests |-> Requests,
   median |-> MedianRank(Requests)]

Summarized ==
  stage # "failed" =>
    /\ Len(summaries) = (turn - 1) \div 2
    /\ \A n \in DOMAIN summaries : summaries[n] = SummaryAt(n)

OverheadInv ==
  /\ OverheadTyped /\ DriveCounted /\ FilesCounted /\ PairsCounted /\ AllDriven /\ Summarized
  /\ stage = "failed" => broken

LEMMA WhereFinite ==
  ASSUME NEW S
  PROVE  IsFiniteSet(Where(S)) /\ Cardinality(Where(S)) \in Nat
  <1>1. Where(S) \in SUBSET Connections
    BY DEF Where
  <1>2. QED
    BY <1>1, OverheadAssumption, FS_Subset, FS_CardinalityType

(* One worker moves.                                                       *)
LEMMA WorkerMoves ==
  ASSUME OverheadTyped, NEW w \in Connections, NEW from, NEW to, Advance(w, from, to), NEW S
  PROVE  Cardinality(Where(S)') = Cardinality(Where(S)) - (IF from \in S THEN 1 ELSE 0)
                                    + (IF to \in S THEN 1 ELSE 0)
  <1> DEFINE others == {v \in Connections \ {w} : worker[v] \in S}
  <1>1. \A v \in Connections : worker'[v] = IF v = w THEN to ELSE worker[v]
    BY DEF Advance, OverheadTyped
  <1>2. worker[w] = from
    BY DEF Advance
  <1>3. Where(S) = IF from \in S THEN others \cup {w} ELSE others
    BY <1>2 DEF Where
  <1>4. Where(S)' = IF to \in S THEN others \cup {w} ELSE others
    BY <1>1 DEF Where
  <1>5. others \in SUBSET Connections /\ w \notin others
    OBVIOUS
  <1>6. IsFiniteSet(others) /\ Cardinality(others) \in Nat
    BY <1>5, OverheadAssumption, FS_Subset, FS_CardinalityType
  <1> HIDE DEF others
  <1>7. Cardinality(others \cup {w}) = Cardinality(others) + 1
    BY <1>5, <1>6, FS_AddElement
  <1>8. Cardinality(Where(S)) = IF from \in S THEN Cardinality(others) + 1 ELSE Cardinality(others)
    BY <1>3, <1>7
  <1>9. Cardinality(Where(S)') = IF to \in S THEN Cardinality(others) + 1 ELSE Cardinality(others)
    BY <1>4, <1>7
  <1>10. QED
    BY <1>6, <1>8, <1>9

(* The order of the drives.                                                *)
LEMMA DriveOrder ==
  ASSUME NEW n \in Nat \ {0}
  PROVE  /\ RepetitionOf(n) \in Nat /\ GatewayPairs(n) \in Nat
         /\ DrivenPath(n) \in {"direct", "gateway"}
         /\ Total(n) \in Nat /\ AskedBefore(n) \in Nat
         /\ ~ Measured(n) => /\ GatewayPairs(n + 1) = GatewayPairs(n)
                             /\ DrivenPath(n + 1) = DrivenPath(n)
                             /\ Measured(n + 1)
         /\ Measured(n) => /\ GatewayPairs(n + 1) = GatewayPairs(n)
                                + (IF DrivenPath(n) = "gateway" THEN 1 ELSE 0)
                           /\ ~ Measured(n + 1)
  <1> DEFINE q == (n - 1) \div 4
             r == (n - 1) % 4
  <1>1. q \in Nat /\ r \in 0 .. 3 /\ n = 4 * q + r + 1
    OBVIOUS
  <1>2. RepetitionOf(n) = q /\ (InFirstHalf(n) <=> r < 2)
    BY DEF RepetitionOf, InFirstHalf
  <1> HIDE DEF q, r
  <1>3. RepetitionOf(n + 1) = IF r = 3 THEN q + 1 ELSE q
    BY <1>1 DEF RepetitionOf
  <1>4. InFirstHalf(n + 1) <=> r \in {0, 3}
    BY <1>1 DEF InFirstHalf
  <1>5. (Measured(n) <=> r \in {1, 3}) /\ (Measured(n + 1) <=> r \in {0, 2})
    BY <1>1 DEF Measured
  <1>6. Total(n) \in Nat /\ AskedBefore(n) \in Nat
    BY OverheadAssumption DEF Total, AskedBefore
  <1>7. q % 2 \in {0, 1} /\ (q + 1) % 2 = 1 - (q % 2)
    BY <1>1
  <1>8. /\ DrivenPath(n) = IF r < 2 <=> q % 2 = 0 THEN "direct" ELSE "gateway"
        /\ GatewayPairs(n) = q + (IF ~ (r < 2) /\ q % 2 = 1 THEN 1 ELSE 0)
    BY <1>2 DEF GatewayPairs, DrivenPath
  <1>9. CASE r = 3
    <2>1. GatewayPairs(n + 1) = q + 1
      <3>1. InFirstHalf(n + 1) /\ RepetitionOf(n + 1) = q + 1 /\ q + 1 \in Nat
        BY <1>1, <1>3, <1>4, <1>9
      <3>2. QED
        BY <3>1 DEF GatewayPairs
    <2>2. QED
      BY <1>1, <1>2, <1>5, <1>6, <1>7, <1>8, <1>9, <2>1
  <1>10. CASE r \in {0, 1, 2}
    <2>1. /\ DrivenPath(n + 1) = IF r = 0 <=> q % 2 = 0 THEN "direct" ELSE "gateway"
          /\ GatewayPairs(n + 1) = q + (IF r # 0 /\ q % 2 = 1 THEN 1 ELSE 0)
      BY <1>3, <1>4, <1>10 DEF GatewayPairs, DrivenPath
    <2>2. QED
      BY <1>1, <1>2, <1>5, <1>6, <1>7, <1>8, <1>10, <2>1
  <1>11. QED
    BY <1>1, <1>9, <1>10

LEMMA MedianNear ==
  ASSUME NEW n \in Nat \ {0}
  PROVE  MedianRank(n) \in Nat /\ 2 * MedianRank(n) \in n - 1 .. n + 1
  BY DEF MedianRank

LEMMA NothingInFlight ==
  ASSUME \A w \in Connections : worker[w] \in {"opening", "closed"},
         NEW S \in SUBSET InFlight
  PROVE  Cardinality(Where(S)) = 0
  <1>1. Where(S) = {}
    BY DEF Where, InFlight
  <1>2. QED
    BY <1>1, FS_EmptySet

LEMMA OverheadBegins == OverheadInit => OverheadInv
  <1> SUFFICES ASSUME OverheadInit PROVE OverheadInv
    OBVIOUS
  <1> USE OverheadAssumption
  <1>1. 1 \in Turns /\ ~ Measured(1) /\ GatewayPairs(1) = 0 /\ Total(1) = Warmup
    BY DEF Turns, Measured, GatewayPairs, RepetitionOf, InFirstHalf, Total
  <1>2. OverheadTyped
    <2>1. summaries \in Seq(Summaries)
      BY DEF OverheadInit
    <2>2. remaining = Warmup /\ Warmup \in Nat
      BY <1>1 DEF OverheadInit
    <2>3. worker \in [Connections -> {"opening", "ready", "asked", "audited", "recorded", "closed"}]
      BY DEF OverheadInit
    <2>4. /\ stage = "driving" /\ turn \in Nat \ {0} /\ timings \in Nat /\ expected \in Nat
          /\ audits \in Nat /\ spans \in Nat /\ asked \in Nat
      BY DEF OverheadInit
    <2>5. broken \in BOOLEAN
      BY DEF OverheadInit
    <2>6. QED
      BY <2>1, <2>2, <2>3, <2>4, <2>5 DEF OverheadTyped
  <1>3. \A S \in SUBSET InFlight : Cardinality(Where(S)) = 0
    BY NothingInFlight DEF OverheadInit
  <1>4. DriveCounted
    BY <1>1, <1>3 DEF OverheadInit, DriveCounted
  <1>5. FilesCounted
    BY <1>1, <1>3 DEF OverheadInit, FilesCounted, AskedBefore, InFlight
  <1>6. PairsCounted /\ Summarized
    BY <1>1 DEF OverheadInit, PairsCounted, Summarized, PairRequests
  <1>7. QED
    BY <1>2, <1>4, <1>5, <1>6 DEF OverheadInit, OverheadInv, AllDriven

(* A worker's step, within a drive.                                        *)
WorkerStep(w) == Connect(w) \/ Ask(w) \/ Disconnect(w) \/ WriteAudit(w) \/ WriteSpan(w) \/ Reply(w)

LEMMA WorkerKeepsTypes ==
  ASSUME OverheadTyped, NEW w \in Connections, WorkerStep(w)
  PROVE  OverheadTyped'
  <1>1. remaining' \in Nat /\ timings' \in Nat /\ asked' \in Nat /\ audits' \in Nat /\ spans' \in Nat
    <2>1. CASE Ask(w)
      BY <2>1 DEF Ask, MoreToAsk, OverheadTyped, log
    <2>2. CASE WriteAudit(w) \/ WriteSpan(w)
      BY <2>2 DEF WriteAudit, WriteSpan, OverheadTyped
    <2>3. CASE Connect(w) \/ Disconnect(w) \/ Reply(w)
      BY <2>3 DEF Connect, Disconnect, Reply, OverheadTyped, log
    <2>4. QED
      BY <2>1, <2>2, <2>3 DEF WorkerStep
  <1>2. worker' \in [Connections -> {"opening", "ready", "asked", "audited", "recorded", "closed"}]
    BY DEF WorkerStep, Connect, Ask, Disconnect, WriteAudit, WriteSpan, Reply, OverheadTyped, Advance
  <1>3. UNCHANGED <<stage, turn, expected, summaries, broken>>
    BY DEF WorkerStep, Connect, Ask, Disconnect, WriteAudit, WriteSpan, Reply, Advance
  <1>4. QED
    BY <1>1, <1>2, <1>3 DEF OverheadTyped

LEMMA WorkerCounted ==
  ASSUME OverheadInv, NEW w \in Connections, WorkerStep(w)
  PROVE  DriveCounted' /\ FilesCounted'
  <1> DEFINE gateway == DrivenPath(turn) = "gateway"
             flying == Cardinality(Where(InFlight))
             unaudited == Cardinality(Where({"asked"}))
             unspanned == Cardinality(Where({"asked", "audited"}))
  <1>1. PICK from, to : Advance(w, from, to)
    BY DEF WorkerStep, Connect, Ask, Disconnect, WriteAudit, WriteSpan, Reply
  <1>2. OverheadTyped /\ stage = "driving" /\ stage' = "driving" /\ turn' = turn /\ expected' = expected
    BY DEF WorkerStep, Connect, Ask, Disconnect, WriteAudit, WriteSpan, Reply, Advance, OverheadInv
  <1>3. /\ turn \in Turns
        /\ remaining + flying + timings = Total(turn)
        /\ \A v \in Connections : worker[v] = "closed" => remaining = 0
        /\ \A v \in Connections : worker[v] \in {"audited", "recorded"} => gateway
    BY <1>2 DEF OverheadInv, DriveCounted
  <1>4. /\ asked = expected + AskedBefore(turn) + (IF gateway THEN Total(turn) - remaining ELSE 0)
        /\ audits + (IF gateway THEN unaudited ELSE 0) = asked
        /\ spans + (IF gateway THEN unspanned ELSE 0) = asked
    BY <1>2 DEF OverheadInv, FilesCounted
  <1>5. /\ flying \in Nat /\ unaudited \in Nat /\ unspanned \in Nat
        /\ Total(turn) \in Nat /\ AskedBefore(turn) \in Nat
    BY <1>2, WhereFinite, DriveOrder DEF OverheadTyped
  <1>6. /\ remaining \in Nat /\ timings \in Nat /\ expected \in Nat /\ audits \in Nat
        /\ spans \in Nat /\ asked \in Nat
    BY <1>2 DEF OverheadTyped
  <1>7. \A v \in Connections : worker'[v] = IF v = w THEN worker'[w] ELSE worker[v]
    BY <1>1, <1>2 DEF Advance, OverheadTyped
  <1> DEFINE Moves(a, b) ==
               /\ worker[w] = a /\ worker'[w] = b
               /\ flying' = flying - (IF a \in InFlight THEN 1 ELSE 0)
                                   + (IF b \in InFlight THEN 1 ELSE 0)
               /\ unaudited' = unaudited - (IF a = "asked" THEN 1 ELSE 0)
                                         + (IF b = "asked" THEN 1 ELSE 0)
               /\ unspanned' = unspanned - (IF a \in {"asked", "audited"} THEN 1 ELSE 0)
                                         + (IF b \in {"asked", "audited"} THEN 1 ELSE 0)
  <1>8. ASSUME NEW a, NEW b, Advance(w, a, b) PROVE Moves(a, b)
    <2>1. /\ Cardinality(Where(InFlight)') = flying - (IF a \in InFlight THEN 1 ELSE 0)
                                                   + (IF b \in InFlight THEN 1 ELSE 0)
          /\ Cardinality(Where({"asked"})') = unaudited - (IF a \in {"asked"} THEN 1 ELSE 0)
                                                        + (IF b \in {"asked"} THEN 1 ELSE 0)
          /\ Cardinality(Where({"asked", "audited"})') =
               unspanned - (IF a \in {"asked", "audited"} THEN 1 ELSE 0)
                         + (IF b \in {"asked", "audited"} THEN 1 ELSE 0)
      BY <1>2, <1>8, WorkerMoves
    <2>2. worker[w] = a /\ worker'[w] = b
      BY <1>2, <1>8 DEF Advance, OverheadTyped
    <2>3. QED
      BY <2>1, <2>2
  <1>9. /\ flying' = Cardinality(Where(InFlight)') /\ unaudited' = Cardinality(Where({"asked"})')
        /\ unspanned' = Cardinality(Where({"asked", "audited"})')
    OBVIOUS
  <1> DEFINE Drive ==
               /\ remaining' + flying' + timings' = Total(turn)
               /\ \A v \in Connections : worker'[v] = "closed" => remaining' = 0
               /\ \A v \in Connections : worker'[v] \in {"audited", "recorded"} => gateway
             Lines ==
               /\ asked' = expected + AskedBefore(turn)
                             + (IF gateway THEN Total(turn) - remaining' ELSE 0)
               /\ audits' + (IF gateway THEN unaudited' ELSE 0) = asked'
               /\ spans' + (IF gateway THEN unspanned' ELSE 0) = asked'
  <1>10. Drive /\ Lines => DriveCounted' /\ FilesCounted'
    BY <1>2, <1>3, <1>9 DEF DriveCounted, FilesCounted
  <1> HIDE DEF flying, unaudited, unspanned
  <1>11. CASE Connect(w)
    <2>1. Moves("opening", "ready")
      BY <1>8, <1>11 DEF Connect
    <2>2. UNCHANGED <<remaining, timings, audits, spans, asked>>
      BY <1>11 DEF Connect, log
    <2>3. Drive
      BY <1>3, <1>5, <1>6, <1>7, <2>1, <2>2 DEF InFlight
    <2>4. Lines
      BY <1>3, <1>4, <1>5, <1>6, <2>1, <2>2
    <2>5. QED
      BY <1>10, <2>3, <2>4
  <1>12. CASE Ask(w)
    <2>1. Moves("ready", "asked")
      BY <1>8, <1>12 DEF Ask
    <2>2. /\ remaining > 0 /\ remaining' = remaining - 1
          /\ asked' = IF gateway THEN asked + 1 ELSE asked
          /\ UNCHANGED <<timings, audits, spans>>
      BY <1>12 DEF Ask, log, MoreToAsk
    <2>3. Drive
      BY <1>3, <1>5, <1>6, <1>7, <2>1, <2>2 DEF InFlight
    <2>4. Lines
      BY <1>3, <1>4, <1>5, <1>6, <2>1, <2>2
    <2>5. QED
      BY <1>10, <2>3, <2>4
  <1>13. CASE Disconnect(w)
    <2>1. Moves("ready", "closed")
      BY <1>8, <1>13 DEF Disconnect
    <2>2. ~ (remaining > 0) /\ UNCHANGED <<remaining, timings, audits, spans, asked>>
      BY <1>13 DEF Disconnect, log, MoreToAsk
    <2>3. Drive
      BY <1>3, <1>5, <1>6, <1>7, <2>1, <2>2 DEF InFlight
    <2>4. Lines
      BY <1>3, <1>4, <1>5, <1>6, <2>1, <2>2
    <2>5. QED
      BY <1>10, <2>3, <2>4
  <1>14. CASE WriteAudit(w)
    <2>1. Moves("asked", "audited")
      BY <1>8, <1>14 DEF WriteAudit
    <2>2. gateway /\ audits' = audits + 1 /\ UNCHANGED <<remaining, timings, spans, asked>>
      BY <1>14 DEF WriteAudit
    <2>3. Drive
      BY <1>3, <1>5, <1>6, <1>7, <2>1, <2>2 DEF InFlight
    <2>4. Lines
      BY <1>3, <1>4, <1>5, <1>6, <2>1, <2>2
    <2>5. QED
      BY <1>10, <2>3, <2>4
  <1>15. CASE WriteSpan(w)
    <2>1. Moves("audited", "recorded")
      BY <1>8, <1>15 DEF WriteSpan
    <2>2. gateway /\ spans' = spans + 1 /\ UNCHANGED <<remaining, timings, audits, asked>>
      BY <1>3, <1>15, <2>1 DEF WriteSpan
    <2>3. Drive
      BY <1>3, <1>5, <1>6, <1>7, <2>1, <2>2 DEF InFlight
    <2>4. Lines
      BY <1>3, <1>4, <1>5, <1>6, <2>1, <2>2
    <2>5. QED
      BY <1>10, <2>3, <2>4
  <1>16. CASE Reply(w)
    <2>1. Moves(IF gateway THEN "recorded" ELSE "asked", "ready")
      BY <1>8, <1>16 DEF Reply
    <2>2. timings' = timings + 1 /\ UNCHANGED <<remaining, audits, spans, asked>>
      BY <1>16 DEF Reply, log
    <2>3. Drive
      BY <1>3, <1>5, <1>6, <1>7, <2>1, <2>2 DEF InFlight
    <2>4. Lines
      BY <1>3, <1>4, <1>5, <1>6, <2>1, <2>2
    <2>5. QED
      BY <1>10, <2>3, <2>4
  <1>17. QED
    BY <1>11, <1>12, <1>13, <1>14, <1>15, <1>16 DEF WorkerStep

LEMMA DriveEnds ==
  ASSUME OverheadInv, EndDrive
  PROVE  OverheadInv'
  <1> USE OverheadAssumption
  <1>1. OverheadTyped /\ stage = "driving" /\ turn \in Turns /\ turn \in Nat \ {0}
    BY DEF EndDrive, OverheadInv, DriveCounted, OverheadTyped
  <1>2. remaining = 0
    BY <1>1 DEF EndDrive, OverheadInv, DriveCounted
  <1>3. \A S \in SUBSET InFlight : Cardinality(Where(S)) = 0
    BY NothingInFlight DEF EndDrive
  <1>4. timings = Total(turn) /\ timings \in Nat
    BY <1>1, <1>2, <1>3, DriveOrder DEF OverheadInv, DriveCounted, OverheadTyped
  <1> DEFINE gateway == DrivenPath(turn) = "gateway"
             measured == Measured(turn)
  <1>5. /\ asked = expected + AskedBefore(turn) + (IF gateway THEN Total(turn) ELSE 0)
        /\ audits = asked /\ spans = asked
        /\ asked \in Nat /\ audits \in Nat /\ spans \in Nat /\ expected \in Nat
    <2>1. Cardinality(Where({"asked"})) = 0 /\ Cardinality(Where({"asked", "audited"})) = 0
      BY <1>3 DEF InFlight
    <2>2. Total(turn) \in Nat /\ AskedBefore(turn) \in Nat
      BY <1>1, DriveOrder
    <2>3. QED
      BY <1>1, <1>2, <2>1, <2>2 DEF OverheadInv, FilesCounted, OverheadTyped
  <1>6. /\ turn' = turn + 1
        /\ expected' = IF measured /\ gateway THEN expected + PairRequests ELSE expected
        /\ UNCHANGED <<audits, spans, asked, broken>>
        /\ timings' = 0
        /\ stage' = IF turn + 1 \in Turns THEN "driving" ELSE "counting"
        /\ remaining' = IF turn + 1 \in Turns THEN Total(turn + 1) ELSE 0
        /\ worker' = [w \in Connections |-> "opening"]
    BY <1>1 DEF EndDrive, log, PairRequests, OverheadTyped
  <1>7. asked' = expected' + AskedBefore(turn + 1)
    BY <1>1, <1>5, <1>6, DriveOrder DEF AskedBefore, Total, PairRequests
  <1>8. Total(turn + 1) \in Nat /\ PairRequests \in Nat
    BY <1>1, DriveOrder DEF PairRequests
  <1>9. expected' = GatewayPairs(turn + 1) * PairRequests
    <2>1. expected = GatewayPairs(turn) * PairRequests
      BY <1>1 DEF OverheadInv, PairsCounted
    <2>2. GatewayPairs(turn + 1) = IF measured /\ gateway THEN GatewayPairs(turn) + 1
                                                          ELSE GatewayPairs(turn)
      BY <1>1, DriveOrder
    <2>3. GatewayPairs(turn) \in Nat
      BY <1>1, DriveOrder
    <2>4. (GatewayPairs(turn) + 1) * PairRequests = GatewayPairs(turn) * PairRequests + PairRequests
      BY <1>8, <2>3
    <2>5. QED
      BY <1>6, <2>1, <2>2, <2>4
  <1>10. Summarized' /\ summaries' \in Seq(Summaries)
    <2>1. /\ Len(summaries) = (turn - 1) \div 2
          /\ \A n \in DOMAIN summaries : summaries[n] = SummaryAt(n)
          /\ summaries \in Seq(Summaries)
      BY <1>1 DEF OverheadInv, Summarized, OverheadTyped
    <2>2. CASE ~ measured
      <3>1. summaries' = summaries /\ (turn' - 1) \div 2 = (turn - 1) \div 2
        BY <1>1, <1>6, <2>2 DEF EndDrive, Measured
      <3>2. QED
        BY <1>6, <2>1, <3>1 DEF Summarized
    <2>3. CASE measured
      <3>1. summaries' = Append(summaries, Summary)
        BY <2>3 DEF EndDrive
      <3>2. turn = 2 * ((turn - 1) \div 2 + 1) /\ (turn - 1) \div 2 \in Nat
            /\ (turn' - 1) \div 2 = (turn - 1) \div 2 + 1
        BY <1>1, <1>6, <2>3 DEF Measured
      <3>3. Total(turn) = Requests
        BY <2>3 DEF Total
      <3>4. Summary = SummaryAt(Len(summaries) + 1)
        BY <1>4, <2>1, <3>2, <3>3 DEF Summary, SummaryAt
      <3>5. Summary \in Summaries
        BY <1>1, <1>4, <3>3, DriveOrder, MedianNear DEF Summary, Summaries
      <3> HIDE DEF measured
      <3>6. /\ summaries' \in Seq(Summaries)
            /\ Len(summaries') = Len(summaries) + 1
            /\ \A n \in DOMAIN summaries' :
                 summaries'[n] = IF n = Len(summaries) + 1 THEN Summary ELSE summaries[n]
            /\ DOMAIN summaries' = DOMAIN summaries \cup {Len(summaries) + 1}
        BY <2>1, <3>1, <3>5
      <3>7. \A n \in DOMAIN summaries' : summaries'[n] = SummaryAt(n)
        BY <2>1, <3>4, <3>6
      <3>8. QED
        BY <2>1, <3>2, <3>6, <3>7 DEF Summarized
    <2>4. QED
      BY <2>2, <2>3
  <1>11. OverheadTyped'
    BY <1>1, <1>5, <1>6, <1>8, <1>10 DEF OverheadTyped
  <1>12. PairsCounted'
    BY <1>6, <1>9 DEF PairsCounted
  <1>13. \A S \in SUBSET InFlight : Cardinality(Where(S)') = 0
    <2>1. \A S \in SUBSET InFlight : Where(S)' = {}
      BY <1>6 DEF Where, InFlight
    <2>2. QED
      BY <2>1, FS_EmptySet
  <1>14. CASE turn + 1 \in Turns
    <2>1. DriveCounted'
      BY <1>6, <1>8, <1>13, <1>14 DEF DriveCounted
    <2>2. Cardinality(Where({"asked"})') = 0 /\ Cardinality(Where({"asked", "audited"})') = 0
      BY <1>13 DEF InFlight
    <2>3. FilesCounted'
      BY <1>5, <1>6, <1>7, <1>8, <1>14, <2>2, DriveOrder DEF FilesCounted
    <2>4. QED
      BY <1>6, <1>10, <1>11, <1>12, <1>14, <2>1, <2>3 DEF OverheadInv, AllDriven
  <1>15. CASE turn + 1 \notin Turns
    <2>1. turn = 4 * OverheadRepetitions
      BY <1>1, <1>15 DEF Turns
    <2>2. /\ RepetitionOf(turn + 1) = OverheadRepetitions /\ InFirstHalf(turn + 1)
          /\ ~ Measured(turn + 1)
      BY <2>1 DEF RepetitionOf, InFirstHalf, Measured
    <2>3. GatewayPairs(turn + 1) = OverheadRepetitions /\ AskedBefore(turn + 1) = 0
      BY <2>2 DEF GatewayPairs, AskedBefore
    <2>4. AllDriven'
      BY <1>5, <1>6, <1>7, <1>9, <1>11, <2>1, <2>3 DEF AllDriven, OverheadTyped
    <2>5. QED
      BY <1>6, <1>10, <1>11, <1>12, <1>15, <2>4 DEF OverheadInv, DriveCounted, FilesCounted
  <1>16. QED
    BY <1>14, <1>15

LEMMA OverheadStep == OverheadInv /\ [OverheadNext]_overheadVars => OverheadInv'
  <1> SUFFICES ASSUME OverheadInv, [OverheadNext]_overheadVars PROVE OverheadInv'
    OBVIOUS
  <1>1. ASSUME NEW w \in Connections, WorkerStep(w) PROVE OverheadInv'
    <2>1. /\ stage = "driving" /\ stage' = "driving"
          /\ UNCHANGED <<turn, expected, summaries, broken>>
      BY <1>1 DEF WorkerStep, Connect, Ask, Disconnect, WriteAudit, WriteSpan, Reply, Advance
    <2>2. OverheadTyped' /\ DriveCounted' /\ FilesCounted'
      BY <1>1, WorkerKeepsTypes, WorkerCounted DEF OverheadInv
    <2>3. PairsCounted' /\ Summarized'
      BY <2>1 DEF OverheadInv, PairsCounted, Summarized
    <2>4. QED
      BY <2>1, <2>2, <2>3 DEF OverheadInv, AllDriven
  <1>2. ASSUME NEW w \in Connections, Break(w) PROVE OverheadInv'
    <2>1. OverheadTyped'
      BY <1>2 DEF OverheadInv, Break, OverheadTyped, log
    <2>2. QED
      BY <1>2, <2>1 DEF OverheadInv, Break, DriveCounted, FilesCounted, PairsCounted, AllDriven,
                        Summarized
  <1>3. CASE EndDrive
    BY <1>3, DriveEnds
  <1>4. CASE CountLines
    <2>1. AllCounted /\ stage' = "reported"
      BY <1>4 DEF CountLines, AllCounted, OverheadInv, AllDriven
    <2>2. OverheadTyped'
      BY <1>4, <2>1 DEF OverheadInv, CountLines, OverheadTyped, log
    <2>3. AllDriven' /\ Summarized'
      BY <1>4, <2>1 DEF OverheadInv, CountLines, AllDriven, Summarized, log
    <2>4. QED
      BY <2>1, <2>2, <2>3 DEF OverheadInv, DriveCounted, FilesCounted, PairsCounted
  <1>5. CASE UNCHANGED overheadVars
    BY <1>5 DEF overheadVars, log, OverheadInv, OverheadTyped, DriveCounted, FilesCounted, PairsCounted,
                AllDriven, Summarized, Where
  <1>6. QED
    BY <1>1, <1>2, <1>3, <1>4, <1>5 DEF OverheadNext, WorkerStep

(* Of each path, every repetition has its measured drive.                  *)
LEMMA AllRepetitionsSummarized ==
  ASSUME OverheadInv, stage = "reported", NEW path \in {"direct", "gateway"}
  PROVE  {summaries[n].repetition : n \in SummariesOf(path)} = 0 .. OverheadRepetitions - 1
  <1> USE OverheadAssumption
  <1>1. turn = 4 * OverheadRepetitions + 1
    BY DEF OverheadInv, AllDriven
  <1>2. (turn - 1) \div 2 = 2 * OverheadRepetitions
    BY <1>1
  <1>3. DOMAIN summaries = 1 .. 2 * OverheadRepetitions
    BY <1>2 DEF OverheadInv, Summarized, OverheadTyped
  <1>4. \A n \in 1 .. 2 * OverheadRepetitions :
          summaries[n].path = DrivenPath(2 * n) /\ summaries[n].repetition = RepetitionOf(2 * n)
    BY <1>3 DEF OverheadInv, Summarized, SummaryAt
  <1>5. ASSUME NEW n \in 1 .. 2 * OverheadRepetitions
        PROVE  RepetitionOf(2 * n) \in 0 .. OverheadRepetitions - 1
    BY DEF RepetitionOf
  <1>6. ASSUME NEW k \in 0 .. OverheadRepetitions - 1
        PROVE  \E n \in 1 .. 2 * OverheadRepetitions :
                 DrivenPath(2 * n) = path /\ RepetitionOf(2 * n) = k
    <2>1. /\ RepetitionOf(4 * k + 2) = k /\ RepetitionOf(4 * k + 4) = k
          /\ InFirstHalf(4 * k + 2) /\ ~ InFirstHalf(4 * k + 4)
      BY DEF RepetitionOf, InFirstHalf
    <2>2. DrivenPath(4 * k + 2) # DrivenPath(4 * k + 4)
      BY <2>1 DEF DrivenPath
    <2>3. DrivenPath(4 * k + 2) = path \/ DrivenPath(4 * k + 4) = path
      BY <2>2 DEF DrivenPath
    <2>4. /\ 2 * (2 * k + 1) = 4 * k + 2 /\ 2 * (2 * k + 2) = 4 * k + 4
          /\ 2 * k + 1 \in 1 .. 2 * OverheadRepetitions /\ 2 * k + 2 \in 1 .. 2 * OverheadRepetitions
      OBVIOUS
    <2>5. CASE DrivenPath(4 * k + 2) = path
      BY <2>1, <2>4, <2>5
    <2>6. CASE DrivenPath(4 * k + 4) = path
      BY <2>1, <2>4, <2>6
    <2>7. QED
      BY <2>3, <2>5, <2>6
  <1>7. SummariesOf(path) = {n \in 1 .. 2 * OverheadRepetitions : DrivenPath(2 * n) = path}
    BY <1>3, <1>4 DEF SummariesOf
  <1>8. \A n \in SummariesOf(path) : summaries[n].repetition \in 0 .. OverheadRepetitions - 1
    BY <1>4, <1>5, <1>7
  <1>9. \A k \in 0 .. OverheadRepetitions - 1 : \E n \in SummariesOf(path) : summaries[n].repetition = k
    BY <1>4, <1>6, <1>7
  <1>10. QED
    BY <1>8, <1>9

(* A report counts every request it made of the gateway and measured every *)
(* drive in full, with any number of connections, repetitions and requests *)
(* and however the workers interleave; a run that fails had a request that *)
(* failed.                                                                 *)
THEOREM ReportsAreCounted == OverheadSpec => []ReportIsCounted
  <1>1. OverheadInv => ReportIsCounted
    <2> SUFFICES ASSUME OverheadInv PROVE ReportIsCounted
      OBVIOUS
    <2>1. ASSUME stage = "reported"
          PROVE  /\ audits = asked /\ spans = asked
                 /\ asked = OverheadRepetitions * (Warmup + Requests)
      BY <2>1 DEF OverheadInv, AllDriven, PairRequests
    <2>2. ASSUME stage = "reported"
          PROVE  /\ \A n \in DOMAIN summaries :
                      /\ summaries[n].requests = Requests
                      /\ 2 * summaries[n].median \in Requests - 1 .. Requests + 1
                 /\ Len(summaries) = 2 * OverheadRepetitions
      <3>1. turn = 4 * OverheadRepetitions + 1
        BY <2>2 DEF OverheadInv, AllDriven
      <3>2. (turn - 1) \div 2 = 2 * OverheadRepetitions
        BY <3>1, OverheadAssumption
      <3>3. QED
        <4>1. \A n \in DOMAIN summaries : summaries[n] = SummaryAt(n)
          BY <2>2 DEF OverheadInv, Summarized
        <4>2. Len(summaries) = 2 * OverheadRepetitions
          BY <2>2, <3>2 DEF OverheadInv, Summarized
        <4>3. 2 * MedianRank(Requests) \in Requests - 1 .. Requests + 1
          BY MedianNear, OverheadAssumption
        <4>4. QED
          BY <4>1, <4>2, <4>3 DEF SummaryAt
    <2>3. stage = "failed" => broken
      BY DEF OverheadInv
    <2>4. QED
      BY <2>1, <2>2, <2>3, AllRepetitionsSummarized DEF ReportIsCounted
  <1>2. QED
    BY <1>1, OverheadBegins, OverheadStep, PTL DEF OverheadSpec

-----------------------------------------------------------------------------
(* Probe: any bound, any latencies.                                        *)
ProbeTyped ==
  /\ invocation \in Invocations
  /\ probing \in {"running", "refused", "raised", "reported"}
  /\ answers \in [Durations -> Nat]
  /\ failures \in Nat

(* Each input is one answer or one failure.                                *)
InputsCounted ==
  /\ probing = "running" => (InBounds => Successful + failures <= Attempted)
  /\ probing = "reported" =>
       /\ InBounds
       /\ Successful + failures = Attempted
       /\ verdict = IF PassesEverything THEN "pass" ELSE "hold"
       /\ exitCode = IF PassesEverything \/ ~ invocation.failOnHold THEN "0" ELSE "2"

ProbeInv == ProbeTyped /\ InputsCounted

LEMMA InvocationTyped ==
  ASSUME invocation \in Invocations
  PROVE  /\ invocation.requests \in Int /\ invocation.given \in Nat
         /\ invocation.failOnHold \in BOOLEAN
         /\ Attempted \in Int
         /\ InBounds => Attempted \in 1 .. MaxRequests
  <1>1. invocation \in [requests : Int, given : Nat, blank : BOOLEAN, failOnHold : BOOLEAN]
    BY ProbeAssumption
  <1>2. QED
    BY <1>1, ProbeAssumption DEF Attempted, InBounds

LEMMA SuccessfulIsSum ==
  ASSUME ProbeTyped
  PROVE  /\ Successful = SumFunctionOnSet(answers, Durations)
         /\ Successful \in Nat
  <1>1. DOMAIN answers = Durations /\ \A d \in Durations : answers[d] \in Nat
    BY DEF ProbeTyped
  <1>2. QED
    BY <1>1, SumNat, ProbeAssumption DEF Successful, SumFunction

LEMMA ProbeBegins == ProbeInit => ProbeInv
  <1> SUFFICES ASSUME ProbeInit PROVE ProbeInv
    OBVIOUS
  <1>1. ProbeTyped
    BY DEF ProbeInit, ProbeTyped
  <1>2. Successful = 0
    <2>1. /\ \A d \in Durations : answers[d] \in Nat /\ answers[d] <= 0
          /\ Cardinality(Durations) \in Nat
      BY ProbeAssumption, FS_CardinalityType DEF ProbeInit
    <2>2. SumFunctionOnSet(answers, Durations) <= Cardinality(Durations) * 0
      BY <2>1, SumBounded, ProbeAssumption
    <2>3. QED
      BY <1>1, <2>1, <2>2, SuccessfulIsSum
  <1>3. InBounds => 0 <= Attempted
    BY <1>1, InvocationTyped, ProbeAssumption DEF ProbeTyped
  <1>4. QED
    BY <1>1, <1>2, <1>3 DEF ProbeInit, ProbeInv, InputsCounted

LEMMA ProbeStep == ProbeInv /\ [ProbeNext]_probeVars => ProbeInv'
  <1> SUFFICES ASSUME ProbeInv, [ProbeNext]_probeVars PROVE ProbeInv'
    OBVIOUS
  <1>1. ProbeTyped /\ Successful \in Nat /\ failures \in Nat
    BY SuccessfulIsSum DEF ProbeInv, ProbeTyped
  <1>2. Attempted \in Int
    BY <1>1, InvocationTyped DEF ProbeTyped
  <1>3. ASSUME NEW d \in Durations, Succeed(d) PROVE ProbeInv'
    <2>1. /\ answers' = [answers EXCEPT ![d] = answers[d] + 1]
          /\ answers \in [Durations -> Nat]
      BY <1>1, <1>3 DEF Succeed, ProbeTyped
    <2>2. ProbeTyped'
      BY <1>1, <1>3, <2>1 DEF Succeed, ProbeTyped
    <2>3. Successful' = Successful + 1
      <3>1. SumFunctionOnSet(answers', Durations)
              = SumFunctionOnSet(answers, Durations) - answers[d] + answers'[d]
        <4>1. /\ \A y \in Durations : answers[y] \in Int /\ answers'[y] \in Int
              /\ \A y \in Durations \ {d} : answers'[y] = answers[y]
          BY <2>1
        <4>2. IsFiniteSet(Durations)
          BY ProbeAssumption
        <4>3. QED
          BY <4>1, <4>2, SumUpdate
      <3>2. DOMAIN answers' = Durations /\ DOMAIN answers = Durations
        BY <2>1
      <3>3. Successful' = SumFunctionOnSet(answers', Durations)
        BY <3>2 DEF Successful, SumFunction
      <3>4. answers'[d] = answers[d] + 1 /\ answers[d] \in Nat
        BY <2>1
      <3>5. QED
        BY <1>1, <3>1, <3>3, <3>4, SuccessfulIsSum
    <2>4. /\ probing = "running" /\ InBounds /\ Successful + failures < Attempted
          /\ UNCHANGED <<invocation, probing, failures>>
      BY <1>3 DEF Succeed, MoreInputs
    <2>5. QED
      BY <1>1, <1>2, <2>2, <2>3, <2>4 DEF ProbeInv, InputsCounted, Attempted, InBounds
  <1>4. CASE Fail
    <2>1. ProbeTyped'
      BY <1>1, <1>4 DEF Fail, ProbeTyped
    <2>2. QED
      BY <1>1, <1>2, <1>4, <2>1 DEF Fail, MoreInputs, ProbeInv, InputsCounted, Attempted, InBounds,
                                    Successful
  <1>5. CASE Report
    <2>1. ProbeTyped'
      BY <1>1, <1>5 DEF Report, ProbeTyped
    <2>2. InBounds /\ Successful + failures = Attempted
      BY <1>1, <1>2, <1>5 DEF Report, MoreInputs, ProbeInv, InputsCounted
    <2>3. QED
      BY <1>5, <2>1, <2>2 DEF Report, ProbeInv, InputsCounted, Attempted, InBounds, Successful,
                              PassesEverything
  <1>6. CASE Refuse \/ Abort
    BY <1>6 DEF Refuse, Abort, ProbeInv, ProbeTyped, InputsCounted
  <1>7. CASE UNCHANGED probeVars
    BY <1>7 DEF probeVars, ProbeInv, ProbeTyped, InputsCounted, Attempted, InBounds, Successful,
                PassesEverything
  <1>8. QED
    BY <1>3, <1>4, <1>5, <1>6, <1>7 DEF ProbeNext

(* The rank is at least one, at most the number of answers, and the first  *)
(* whose share of them is not below the percentage.                        *)
LEMMA RankIsNearest ==
  ASSUME NEW n \in Nat \ {0}, NEW p \in 1 .. 100, Successful = n
  PROVE  /\ SampleRank(p) \in 1 .. n
         /\ 100 * SampleRank(p) >= p * n
         /\ \A k \in Nat : k < SampleRank(p) => 100 * k < p * n
  <1> DEFINE share == n * p
             rank == (share + 99) \div 100
  <1>1. share \in Nat /\ share >= 1 /\ share <= 100 * n /\ p * n = share
    OBVIOUS
  <1> HIDE DEF share
  <1>2. rank \in Nat /\ rank >= 1 /\ 100 * rank >= share /\ 100 * rank <= share + 99
    BY <1>1
  <1>3. \E x \in {1, rank} : \A y \in {1, rank} : x >= y
    BY <1>2
  <1>4. Max({1, rank}) \in {1, rank} /\ Max({1, rank}) >= rank
    BY <1>3 DEF Max
  <1>5. SampleRank(p) = Max({1, rank})
    BY DEF SampleRank, share
  <1> HIDE DEF rank
  <1>6. SampleRank(p) = rank
    BY <1>2, <1>4, <1>5
  <1>7. rank <= n
    BY <1>1, <1>2
  <1>8. \A k \in Nat : k < rank => 100 * k < share
    BY <1>1, <1>2
  <1>9. QED
    BY <1>1, <1>2, <1>6, <1>7, <1>8

(* The answers up to any latency are those up to the longest one measured  *)
(* that is not above it.                                                   *)
LEMMA UpToLongest ==
  ASSUME ProbeTyped, NEW t \in Int
  PROVE  /\ SamplesUpTo(t) \in Nat
         /\ SamplesUpTo(t) = 0 \/ \E m \in Durations : m <= t /\ SamplesUpTo(m) = SamplesUpTo(t)
  <1> DEFINE within == {d \in Durations : d <= t}
  <1>1. /\ within \in SUBSET Durations /\ within \in SUBSET Int /\ IsFiniteSet(within)
        /\ \A d \in within : answers[d] \in Nat
    <2>1. IsFiniteSet(Durations) /\ Durations \subseteq Nat /\ within \in SUBSET Durations
      BY ProbeAssumption
    <2>2. \A d \in within : answers[d] \in Nat
      BY DEF ProbeTyped
    <2> HIDE DEF within
    <2>3. IsFiniteSet(within)
      BY <2>1, FS_Subset
    <2>4. QED
      BY <2>1, <2>2, <2>3
  <1>2. SamplesUpTo(t) = SumFunctionOnSet(answers, within)
    BY DEF SamplesUpTo
  <1>3. SamplesUpTo(t) \in Nat
    BY <1>1, <1>2, SumNat
  <1>4. CASE within = {}
    <2>1. SamplesUpTo(t) = 0
      BY <1>2, <1>4, SumEmpty
    <2>2. QED
      BY <1>3, <2>1
  <1>5. CASE within # {}
    <2>1. PICK m \in within : \A y \in within : m >= y
      BY <1>1, <1>5, FiniteMax
    <2>2. \A d \in Durations : d <= m <=> d <= t
      BY <2>1, ProbeAssumption
    <2>3. SamplesUpTo(m) = SamplesUpTo(t)
      <3>1. {d \in Durations : d <= m} = within
        BY <2>2
      <3>2. QED
        BY <1>2, <3>1 DEF SamplesUpTo
    <2>4. QED
      BY <1>3, <2>1, <2>3
  <1>6. QED
    BY <1>4, <1>5

LEMMA PercentileIsNearest ==
  ASSUME ProbeTyped, Successful > 0, NEW p \in 1 .. 100
  PROVE  LET value == SamplePercentile(p) IN
         /\ answers[value] > 0
         /\ 100 * SamplesUpTo(value) >= p * Successful
         /\ 100 * SamplesUpTo(value - 1) < p * Successful
  <1> DEFINE value == SamplePercentile(p)
             reached == {d \in Durations : SamplesUpTo(d) >= SampleRank(p)}
  <1>1. Successful \in Nat \ {0} /\ Successful = SumFunctionOnSet(answers, Durations)
    BY SuccessfulIsSum
  <1>2. /\ SampleRank(p) \in 1 .. Successful
        /\ 100 * SampleRank(p) >= p * Successful
        /\ \A k \in Nat : k < SampleRank(p) => 100 * k < p * Successful
    BY <1>1, RankIsNearest
  <1>3. IsFiniteSet(Durations) /\ Durations \in SUBSET Int /\ Durations \subseteq Nat
    BY ProbeAssumption
  <1>4. \A d \in Durations : answers[d] \in Nat
    BY DEF ProbeTyped
  <1>5. reached # {}
    <2>1. Durations # {}
      BY <1>1, SumEmpty
    <2>2. PICK m \in Durations : \A y \in Durations : m >= y
      BY <1>3, <2>1, FiniteMax
    <2>3. {d \in Durations : d <= m} = Durations
      BY <1>3, <2>2
    <2>4. SamplesUpTo(m) = Successful
      BY <1>1, <2>3 DEF SamplesUpTo
    <2>5. QED
      BY <1>1, <1>2, <2>4
  <1>6. reached \in SUBSET Int /\ IsFiniteSet(reached)
    BY <1>3, FS_Subset
  <1>7. \E x \in reached : \A y \in reached : x <= y
    BY <1>5, <1>6, FiniteMin
  <1>8. value \in reached /\ \A y \in reached : value <= y
    BY <1>7 DEF SamplePercentile, Min
  <1> HIDE DEF value
  <1>9. value \in Nat /\ SamplesUpTo(value) >= SampleRank(p)
    BY <1>3, <1>8
  <1>10. SamplesUpTo(value) \in Nat /\ SamplesUpTo(value - 1) \in Nat
    BY <1>9, UpToLongest
  <1>11. SamplesUpTo(value - 1) < SampleRank(p)
    <2>1. CASE SamplesUpTo(value - 1) = 0
      BY <1>2, <2>1
    <2>2. ASSUME NEW m \in Durations, m <= value - 1, SamplesUpTo(m) = SamplesUpTo(value - 1)
          PROVE  SamplesUpTo(value - 1) < SampleRank(p)
      <3>1. m \in Nat /\ ~ (value <= m)
        BY <1>3, <1>9, <2>2
      <3>2. m \notin reached
        BY <1>8, <3>1
      <3>3. QED
        BY <1>2, <1>10, <2>2, <3>2
    <2>3. QED
      BY <1>9, <2>1, <2>2, UpToLongest
  <1>12. answers[value] > 0
    <2>1. value \in Durations
      BY <1>8
    <2> DEFINE below == {d \in Durations : d <= value - 1}
    <2>2. {d \in Durations : d <= value} = below \cup {value}
      <3>1. \A d \in Durations : d <= value <=> d <= value - 1 \/ d = value
        BY <1>3, <1>9
      <3>2. QED
        BY <2>1, <3>1
    <2>3. IsFiniteSet(below) /\ value \notin below /\ \A d \in below : answers[d] \in Nat
      BY <1>3, <1>4, <1>9, FS_Subset
    <2>4. SumFunctionOnSet(answers, below \cup {value}) = SumFunctionOnSet(answers, below) + answers[value]
      BY <1>4, <2>1, <2>3, SumAdd
    <2>5. SamplesUpTo(value) = SamplesUpTo(value - 1) + answers[value]
      BY <2>2, <2>4 DEF SamplesUpTo
    <2>6. QED
      BY <1>2, <1>4, <1>9, <1>10, <1>11, <2>1, <2>5
  <1>13. 100 * SamplesUpTo(value) >= p * Successful
    BY <1>1, <1>2, <1>9, <1>10
  <1>14. 100 * SamplesUpTo(value - 1) < p * Successful
    BY <1>2, <1>10, <1>11
  <1>15. QED
    BY <1>12, <1>13, <1>14 DEF value

(* The percentiles a probe reports are nearest ranks, every input is       *)
(* counted, and no failure passes: for any bound on the requests and any   *)
(* latencies.                                                              *)
THEOREM ReportsAreSound == ProbeSpec => []ProbeReportSound
  <1>1. ProbeInv => ProbeReportSound
    <2> SUFFICES ASSUME ProbeInv, probing = "reported"
                 PROVE  /\ Successful + failures = Attempted /\ Attempted \in 1 .. MaxRequests
                        /\ verdict = "pass" <=> failures = 0
                        /\ invocation.failOnHold => (exitCode = "0" <=> failures = 0)
      BY PercentileIsNearest DEF ProbeReportSound, ProbeInv
    <2>1. InBounds /\ Successful + failures = Attempted /\ Attempted \in 1 .. MaxRequests
      BY InvocationTyped DEF ProbeInv, ProbeTyped, InputsCounted
    <2>2. Successful \in Nat /\ failures \in Nat
      BY SuccessfulIsSum DEF ProbeInv, ProbeTyped
    <2>3. PassesEverything <=> failures = 0
      BY <2>1, <2>2, ProbeAssumption DEF PassesEverything
    <2>4. QED
      BY <2>1, <2>3 DEF ProbeInv, InputsCounted
  <1>2. QED
    BY <1>1, ProbeBegins, ProbeStep, PTL DEF ProbeSpec

-----------------------------------------------------------------------------
(* Readiness: types, and that what the drill calls ready is.               *)
ReplayTyped ==
  /\ review \in Reviews
  /\ taken \in [Keys -> Nat]
  /\ spent \in [Keys -> Nat]
  /\ outcomes \in Seq(Outcomes)
  /\ latencies \in Seq(Nat)

WithinLimits ==
  \A k \in Keys : taken[k] <= review.limits[k[2]].requests /\ spent[k] <= review.limits[k[2]].tokens

(* A key that was limited once is at its limit for the rest of the window. *)
LimitMeansLimit ==
  \A n \in 1 .. Len(outcomes) :
    outcomes[n] = "rate_limited" =>
      \E k \in Keys : taken[k] = review.limits[k[2]].requests

ReplayInv == ReplayTyped /\ WithinLimits /\ LimitMeansLimit

LEMMA LimitsTyped ==
  ASSUME ReplayTyped, NEW k \in Keys
  PROVE  review.limits[k[2]].requests \in Nat /\ review.limits[k[2]].tokens \in Nat
  <1>1. review.limits \in [Models -> Limits] /\ k[2] \in Models
    BY ReadinessAssumption DEF ReplayTyped, Keys
  <1>2. review.limits[k[2]] \in Limits
    BY <1>1
  <1>3. QED
    BY <1>2 DEF Limits

LEMMA GreaterOf == ASSUME NEW x \in Int PROVE Max({1, x}) \in Nat
  <1>1. CASE x >= 1
    BY <1>1 DEF Max
  <1>2. CASE x < 1
    BY <1>2 DEF Max
  <1>3. QED
    BY <1>1, <1>2

LEMMA TokensTyped == ASSUME NEW request \in Replayable PROVE Tokens(request) \in Nat
  <1>1. request.characters \in Nat
    BY ReadinessAssumption
  <1>2. (request.characters + 3) \div 4 \in Int
    BY <1>1
  <1>3. QED
    BY <1>2, GreaterOf DEF Tokens

LEMMA AllowedKey ==
  ASSUME NEW request \in Replayable, PolicyAllows(request)
  PROVE  /\ Key(request) \in Keys /\ Key(request)[2] = request.model
         /\ request.model \in Models
  BY ReadinessAssumption DEF PolicyAllows, Key, Keys

LEMMA LatencyTyped ==
  ASSUME NEW request \in Replayable, request.model \in Models, NEW spot \in Nat
  PROVE  Latency(request, spot) \in Nat
  <1> DEFINE work == 18 * Tokens(request)
  <1>1. work \in Nat
    BY TokensTyped
  <1>2. BaseLatency[request.model] \in Nat
    BY ReadinessAssumption
  <1> HIDE DEF work
  <1>3. Min({work, 34000}) \in Nat
    <2>1. \E x \in {work, 34000} : \A y \in {work, 34000} : x <= y
      BY <1>1
    <2>2. QED
      BY <1>1, <2>1 DEF Min
  <1>4. spot % 5 \in Nat
    OBVIOUS
  <1>5. QED
    BY <1>2, <1>3, <1>4 DEF Latency, work

LEMMA ReplayBegins == ReadinessInit => ReplayInv
  <1> SUFFICES ASSUME ReadinessInit PROVE ReplayInv
    OBVIOUS
  <1>1. ReplayTyped
    BY DEF ReadinessInit, ReplayTyped
  <1>2. WithinLimits
    BY <1>1, LimitsTyped DEF ReadinessInit, WithinLimits
  <1>3. QED
    BY <1>1, <1>2 DEF ReadinessInit, ReplayInv, LimitMeansLimit

LEMMA Recorded ==
  ASSUME ReplayTyped, NEW outcome \in Outcomes, Record(outcome)
  PROVE  /\ outcomes' \in Seq(Outcomes) /\ Len(outcomes') = Len(outcomes) + 1
         /\ \A n \in 1 .. Len(outcomes) : outcomes'[n] = outcomes[n]
         /\ outcomes'[Len(outcomes) + 1] = outcome
  BY DEF ReplayTyped, Record

LEMMA ReplayStep == ReplayInv /\ [ReadinessNext]_readinessVars => ReplayInv'
  <1> SUFFICES ASSUME ReplayInv, [ReadinessNext]_readinessVars PROVE ReplayInv'
    OBVIOUS
  <1>1. ReplayTyped /\ WithinLimits /\ LimitMeansLimit
    BY DEF ReplayInv
  <1>2. CASE UNCHANGED readinessVars
    BY <1>1, <1>2 DEF readinessVars, ReplayInv, ReplayTyped, WithinLimits, LimitMeansLimit
  <1>3. ASSUME NEW request \in Replayable, Deny(request) PROVE ReplayInv'
    <2>1. UNCHANGED <<review, taken, spent, latencies>> /\ Record("policy_denied")
      BY <1>3 DEF Deny
    <2>2. /\ outcomes' \in Seq(Outcomes) /\ Len(outcomes') = Len(outcomes) + 1
          /\ \A n \in 1 .. Len(outcomes) : outcomes'[n] = outcomes[n]
          /\ outcomes'[Len(outcomes) + 1] = "policy_denied"
      BY <1>1, <2>1, Recorded DEF Outcomes
    <2>3. LimitMeansLimit'
      <3> SUFFICES ASSUME NEW n \in 1 .. Len(outcomes'), outcomes'[n] = "rate_limited"
                   PROVE  \E k \in Keys : taken[k] = review.limits[k[2]].requests
        BY <2>1 DEF LimitMeansLimit
      <3>1. Len(outcomes) \in Nat
        BY <1>1 DEF ReplayTyped
      <3>2. n \in 1 .. Len(outcomes)
        BY <2>2, <3>1
      <3>3. QED
        BY <1>1, <2>2, <3>2 DEF LimitMeansLimit
    <2>4. QED
      BY <1>1, <2>1, <2>2, <2>3 DEF ReplayInv, ReplayTyped, WithinLimits
  <1>4. ASSUME NEW request \in Replayable, LimitRequests(request) PROVE ReplayInv'
    <2>1. /\ UNCHANGED <<review, taken, spent, latencies>> /\ Record("rate_limited")
          /\ PolicyAllows(request) /\ ~ RequestFits(request)
      BY <1>4 DEF LimitRequests
    <2>2. /\ outcomes' \in Seq(Outcomes) /\ Len(outcomes') = Len(outcomes) + 1
          /\ \A n \in 1 .. Len(outcomes) : outcomes'[n] = outcomes[n]
      BY <1>1, <2>1, Recorded DEF Outcomes
    <2>3. Key(request) \in Keys /\ Key(request)[2] = request.model
      BY <2>1, AllowedKey
    <2>4. taken[Key(request)] = review.limits[Key(request)[2]].requests
      <3>1. /\ taken[Key(request)] \in Nat /\ review.limits[Key(request)[2]].requests \in Nat
            /\ taken[Key(request)] <= review.limits[Key(request)[2]].requests
        BY <1>1, <2>3, LimitsTyped DEF ReplayTyped, WithinLimits
      <3>2. ~ (taken[Key(request)] < review.limits[Key(request)[2]].requests)
        BY <2>1, <2>3 DEF RequestFits
      <3>3. QED
        BY <3>1, <3>2
    <2>5. LimitMeansLimit'
      BY <2>1, <2>3, <2>4 DEF LimitMeansLimit
    <2>6. QED
      BY <1>1, <2>1, <2>2, <2>5 DEF ReplayInv, ReplayTyped, WithinLimits
  <1>5. ASSUME NEW request \in Replayable, LimitTokens(request) \/ Allow(request)
        PROVE  ReplayInv'
    <2> DEFINE key == Key(request)
    <2>1. PolicyAllows(request) /\ RequestFits(request) /\ review' = review
            /\ taken' = [taken EXCEPT ![key] = @ + 1]
      BY <1>5 DEF LimitTokens, Allow, TakeRequest
    <2>2. key \in Keys /\ key[2] = request.model /\ request.model \in Models
      BY <2>1, AllowedKey
    <2>3. Tokens(request) \in Nat
      BY TokensTyped
    <2>4. PICK outcome \in Outcomes \ {"rate_limited"} : Record(outcome)
      BY <1>5 DEF LimitTokens, Allow, Outcomes
    <2>5. /\ outcomes' \in Seq(Outcomes) /\ Len(outcomes') = Len(outcomes) + 1
          /\ \A n \in 1 .. Len(outcomes) : outcomes'[n] = outcomes[n]
          /\ outcomes'[Len(outcomes) + 1] # "rate_limited"
      BY <1>1, <2>4, Recorded
    <2>6. \/ spent' = spent
          \/ TokensFit(request) /\ spent' = [spent EXCEPT ![key] = @ + Tokens(request)]
      BY <1>5 DEF LimitTokens, Allow
    <2>7. latencies' \in Seq(Nat)
      <3>1. CASE LimitTokens(request)
        BY <1>1, <3>1 DEF LimitTokens, ReplayTyped
      <3>2. CASE Allow(request)
        <4>1. Len(outcomes) + 1 \in Nat
          BY <1>1 DEF ReplayTyped
        <4>2. Latency(request, Len(outcomes) + 1) \in Nat
          BY <2>2, <4>1, LatencyTyped
        <4>3. latencies' = Append(latencies, Latency(request, Len(outcomes) + 1))
          BY <3>2 DEF Allow
        <4>4. QED
          BY <1>1, <4>2, <4>3 DEF ReplayTyped
      <3>3. QED
        BY <1>5, <3>1, <3>2
    <2> HIDE DEF key
    <2>8. taken \in [Keys -> Nat] /\ spent \in [Keys -> Nat]
      BY <1>1 DEF ReplayTyped
    <2>9. taken' \in [Keys -> Nat]
      <3>1. taken' = [taken EXCEPT ![key] = taken[key] + 1] /\ taken[key] + 1 \in Nat
        BY <2>1, <2>2, <2>8
      <3>2. QED
        BY <2>8, <3>1
    <2>10. spent' \in [Keys -> Nat]
      BY <2>3, <2>6, <2>8
    <2>11. ReplayTyped'
      BY <1>1, <2>1, <2>5, <2>7, <2>9, <2>10 DEF ReplayTyped
    <2>12. taken[key] < review.limits[key[2]].requests
      BY <2>1, <2>2 DEF RequestFits, key
    <2>13. WithinLimits'
      <3> SUFFICES ASSUME NEW k \in Keys
                   PROVE  /\ taken'[k] <= review.limits[k[2]].requests
                          /\ spent'[k] <= review.limits[k[2]].tokens
        BY <2>1 DEF WithinLimits
      <3>1. /\ review.limits[k[2]].requests \in Nat /\ review.limits[k[2]].tokens \in Nat
            /\ taken[k] \in Nat /\ spent[k] \in Nat
            /\ taken[k] <= review.limits[k[2]].requests /\ spent[k] <= review.limits[k[2]].tokens
        BY <1>1, <2>8, LimitsTyped DEF WithinLimits
      <3>2. taken'[k] = IF k = key THEN taken[k] + 1 ELSE taken[k]
        BY <2>1, <2>8
      <3>3. taken'[k] <= review.limits[k[2]].requests
        BY <2>12, <3>1, <3>2
      <3>4. CASE spent' = spent
        BY <3>1, <3>3, <3>4
      <3>5. CASE TokensFit(request) /\ spent' = [spent EXCEPT ![key] = @ + Tokens(request)]
        <4>1. spent[key] + Tokens(request) <= review.limits[key[2]].tokens
          BY <2>2, <3>5 DEF TokensFit, key
        <4>2. spent'[k] = IF k = key THEN spent[k] + Tokens(request) ELSE spent[k]
          BY <2>8, <3>5
        <4>3. QED
          BY <3>1, <3>3, <4>1, <4>2
      <3>6. QED
        BY <2>6, <3>4, <3>5
    <2>14. LimitMeansLimit'
      <3> SUFFICES ASSUME NEW n \in 1 .. Len(outcomes'), outcomes'[n] = "rate_limited"
                   PROVE  \E k \in Keys : taken'[k] = review.limits[k[2]].requests
        BY <2>1 DEF LimitMeansLimit
      <3>1. n \in 1 .. Len(outcomes) /\ outcomes[n] = "rate_limited"
        BY <1>1, <2>5 DEF ReplayTyped
      <3>2. PICK k \in Keys : taken[k] = review.limits[k[2]].requests
        BY <1>1, <3>1 DEF LimitMeansLimit
      <3>3. k # key
        BY <2>8, <2>12, <3>2
      <3>4. taken'[k] = taken[k]
        BY <2>1, <2>8, <3>3
      <3>5. QED
        BY <3>2, <3>4
    <2>15. QED
      BY <2>11, <2>13, <2>14 DEF ReplayInv
  <1>6. QED
    BY <1>2, <1>3, <1>4, <1>5 DEF ReadinessNext

(* Every variable of the replay keeps its type.                            *)
THEOREM ReadinessTypeCorrect == ReadinessSpec => []ReadinessTypeOK
  <1>1. ReplayInv => ReadinessTypeOK
    BY DEF ReplayInv, ReplayTyped, ReadinessTypeOK
  <1>2. QED
    BY <1>1, ReplayBegins, ReplayStep, PTL DEF ReadinessSpec

LEMMA RankEnough ==
  ASSUME NEW n \in Nat \ {0}
  PROVE  Rank(95, n) \in 1 .. n /\ 100 * Rank(95, n) >= 95 * n
  <1> DEFINE r == (95 * n + 99) \div 100
  <1>1. r \in Int /\ 95 * n < 100 * r + 1 /\ 100 * r <= 95 * n + 99
    OBVIOUS
  <1>2. Rank(95, n) = Max({1, r})
    BY DEF Rank
  <1> HIDE DEF r
  <1>3. r >= 1 /\ r <= n
    BY <1>1
  <1>4. \E x \in {1, r} : \A y \in {1, r} : x >= y
    BY <1>1
  <1>5. Max({1, r}) = r
    BY <1>1, <1>3, <1>4 DEF Max
  <1>6. QED
    BY <1>1, <1>2, <1>3, <1>5

LEMMA CountTo ==
  ASSUME NEW n \in Nat \ {0} PROVE IsFiniteSet(1 .. n) /\ Cardinality(1 .. n) = n
  BY FS_Interval

(* If a percentile keeps to a latency, so do as many percent of what was   *)
(* allowed; there is one, since all keep to the longest latency.           *)
LEMMA PercentileKept ==
  ASSUME latencies \in Seq(Nat), latencies # <<>>, NEW t \in Nat, Percentile(latencies, 95) <= t
  PROVE  100 * Cardinality(AllowedWithin(t)) >= 95 * Len(latencies)
  <1> DEFINE N == Len(latencies)
             Upto(x) == {n \in DOMAIN latencies : latencies[n] <= x}
             S == ToSet(latencies)
             Good == {x \in S : Cardinality(Upto(x)) >= Rank(95, N)}
  <1>1. N \in Nat \ {0} /\ DOMAIN latencies = 1 .. N /\ \A n \in 1 .. N : latencies[n] \in Nat
    OBVIOUS
  <1>2. S = {latencies[n] : n \in 1 .. N}
    BY <1>1 DEF ToSet
  <1>3. Percentile(latencies, 95) = Min(Good)
    BY DEF Percentile
  <1>4. IsFiniteSet(1 .. N) /\ Cardinality(1 .. N) = N
    BY <1>1, CountTo
  <1>5. IsFiniteSet(S) /\ S \in SUBSET Int /\ S # {}
    <2>1. latencies \in Surjection(1 .. N, S)
      BY <1>1, <1>2 DEF Surjection
    <2>2. QED
      BY <1>1, <1>2, <1>4, <2>1, FS_Surjection
  <1>6. \A x : Upto(x) \in SUBSET (1 .. N)
    BY <1>1
  <1> HIDE DEF N, S, Upto
  <1>7. ASSUME NEW x PROVE IsFiniteSet(Upto(x)) /\ Cardinality(Upto(x)) \in Nat
    BY <1>4, <1>6, FS_Subset, FS_CardinalityType
  <1>8. Rank(95, N) \in 1 .. N /\ 100 * Rank(95, N) >= 95 * N
    BY <1>1, RankEnough
  <1>9. Good # {}
    <2>1. PICK m \in S : \A y \in S : m >= y
      BY <1>5, FiniteMax
    <2>2. Upto(m) = 1 .. N
      BY <1>1, <1>2, <2>1 DEF Upto
    <2>3. QED
      BY <1>1, <1>4, <1>8, <2>2
  <1>10. Good \in SUBSET Int /\ IsFiniteSet(Good)
    BY <1>5, FS_Subset
  <1>11. \E x \in Good : \A y \in Good : x <= y
    BY <1>9, <1>10, FiniteMin
  <1>12. Min(Good) \in Good
    BY <1>11 DEF Min
  <1> DEFINE v == Min(Good)
  <1> HIDE DEF v
  <1>13. v \in S /\ Cardinality(Upto(v)) >= Rank(95, N) /\ v <= t
    BY <1>3, <1>12 DEF v
  <1>14. v \in Nat
    BY <1>1, <1>2, <1>13
  <1>15. Upto(v) \in SUBSET AllowedWithin(t)
    BY <1>1, <1>13, <1>14 DEF Upto, AllowedWithin
  <1>16. AllowedWithin(t) = Upto(t)
    BY DEF Upto, AllowedWithin
  <1>17. Cardinality(Upto(v)) <= Cardinality(AllowedWithin(t))
    BY <1>7, <1>15, <1>16, FS_Subset
  <1>18. Cardinality(AllowedWithin(t)) \in Nat /\ Cardinality(Upto(v)) \in Nat
    BY <1>7, <1>16
  <1>19. 100 * Cardinality(AllowedWithin(t)) >= 95 * N
    BY <1>1, <1>8, <1>13, <1>17, <1>18
  <1>20. QED
    BY <1>19 DEF N

(* The last phase has all of the traffic, and no more is reserved than     *)
(* there is.                                                               *)
LEMMA LastPhaseIsFull ==
  ASSUME ReplayTyped, DeploymentReady, NEW m \in Models
  PROVE  LimitsWithin(m, 100, review.maxUtilization)
  <1> DEFINE phases == review.phases
             last == phases[Len(phases)]
  <1>1. phases \in Seq([traffic : Int, reserved : Int]) /\ phases # <<>>
    BY ReadinessAssumption DEF ReplayTyped, DeploymentReady, DeploymentGates, RolloutShaped
  <1>2. Len(phases) \in DOMAIN phases
    BY <1>1
  <1>3. last \in ToSet(phases)
    BY <1>2 DEF ToSet
  <1>4. last.traffic = 100
    BY DEF DeploymentReady, DeploymentGates, RolloutShaped, Last
  <1>5. PhaseValid(last)
    BY <1>3 DEF DeploymentReady
  <1> HIDE DEF last
  <1>6. last.reserved = 100
    <2>1. last.reserved \in 0 .. 100 /\ last.reserved >= last.traffic
      BY <1>5 DEF PhaseValid, Percent
    <2>2. QED
      BY <1>4, <2>1
  <1>7. LimitsWithin(m, last.reserved, review.maxUtilization)
    BY <1>3 DEF DeploymentReady, DeploymentGates
  <1>8. QED
    BY <1>6, <1>7

(* What the last report of the chain calls ready has limits that fit a     *)
(* full rollout, a replay within its limits that met every guardrail, 95   *)
(* percent of it in time, and a probe of every scenario: for any models,   *)
(* workload and review.                                                    *)
THEOREM ReadinessIsEarned == ReadinessSpec => []ReadyIsEarned
  <1>1. ReplayInv => ReadyIsEarned
    <2> SUFFICES ASSUME ReplayInv, DrillReady PROVE ReadyIsEarned
      BY DEF ReadyIsEarned
    <2>1. ReplayTyped /\ WithinLimits /\ LimitMeansLimit
      BY DEF ReplayInv
    <2>2. DeploymentReady /\ WorkloadReady
      BY DEF DrillReady, DrillGates, DrillSourcesReady, SourcesReady
    <2>3. \A m \in Models : LimitsWithin(m, 100, review.maxUtilization)
      BY <2>1, <2>2, LastPhaseIsFull
    <2>4. \E n \in 1 .. Len(outcomes) : \E k \in Keys :
            outcomes[n] = "rate_limited" /\ taken[k] = review.limits[k[2]].requests
      <3>1. "rate_limited" \in ToSet(outcomes) /\ DOMAIN outcomes = 1 .. Len(outcomes)
        BY <2>1, <2>2 DEF WorkloadReady, Outcomes, ReplayTyped
      <3>2. PICK n \in 1 .. Len(outcomes) : outcomes[n] = "rate_limited"
        BY <3>1 DEF ToSet
      <3>3. QED
        BY <2>1, <3>2 DEF LimitMeansLimit
    <2>5. 100 * Cardinality(AllowedWithin(review.maxLatency)) >= 95 * Len(latencies)
      BY <2>1, <2>2, PercentileKept, ReadinessAssumption DEF ReplayTyped, WorkloadReady
    <2>6. \A scenario \in RequiredScenarios : \E probe \in review.probes :
            probe.scenario = scenario /\ ProbePasses(probe)
      BY DEF DrillReady, DrillGates, ScenariosCovered
    <2>7. QED
      BY <2>1, <2>3, <2>4, <2>5, <2>6 DEF ReadyIsEarned, WithinLimits
  <1>2. QED
    BY <1>1, ReplayBegins, ReplayStep, PTL DEF ReadinessSpec

-----------------------------------------------------------------------------
(* Benchmark: what a headline rests on.                                    *)
LEMMA Divided ==
  ASSUME NEW a \in Nat, NEW b \in Nat \ {0}
  PROVE  a \div b \in Nat /\ a % b \in 0 .. b - 1 /\ a = b * (a \div b) + (a % b)
  OBVIOUS

LEMMA DividedOnce ==
  ASSUME NEW b \in Nat \ {0}, NEW q \in Nat, NEW r \in 0 .. b - 1
  PROVE  (b * q + r) \div b = q /\ (b * q + r) % b = r
  OBVIOUS

(* The schedule's places are numbers of three digits: repetition, workload *)
(* and level.                                                              *)
LEMMA Digits ==
  ASSUME NEW W \in Nat \ {0}, NEW L \in Nat \ {0}, NEW n \in Nat, NEW w \in 0 .. W - 1,
         NEW l \in 0 .. L - 1
  PROVE  LET k == L * (W * n + w) + l IN
         k \in Nat /\ k \div (W * L) = n /\ (k \div L) % W = w /\ k % L = l
  <1> DEFINE q == W * n + w
             k == L * q + l
             low == L * w + l
             b == W * L
  <1>1. q \in Nat /\ w \in Nat /\ l \in Nat /\ L * w \in Nat
    OBVIOUS
  <1>2. q \div W = n /\ q % W = w
    BY DividedOnce
  <1>3. k \in Nat /\ k \div L = q /\ k % L = l
    <2> HIDE DEF q
    <2>1. L * q \in Nat
      BY <1>1
    <2>2. QED
      BY <1>1, <2>1, DividedOnce
  <1>4. b \in Nat \ {0} /\ low \in 0 .. b - 1
    <2>1. L * w <= L * (W - 1)
      OBVIOUS
    <2>2. L * (W - 1) = b - L /\ b \in Nat
      OBVIOUS
    <2>3. b >= L
      BY <1>1, <2>1, <2>2
    <2> HIDE DEF b
    <2>4. QED
      BY <1>1, <2>1, <2>2, <2>3
  <1>5. k = b * n + low
    <2>1. L * (W * n + w) = L * (W * n) + L * w
      OBVIOUS
    <2>2. L * (W * n) = (W * L) * n
      OBVIOUS
    <2>3. QED
      BY <2>1, <2>2
  <1> HIDE DEF k, q, b, low
  <1>6. k \div b = n
    BY <1>4, <1>5, DividedOnce
  <1>7. QED
    BY <1>2, <1>3, <1>6 DEF k, q, b

LEMMA OfDigits ==
  ASSUME NEW W \in Nat \ {0}, NEW L \in Nat \ {0}, NEW k \in Nat
  PROVE  /\ k \div (W * L) \in Nat /\ (k \div L) % W \in 0 .. W - 1 /\ k % L \in 0 .. L - 1
         /\ k = L * (W * (k \div (W * L)) + ((k \div L) % W)) + (k % L)
  <1> DEFINE q == k \div L
             l == k % L
             n == q \div W
             w == q % W
  <1>1. q \in Nat /\ l \in 0 .. L - 1 /\ k = L * q + l
    BY Divided
  <1>2. n \in Nat /\ w \in 0 .. W - 1 /\ q = W * n + w
    BY <1>1, Divided
  <1> HIDE DEF n, w, q, l
  <1>3. k = L * (W * n + w) + l
    BY <1>1, <1>2
  <1>4. k \div (W * L) = n
    BY <1>1, <1>2, <1>3, Digits
  <1>5. QED
    BY <1>1, <1>2, <1>3, <1>4 DEF n, w, q, l

Sizes == Repetitions \in Nat \ {0} /\ Workloads \in Nat \ {0} /\ Levels \in Nat \ {0}

LEMMA SizesHold == Sizes
  BY BenchmarkAssumption DEF Sizes, Levels

(* An ordinal is one of the two of its pair.                               *)
LEMMA PairPlace ==
  ASSUME NEW o \in Ordinals
  PROVE  /\ (o - 1) \div 2 \in Nat
         /\ o = 2 * ((o - 1) \div 2) + (IF GoesFirst(o) THEN 1 ELSE 2)
         /\ PairOf(o) = PairAt((o - 1) \div 2)
  <1>1. o \in Nat \ {0}
    BY DEF Ordinals
  <1>2. QED
    BY <1>1 DEF PairOf, GoesFirst

LEMMA PairFields ==
  ASSUME NEW o \in Ordinals
  PROVE  LET pair == PairOf(o) IN
         /\ pair.repetition \in 0 .. Repetitions - 1
         /\ pair.workload \in 0 .. Workloads - 1
         /\ pair.level \in 0 .. Levels - 1
         /\ (o - 1) \div 2 = Levels * (Workloads * pair.repetition + pair.workload) + pair.level
  <1> DEFINE k == (o - 1) \div 2
             n == k \div (Workloads * Levels)
             cell == Workloads * Levels
  <1>1. Repetitions \in Nat \ {0} /\ Workloads \in Nat \ {0} /\ Levels \in Nat \ {0}
    BY SizesHold DEF Sizes
  <1>2. k \in Nat /\ PairOf(o) = PairAt(k)
    BY PairPlace
  <1>3. /\ PairOf(o).repetition = n /\ PairOf(o).workload = (k \div Levels) % Workloads
        /\ PairOf(o).level = k % Levels
    BY <1>2 DEF PairAt
  <1> HIDE DEF k
  <1>4. /\ n \in Nat /\ (k \div Levels) % Workloads \in 0 .. Workloads - 1
        /\ k % Levels \in 0 .. Levels - 1
        /\ k = Levels * (Workloads * n + ((k \div Levels) % Workloads)) + (k % Levels)
    BY <1>1, <1>2, OfDigits
  <1>5. n < Repetitions
    <2>1. cell \in Nat \ {0}
      BY <1>1
    <2>2. k < Repetitions * cell
      <3>1. Ordinals = 1 .. 2 * (Repetitions * cell)
        <4>1. 2 * Repetitions * Workloads * Levels = 2 * (Repetitions * cell)
          BY <1>1
        <4>2. QED
          BY <4>1 DEF Ordinals
      <3>2. Repetitions * cell \in Nat
        BY <1>1, <2>1
      <3> HIDE DEF cell
      <3>3. QED
        BY <3>1, <3>2 DEF k
    <2>3. n = k \div cell
      OBVIOUS
    <2> HIDE DEF cell, n
    <2>4. k >= cell * n
      BY <1>2, <2>1, <2>3, Divided
    <2>5. CASE n >= Repetitions
      <3>1. cell * n >= cell * Repetitions
        BY <1>1, <1>4, <2>1, <2>5
      <3>2. QED
        BY <1>1, <1>2, <1>4, <2>1, <2>2, <2>4, <3>1
    <2>6. QED
      BY <1>1, <1>4, <2>5
  <1> HIDE DEF n
  <1>6. n \in 0 .. Repetitions - 1
    BY <1>1, <1>4, <1>5
  <1>7. QED
    BY <1>3, <1>4, <1>6 DEF k

(* A path meets a pair once.                                               *)
LEMMA OneOrdinal ==
  ASSUME NEW o \in Ordinals, NEW p \in Ordinals, PathOf(o) = PathOf(p),
         PairOf(o).repetition = PairOf(p).repetition,
         PairOf(o).workload = PairOf(p).workload, PairOf(o).level = PairOf(p).level
  PROVE  o = p
  <1>1. (o - 1) \div 2 = (p - 1) \div 2
    BY PairFields
  <1>2. Reversed(PairOf(o)) <=> Reversed(PairOf(p))
    BY DEF Reversed
  <1>3. GoesFirst(o) <=> GoesFirst(p)
    <2>1. PathOf(o) = "gateway" <=> (Reversed(PairOf(o)) <=> GoesFirst(o))
      BY DEF PathOf
    <2>2. PathOf(p) = "gateway" <=> (Reversed(PairOf(p)) <=> GoesFirst(p))
      BY DEF PathOf
    <2>3. QED
      BY <1>2, <2>1, <2>2
  <1>4. QED
    BY <1>1, <1>3, PairPlace

LEMMA RowTyped ==
  ASSUME RunInv
  PROVE  /\ Len(rows) \in Nat /\ DOMAIN rows = 1 .. Len(rows)
         /\ \A n \in DOMAIN rows : rows[n].ordinal \in Ordinals /\ rows[n].failures \in Nat
  <1> DEFINE Row == [ordinal : Ordinals, completed : BOOLEAN, successes : Nat, failures : Nat]
  <1>1. rows \in Seq(Row)
    BY DEF RunInv, TypeOK
  <1>2. \A row \in Row : row.ordinal \in Ordinals /\ row.failures \in Nat
    OBVIOUS
  <1> HIDE DEF Row
  <1>3. \A n \in DOMAIN rows : rows[n] \in Row
    BY <1>1
  <1>4. QED
    BY <1>1, <1>2, <1>3

(* The rows of a path's headline are of different repetitions, and each    *)
(* left samples.                                                           *)
LEMMA CompletedSampled ==
  ASSUME RunInv, NEW path \in Paths, NEW k \in Completed(path)
  PROVE  /\ k \in 1 .. Len(rows) /\ k \in Ordinals /\ rows[k].ordinal = k
         /\ rows[k].completed /\ OfHeadline(path, k) /\ RowIsWhole(k)
         /\ PairOf(k).repetition \in Sampled(path)
  <1>2. /\ k \in 1 .. Len(rows) /\ rows[k].completed /\ OfHeadline(path, rows[k].ordinal)
        /\ rows[k].ordinal \in Ordinals
    BY RowTyped DEF Completed
  <1>3. RowIsWhole(k) /\ rows[k].ordinal = k
    BY <1>2 DEF RunInv, RowIsWhole
  <1>4. PICK s \in raw : s.ordinal = k
    BY <1>2, <1>3 DEF RowIsWhole
  <1>5. PairOf(k).repetition \in 0 .. Repetitions - 1
    BY <1>2, <1>3, PairFields
  <1>6. s \in SamplesOf(path, PairOf(k).repetition)
    BY <1>2, <1>3, <1>4 DEF SamplesOf
  <1>7. QED
    BY <1>2, <1>3, <1>5, <1>6 DEF Sampled

LEMMA CompletedFinite ==
  ASSUME RunInv, NEW path \in Paths
  PROVE  IsFiniteSet(Completed(path)) /\ Cardinality(Completed(path)) \in Nat
  <1>1. Len(rows) \in Nat /\ Completed(path) \in SUBSET (1 .. Len(rows))
    BY DEF RunInv, TypeOK, Completed
  <1>2. IsFiniteSet(1 .. Len(rows))
    BY <1>1, FS_Interval
  <1>3. QED
    BY <1>1, <1>2, FS_Subset, FS_CardinalityType

(* With as many pairs as completed conditions, each repetition that left   *)
(* samples has its row.                                                    *)
LEMMA SampledCompleted ==
  ASSUME RunInv, WorkloadEquivalent, PairedRepetitionsComplete, NEW path \in Paths
  PROVE  /\ Sampled("direct") = Sampled("gateway")
         /\ \A n \in Sampled(path) : \E k \in Completed(path) : PairOf(k).repetition = n
  <1> DEFINE f == [k \in Completed(path) |-> PairOf(k).repetition]
             all == {Cardinality(Completed(p)) : p \in Paths}
  <1>1. Sampled("direct") = Sampled("gateway")
    <2>1. \A n \in 0 .. Repetitions - 1 :
            SamplesOf("direct", n) = {} <=> SamplesOf("gateway", n) = {}
      BY DEF WorkloadEquivalent
    <2>2. QED
      BY <2>1 DEF Sampled
  <1>2. Sampled(path) = Sampled("direct") /\ Sampled("direct") \cap Sampled("gateway") = Sampled(path)
    BY <1>1 DEF Paths
  <1>3. IsFiniteSet(Sampled(path)) /\ Cardinality(Sampled(path)) \in Nat
    <2>1. Sampled(path) \in SUBSET (0 .. Repetitions - 1)
      BY DEF Sampled
    <2>2. IsFiniteSet(0 .. Repetitions - 1)
      BY SizesHold, FS_Interval DEF Sizes
    <2>3. QED
      BY <2>1, <2>2, FS_Subset, FS_CardinalityType
  <1>4. f \in Injection(Completed(path), Sampled(path))
    <2>1. f \in [Completed(path) -> Sampled(path)]
      BY CompletedSampled
    <2>2. ASSUME NEW a \in Completed(path), NEW b \in Completed(path), f[a] = f[b] PROVE a = b
      <3>1. /\ a \in Ordinals /\ OfHeadline(path, a) /\ b \in Ordinals /\ OfHeadline(path, b)
        BY CompletedSampled
      <3>2. PairOf(a).repetition = PairOf(b).repetition
        BY <2>2
      <3>3. QED
        BY <3>1, <3>2, OneOrdinal DEF OfHeadline
    <2> HIDE DEF f
    <2>3. QED
      BY <2>1, <2>2 DEF Injection, IsInjective
  <1>5. Cardinality(Sampled(path)) <= Cardinality(Completed(path))
    <2>1. /\ Cardinality(Completed("direct")) \in Nat
          /\ Cardinality(Completed("gateway")) \in Nat
          /\ all = {Cardinality(Completed("direct")), Cardinality(Completed("gateway"))}
      BY CompletedFinite DEF Paths
    <2>2. Cardinality(Sampled(path)) = Min(all)
      BY <1>2 DEF PairedRepetitionsComplete
    <2>3. Cardinality(Completed(path)) \in all
      OBVIOUS
    <2> HIDE DEF all
    <2>4. \E x \in all : \A y \in all : x <= y
      BY <2>1
    <2>5. Min(all) <= Cardinality(Completed(path))
      BY <2>3, <2>4 DEF Min
    <2>6. QED
      BY <2>2, <2>5
  <1> HIDE DEF f
  <1>6. f \in Surjection(Completed(path), Sampled(path))
    <2>1. Cardinality(Completed(path)) <= Cardinality(Sampled(path))
      BY <1>3, <1>4, FS_Injection
    <2>2. Cardinality(Completed(path)) = Cardinality(Sampled(path))
      BY <1>3, <1>5, <2>1, CompletedFinite
    <2>3. QED
      BY <1>3, <1>4, <2>2, FS_Injection
  <1>7. QED
    BY <1>1, <1>6 DEF f, Surjection

LEMMA NoneFailed ==
  ASSUME RunInv, NEW path \in Paths, Failures(path) = 0, NEW k \in Completed(path)
  PROVE  rows[k].failures = 0
  <1> DEFINE f == [n \in DOMAIN rows |-> rows[n].failures]
             C == Completed(path)
  <1>1. C \subseteq DOMAIN rows /\ \A n \in DOMAIN rows : rows[n].failures \in Nat
    BY RowTyped DEF Completed
  <1>2. \A n \in C : f[n] \in Nat /\ f[n] = rows[n].failures
    BY <1>1
  <1>3. SumFunctionOnSet(f, C) = 0
    BY DEF Failures
  <1>4. IsFiniteSet(C)
    BY CompletedFinite
  <1> HIDE DEF f, C
  <1>5. k \in C
    BY DEF C
  <1>6. IsFiniteSet(C \ {k}) /\ \A n \in C \ {k} : f[n] \in Nat
    BY <1>2, <1>4, FS_Subset
  <1>7. SumFunctionOnSet(f, C \ {k}) \in Nat
    BY <1>6, SumNat
  <1>8. SumFunctionOnSet(f, C) = f[k] + SumFunctionOnSet(f, C \ {k})
    BY <1>2, <1>4, <1>5, SumRemove
  <1>9. QED
    BY <1>2, <1>3, <1>5, <1>7, <1>8

LEMMA PairsAreWhole ==
  ASSUME RunInv, Supported, NEW path \in Paths, NEW n \in Sampled("direct") \cup Sampled("gateway")
  PROVE  /\ \E k \in Completed(path) :
              PairOf(rows[k].ordinal).repetition = n /\ rows[k].failures = 0
         /\ \A s \in SamplesOf(path, n) : s.shape # "torn" /\ s.failures = 0
  <1>1. WorkloadEquivalent /\ PairedRepetitionsComplete /\ Failures(path) = 0
    BY DEF Supported
  <1>2. n \in Sampled(path)
    BY <1>1, SampledCompleted DEF Paths
  <1>3. PICK k \in Completed(path) : PairOf(k).repetition = n
    BY <1>1, <1>2, SampledCompleted
  <1>4. /\ k \in Ordinals /\ rows[k].ordinal = k /\ rows[k].completed /\ OfHeadline(path, k)
        /\ RowIsWhole(k)
    BY CompletedSampled
  <1>5. rows[k].failures = 0
    BY <1>1, NoneFailed
  <1>6. ASSUME NEW s \in SamplesOf(path, n) PROVE s.shape # "torn" /\ s.failures = 0
    <2>1. s \in raw /\ OfHeadline(path, s.ordinal) /\ PairOf(s.ordinal).repetition = n
      BY DEF SamplesOf
    <2>2. s.ordinal \in Ordinals
      BY <2>1 DEF RunInv, TypeOK
    <2>3. s.ordinal = k
      BY <1>3, <1>4, <2>1, <2>2, OneOrdinal DEF OfHeadline
    <2>4. PICK t \in raw : t.ordinal = k /\ t.shape # "torn" /\ t.failures = rows[k].failures
      BY <1>4 DEF RowIsWhole
    <2>5. s = t
      BY <1>4, <2>1, <2>3, <2>4 DEF RowIsWhole
    <2>6. QED
      BY <1>5, <2>4, <2>5
  <1>7. QED
    BY <1>3, <1>4, <1>5, <1>6

(* Of the two conditions of a pair, the first ordinal's path goes first.   *)
LEMMA FirstPath ==
  ASSUME NEW n \in 0 .. Repetitions - 1
  PROVE  WentFirst(n) = IF (n + Headline.workload + Headline.level) % 2 = 1
                        THEN "gateway" ELSE "direct"
  <1> DEFINE w == Headline.workload
             l == Headline.level
             k == Levels * (Workloads * n + w) + l
             o == 2 * k + 1
             T == {p \in Ordinals : /\ PairOf(p).repetition = n
                                    /\ PairOf(p).workload = w
                                    /\ PairOf(p).level = l}
  <1>1. Repetitions \in Nat \ {0} /\ Workloads \in Nat \ {0} /\ Levels \in Nat \ {0}
    BY SizesHold DEF Sizes
  <1>2. w \in 0 .. Workloads - 1 /\ l \in 0 .. Levels - 1
    BY BenchmarkAssumption DEF Levels
  <1> HIDE DEF w, l
  <1>3. /\ k \in Nat /\ k \div (Workloads * Levels) = n /\ (k \div Levels) % Workloads = w
        /\ k % Levels = l
    BY <1>1, <1>2, Digits
  <1>4. k < Repetitions * Workloads * Levels
    <2> DEFINE q == Workloads * n + w
    <2>1. Workloads * n <= Workloads * (Repetitions - 1)
      BY <1>1
    <2>2. Workloads * (Repetitions - 1) = Workloads * Repetitions - Workloads
      BY <1>1
    <2>3. Workloads * n \in Nat /\ Workloads * Repetitions \in Nat
      BY <1>1
    <2>4. q \in Nat /\ q <= Workloads * Repetitions - 1
      BY <1>1, <1>2, <2>1, <2>2, <2>3
    <2> HIDE DEF q
    <2>5. Levels * q <= Levels * (Workloads * Repetitions - 1)
      BY <1>1, <2>3, <2>4
    <2>6. Levels * (Workloads * Repetitions - 1) = Levels * (Workloads * Repetitions) - Levels
      BY <1>1, <2>3
    <2>7. Levels * (Workloads * Repetitions) = Repetitions * Workloads * Levels
      BY <1>1
    <2>8. Levels * q \in Nat /\ Repetitions * Workloads * Levels \in Nat
      BY <1>1, <2>4
    <2>9. k = Levels * q + l
      BY DEF q
    <2> HIDE DEF k
    <2>10. QED
      BY <1>1, <1>2, <2>5, <2>6, <2>7, <2>8, <2>9
  <1>5. PairAt(k) = [repetition |-> n, workload |-> w, level |-> l]
    BY <1>3 DEF PairAt
  <1> HIDE DEF k
  <1>6. o \in Ordinals
    <2>1. 2 * Repetitions * Workloads * Levels = 2 * (Repetitions * Workloads * Levels)
          /\ Repetitions * Workloads * Levels \in Nat
      BY <1>1
    <2>2. QED
      BY <1>3, <1>4, <2>1 DEF Ordinals
  <1>7. PairOf(o) = PairAt(k) /\ GoesFirst(o)
    <2>1. (o - 1) \div 2 = k /\ o % 2 = 1
      BY <1>3
    <2>2. QED
      BY <2>1 DEF PairOf, GoesFirst
  <1>8. o \in T
    BY <1>5, <1>6, <1>7
  <1>9. ASSUME NEW p \in T PROVE o <= p
    <2>1. (p - 1) \div 2 = k
      BY PairFields DEF k
    <2>2. QED
      BY <1>3, <2>1, PairPlace
  <1>10. T \subseteq Int
    BY DEF Ordinals
  <1>15. o \in Int
    BY <1>3
  <1> HIDE DEF T, o
  <1>11. Min(T) = o
    <2> DEFINE low == Min(T)
    <2>1. \E p \in T : \A x \in T : p <= x
      BY <1>8, <1>9
    <2>2. low \in T /\ \A p \in T : low <= p
      BY <2>1 DEF Min
    <2> HIDE DEF low
    <2>3. low \in Int /\ low <= o /\ o <= low
      BY <1>8, <1>9, <1>10, <2>2
    <2>4. low = o
      BY <1>15, <2>3
    <2>5. QED
      BY <2>4 DEF low
  <1>12. WentFirst(n) = PathOf(o)
    BY <1>11 DEF WentFirst, T, w, l
  <1>13. Reversed(PairOf(o)) <=> (n + w + l) % 2 = 1
    BY <1>5, <1>7 DEF Reversed
  <1>14. PathOf(o) = IF (n + w + l) % 2 = 1 THEN "gateway" ELSE "direct"
    BY <1>7, <1>13 DEF PathOf
  <1>16. QED
    BY <1>12, <1>14 DEF w, l

(* From each repetition but the last one follows one of the other order.   *)
LEMMA NextIsOther ==
  ASSUME NEW a \in Int, NEW b \in Int, NEW S \in SUBSET (a .. b), NEW T \in SUBSET (a .. b),
         \A n \in a .. b - 1 : n \in S => n + 1 \in T
  PROVE  /\ Cardinality(S) \in Nat /\ Cardinality(T) \in Nat
         /\ Cardinality(S) <= Cardinality(T) + 1
  <1> DEFINE U == S \ {b}
             f == [n \in U |-> n + 1]
  <1>1. IsFiniteSet(a .. b)
    BY FS_Interval
  <1>2. IsFiniteSet(S) /\ IsFiniteSet(T) /\ IsFiniteSet(U)
    BY <1>1, FS_Subset
  <1>3. Cardinality(S) \in Nat /\ Cardinality(T) \in Nat /\ Cardinality(U) \in Nat
    BY <1>2, FS_CardinalityType
  <1>4. f \in Injection(U, T)
    <2>1. \A n \in U : n \in Int /\ n + 1 \in T
      OBVIOUS
    <2>2. QED
      BY <2>1 DEF Injection, IsInjective
  <1> HIDE DEF f
  <1>5. Cardinality(U) <= Cardinality(T)
    BY <1>2, <1>4, FS_Injection
  <1>6. Cardinality(S) <= Cardinality(U) + 1
    BY <1>2, <1>3, FS_RemoveElement
  <1>7. QED
    BY <1>3, <1>5, <1>6

LEMMA OrderAlternates ==
  ASSUME NEW first \in 0 .. Repetitions - 1, NEW last \in 0 .. Repetitions - 1
  PROVE  Cardinality({n \in first .. last : WentFirst(n) = "direct"})
           - Cardinality({n \in first .. last : WentFirst(n) = "gateway"}) \in -1 .. 1
  <1> DEFINE D == {n \in first .. last : WentFirst(n) = "direct"}
             G == {n \in first .. last : WentFirst(n) = "gateway"}
  <1>1. first \in Int /\ last \in Int /\ \A n \in first .. last : n \in 0 .. Repetitions - 1
    BY SizesHold DEF Sizes
  <1>2. ASSUME NEW n \in first .. last - 1
        PROVE  WentFirst(n) = "direct" <=> WentFirst(n + 1) = "gateway"
    <2> DEFINE w == Headline.workload
               l == Headline.level
    <2>1. n \in 0 .. Repetitions - 1 /\ n + 1 \in 0 .. Repetitions - 1
      BY <1>1
    <2>2. w \in Nat /\ l \in Nat
      BY BenchmarkAssumption
    <2>3. /\ WentFirst(n) = IF (n + w + l) % 2 = 1 THEN "gateway" ELSE "direct"
          /\ WentFirst(n + 1) = IF (n + 1 + w + l) % 2 = 1 THEN "gateway" ELSE "direct"
      BY <2>1, FirstPath
    <2> HIDE DEF w, l
    <2>5. (n + w + l) % 2 = 1 <=> (n + 1 + w + l) % 2 # 1
      BY <2>1, <2>2
    <2>4. QED
      BY <2>3, <2>5
  <1>3. \A n \in first .. last : WentFirst(n) \in {"direct", "gateway"}
    BY <1>1, FirstPath
  <1>4. D \in SUBSET (first .. last) /\ G \in SUBSET (first .. last)
    OBVIOUS
  <1>5. \A n \in first .. last - 1 : (n \in D => n + 1 \in G) /\ (n \in G => n + 1 \in D)
    BY <1>1, <1>2, <1>3
  <1> HIDE DEF D, G
  <1>6. /\ Cardinality(D) \in Nat /\ Cardinality(G) \in Nat
        /\ Cardinality(D) <= Cardinality(G) + 1 /\ Cardinality(G) <= Cardinality(D) + 1
    BY <1>1, <1>4, <1>5, NextIsOther
  <1>7. Cardinality(D) - Cardinality(G) \in -1 .. 1
    BY <1>6
  <1>8. QED
    BY <1>7 DEF D, G

(* A headline rests on whole pairs only, and neither path went first more  *)
(* often by two: for any schedule, and wherever the run failed or was      *)
(* interrupted (analyze.py:298-433).                                       *)
THEOREM HeadlinesAreEarned == Spec => []HeadlineIsEarned
  <1>1. RunInv => HeadlineIsEarned
    BY PairsAreWhole, OrderAlternates DEF HeadlineIsEarned
  <1>2. QED
    BY <1>1, RunInvariant, PTL

=============================================================================
