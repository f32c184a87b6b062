------------------------------ MODULE Benchmark ------------------------------
(***************************************************************************)
(* The paired benchmark: its runner (bench/run.py), the files it leaves in *)
(* the run's directory, and the headline that bench/analyze.py derives     *)
(* from whatever the directory holds, also when the run was interrupted.   *)
(*                                                                         *)
(* A condition is one launch of the load generator, the child.  Of its     *)
(* result the model keeps the token shape of its requests and how many of  *)
(* them failed; latencies and the limiter's histograms are left out, and   *)
(* the sampler of resources, which no headline depends on, is in Sampling. *)
(***************************************************************************)
EXTENDS Integers, Sequences, FiniteSetsExt, Functions

CONSTANTS
  Repetitions,
  Workloads,                  \* how many there are
  Concurrency,                \* a sequence of levels
  MinRequests, RequestsPerConcurrency,
  Shapes,                     \* of the prompts' and outputs' tokens
  FailedRequests,             \* how many requests of a condition may fail
  ContinueOnError,
  Headline,                   \* the cell declared before the run
  MinSuccesses                \* that the headline asks of each path

ASSUME BenchmarkAssumption ==
  /\ Repetitions \in Nat \ {0} /\ Workloads \in Nat \ {0}
  /\ Concurrency \in Seq(Nat \ {0}) /\ Concurrency # <<>>
  /\ MinRequests \in Nat \ {0} /\ RequestsPerConcurrency \in Nat
  /\ FailedRequests \subseteq 0 .. MinRequests
  /\ ContinueOnError \in BOOLEAN
  /\ Headline \in [workload : 0 .. Workloads - 1, level : 0 .. Len(Concurrency) - 1]
  /\ MinSuccesses \in Nat
  /\ "torn" \notin Shapes

VARIABLES
  pc,        \* where the runner is
  at,        \* the ordinal of its condition, from 1
  child,     \* how the child of this condition ended, until that is acted on
  logs,      \* the ordinals with a log file
  upstream,  \* of each ordinal, the load generator's file: "none", "raw", "sanitized" or "torn"
  raw,       \* raw_samples.jsonl, the rows of a condition taken together
  rows       \* conditions.jsonl

files == <<logs, upstream, raw, rows>>
vars == <<pc, at, child, files>>

Paths == {"direct", "gateway"}

Levels == Len(Concurrency)

(* build_schedule: repetitions, then workloads, then levels, each a pair.  *)
PairAt(k) ==
  [repetition |-> k \div (Workloads * Levels), workload |-> (k \div Levels) % Workloads,
   level |-> k % Levels]

(* Mutant: the order does not alternate from one repetition to the next.   *)
ReversedByCell(pair) == (pair.workload + pair.level) % 2 = 1

Reversed(pair) == (pair.repetition + pair.workload + pair.level) % 2 = 1

Ordinals == 1 .. 2 * Repetitions * Workloads * Levels

PairOf(ordinal) == PairAt((ordinal - 1) \div 2)

GoesFirst(ordinal) == ordinal % 2 = 1

PathOf(ordinal) == IF Reversed(PairOf(ordinal)) <=> GoesFirst(ordinal) THEN "gateway" ELSE "direct"

RequestCount(ordinal) ==
  Max({MinRequests, Concurrency[PairOf(ordinal).level + 1] * RequestsPerConcurrency})

NoChild == [well |-> FALSE, saved |-> FALSE]

(* How a load generator ends: well, which is with code 0 before its        *)
(* timeout, or not; and with its result saved or not.  It may have saved   *)
(* its result before it failed.                                            *)
Endings == [well : BOOLEAN, saved : BOOLEAN]

Failed(ending) == ~ (ending.well /\ ending.saved)

Init ==
  /\ pc = "probe"
  /\ at = 1
  /\ child = NoChild
  /\ logs = {}
  /\ upstream = [o \in Ordinals |-> "none"]
  /\ raw = {}
  /\ rows = <<>>

-----------------------------------------------------------------------------
Goto(from, to) == pc = from /\ pc' = to

(* Both endpoints answer, or the run ends before its first condition.      *)
Probe ==
  /\ Goto("probe", "next") \/ Goto("probe", "stopped")
  /\ UNCHANGED <<at, child, files>>

(* The child is launched; a command that cannot be launched ends the run.  *)
Launch ==
  /\ at \in Ordinals
  /\ Goto("next", "running") \/ Goto("next", "stopped")
  /\ UNCHANGED <<at, child, files>>

(* The child ends, or is killed at its timeout and collected.              *)
ChildEnds ==
  /\ Goto("running", "log")
  /\ child' \in Endings
  /\ upstream' = [upstream EXCEPT ![at] = IF child'.saved THEN "raw" ELSE "none"]
  /\ UNCHANGED <<at, logs, raw, rows>>

WriteLog ==
  /\ Goto("log", IF Failed(child) THEN "failed" ELSE "raw")
  /\ logs' = logs \cup {at}
  /\ child' = NoChild
  /\ UNCHANGED <<at, upstream, raw, rows>>

(* A condition that failed has its row; the run goes on if it may.         *)
WriteFailedRow ==
  /\ Goto("failed", IF ContinueOnError THEN "next" ELSE "stopped")
  /\ rows' = Append(rows, [ordinal |-> at, completed |-> FALSE, successes |-> 0, failures |-> 0])
  /\ at' = IF ContinueOnError THEN at + 1 ELSE at
  /\ UNCHANGED <<child, logs, upstream, raw>>

(* Mutant: the upstream file is left as it is.                             *)
WriteRawOnly ==
  /\ Goto("raw", "row")
  /\ \E s \in Shapes, f \in FailedRequests :
       raw' = raw \cup {[ordinal |-> at, shape |-> s, failures |-> f]}
  /\ UNCHANGED <<at, child, logs, upstream, rows>>

(* extract_raw_samples ends the run when the result's arrays do not match  *)
(* or the file is no JSON.  The load generator's count of failed requests  *)
(* is taken to be that of the errors it lists.                             *)
WriteRaw ==
  /\ \/ /\ Goto("raw", "sanitize")
        /\ \E s \in Shapes, f \in FailedRequests :
             raw' = raw \cup {[ordinal |-> at, shape |-> s, failures |-> f]}
     \/ Goto("raw", "stopped") /\ UNCHANGED raw
  /\ UNCHANGED <<at, child, logs, upstream, rows>>

Sanitize ==
  /\ Goto("sanitize", "row")
  /\ upstream' = [upstream EXCEPT ![at] = "sanitized"]
  /\ UNCHANGED <<at, child, logs, raw, rows>>

WriteRow ==
  /\ Goto("row", "next")
  /\ \E sample \in raw :
       /\ sample.ordinal = at
       /\ rows' = Append(rows, [ordinal |-> at, completed |-> TRUE,
                                successes |-> RequestCount(at) - sample.failures,
                                failures |-> sample.failures])
  /\ at' = at + 1
  /\ UNCHANGED <<child, logs, upstream, raw>>

Finish ==
  /\ at \notin Ordinals
  /\ Goto("next", "done")
  /\ UNCHANGED <<at, child, files>>

(* The run is interrupted, its disk is full, or a killed child keeps its   *)
(* pipes open: whatever is written by then stays, and what was being       *)
(* written stays in part.  (A row that is cut in the middle is no JSON and *)
(* ends the analysis; the parts that matter are whole rows.)               *)
Interrupt ==
  /\ pc \notin {"done", "stopped"}
  /\ pc' = "stopped"
  /\ \/ UNCHANGED <<upstream, raw>>
     \/ /\ pc = "raw"
        /\ raw' = raw \cup {[ordinal |-> at, shape |-> "torn", failures |-> 0]}
        /\ UNCHANGED upstream
     \/ pc = "sanitize" /\ upstream' = [upstream EXCEPT ![at] = "torn"] /\ UNCHANGED raw
  /\ UNCHANGED <<at, child, logs, rows>>

Condition ==
  \/ ChildEnds \/ WriteLog
  \/ WriteFailedRow \/ WriteRaw \/ Sanitize \/ WriteRow

Next == Probe \/ Launch \/ Condition \/ Finish \/ Interrupt

Spec == Init /\ [][Next]_vars
-----------------------------------------------------------------------------
(* analyze_run, which may be given the directory of any run, ended or not. *)
OfHeadline(path, ordinal) ==
  /\ PathOf(ordinal) = path
  /\ PairOf(ordinal).workload = Headline.workload
  /\ PairOf(ordinal).level = Headline.level

SamplesOf(path, repetition) ==
  {s \in raw : OfHeadline(path, s.ordinal) /\ PairOf(s.ordinal).repetition = repetition}

Sampled(path) == {n \in 0 .. Repetitions - 1 : SamplesOf(path, n) # {}}

Completed(path) == {n \in DOMAIN rows : rows[n].completed /\ OfHeadline(path, rows[n].ordinal)}

Successes(path) ==
  SumFunctionOnSet([n \in DOMAIN rows |-> rows[n].successes], Completed(path))

Failures(path) == SumFunctionOnSet([n \in DOMAIN rows |-> rows[n].failures], Completed(path))

(* Nothing on both sides is equivalent, too.                               *)
WorkloadEquivalent ==
  \A n \in 0 .. Repetitions - 1 :
    {s.shape : s \in SamplesOf("direct", n)} = {s.shape : s \in SamplesOf("gateway", n)}

PairedRepetitionsComplete ==
  Cardinality(Sampled("direct") \cap Sampled("gateway"))
    = Min({Cardinality(Completed(path)) : path \in Paths})

(* Mutant: the pairs are not counted.                                      *)
SupportedUnpaired ==
  /\ WorkloadEquivalent
  /\ \A path \in Paths :
       /\ Sampled(path) # {}
       /\ Cardinality(Completed(path)) >= 2
       /\ Successes(path) >= MinSuccesses
       /\ Failures(path) = 0

(* build_headline.                                                         *)
Supported ==
  /\ WorkloadEquivalent
  /\ \A path \in Paths :
       /\ Sampled(path) # {}
       /\ Cardinality(Completed(path)) >= 2
       /\ Successes(path) >= MinSuccesses
       /\ Failures(path) = 0
  /\ PairedRepetitionsComplete

-----------------------------------------------------------------------------
Places == {"probe", "next", "running", "log", "failed", "raw", "sanitize", "row", "done", "stopped"}

TypeOK ==
  /\ pc \in Places
  /\ at \in Nat \ {0}
  /\ child \in Endings
  /\ logs \subseteq Ordinals
  /\ upstream \in [Ordinals -> {"none", "raw", "sanitized", "torn"}]
  /\ raw \subseteq [ordinal : Ordinals, shape : Shapes \cup {"torn"}, failures : Nat]
  /\ rows \in Seq([ordinal : Ordinals, completed : BOOLEAN, successes : Nat, failures : Nat])

(* The path whose condition came first in a repetition of the headline.    *)
WentFirst(n) ==
  PathOf(Min({o \in Ordinals : /\ PairOf(o).repetition = n
                               /\ PairOf(o).workload = Headline.workload
                               /\ PairOf(o).level = Headline.level}))

(* Wherever a run was interrupted and whatever failed in it, a headline    *)
(* rests on pairs only: every repetition of its condition that left        *)
(* samples has, on both paths, a completed row without a failed request    *)
(* and samples of one shape (analyze.py:298-433).  The gates count; that   *)
(* their numbers belong to the same repetitions is not checked anywhere.   *)
(* The path that went first alternates, so that neither gains by what the  *)
(* other warmed up, unless a repetition in between is missing.             *)
HeadlineIsEarned ==
  Supported =>
  /\ \A first, last \in 0 .. Repetitions - 1 :
       Sampled("direct") = first .. last =>
         Cardinality({n \in first .. last : WentFirst(n) = "direct"})
           - Cardinality({n \in first .. last : WentFirst(n) = "gateway"}) \in -1 .. 1
  /\ \A path \in Paths : \A n \in Sampled("direct") \cup Sampled("gateway") :
       /\ \E k \in Completed(path) :
            PairOf(rows[k].ordinal).repetition = n /\ rows[k].failures = 0
       /\ \A s \in SamplesOf(path, n) : s.shape # "torn" /\ s.failures = 0

RowIsWhole(n) ==
  /\ rows[n].ordinal = n
  /\ n \in logs
  /\ rows[n].completed =>
       /\ upstream[n] = "sanitized"
       /\ \E s \in raw : s.ordinal = n /\ s.shape # "torn" /\ s.failures = rows[n].failures
  /\ \A s, t \in raw : s.ordinal = n /\ t.ordinal = n => rows[n].completed /\ s = t

(* A row is the last thing written of its condition.  Rows come in order   *)
(* and without a gap; a completed one has its log, its samples, whole and  *)
(* not doubled, and its sanitized upstream file, and a failed one has a    *)
(* log and no samples.  What else a run leaves behind is of the condition  *)
(* it stopped in (run.py:338-404).                                         *)
RowsAreWhole ==
  /\ \A n \in DOMAIN rows : RowIsWhole(n)
  /\ \A s \in raw : s.ordinal <= Len(rows) \/ s.ordinal = at
  /\ \A n \in logs : n <= Len(rows) \/ n = at
=============================================================================
