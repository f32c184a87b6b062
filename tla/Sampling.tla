------------------------------ MODULE Sampling ------------------------------
(***************************************************************************)
(* The benchmark's runner together with the thread that samples resources  *)
(* while a child runs (bench/environment.py, ResourceSampler).  stop()     *)
(* returns the list the thread appends to, and waits for the thread only   *)
(* so long: max(2.0, 2 * interval) seconds, where one sample may wait ten  *)
(* for nvidia-smi.  The runner labels the samples and writes them while a  *)
(* last one may still be added.                                            *)
(*                                                                         *)
(* Each condition has its own sampler, and a list nobody else reads, so    *)
(* the state below is that of the current condition; its lines in          *)
(* resource_samples.jsonl are only those of this condition.  What one      *)
(* sample holds is left out.                                               *)
(***************************************************************************)
EXTENDS Benchmark

CONSTANT MaxSamples   \* bound: samples taken during one condition

ASSUME SamplingAssumption == MaxSamples \in Nat \ {0}

VARIABLES
  thread,    \* "sampling", "waiting" for the interval, or "gone"
  stopped,   \* the event that asks it to end
  place,     \* what the runner has done with the samples since the child ended
  samples,   \* how many are in the list; those labelled come first
  labelled,  \* how many have their condition_id
  lines,     \* of this condition in resource_samples.jsonl, with and without one
  returned   \* history: how many were in the list when stop() returned

sampler == <<thread, stopped, place, samples, labelled, lines, returned>>
samplingVars == <<vars, sampler>>

NoLines == [labelled |-> 0, stray |-> 0]

(* A sampler that has taken nothing, whose thread is started or not.       *)
Fresh(where) ==
  /\ thread' = where
  /\ stopped' = FALSE
  /\ place' = "sampling"
  /\ samples' = 0
  /\ labelled' = 0
  /\ returned' = 0

SamplingInit ==
  /\ Init
  /\ thread = "gone"
  /\ stopped = FALSE
  /\ place = "sampling"
  /\ samples = 0
  /\ labelled = 0
  /\ lines = NoLines
  /\ returned = 0

Alive == pc \notin {"done", "stopped"}

Moved(from, to) == place = from /\ place' = to

-----------------------------------------------------------------------------
(* self.samples.append(self._sample())                                     *)
TakeSample ==
  /\ Alive
  /\ thread = "sampling"
  /\ thread' = "waiting"
  /\ samples' = samples + 1
  /\ UNCHANGED <<vars, stopped, place, labelled, lines, returned>>

(* Mutant: the loop does not ask whether to end.                           *)
AfterWaitAnyway == "sampling"

AfterWait == IF stopped THEN "gone" ELSE "sampling"

(* The interval is over, or the event is set; the loop asks which.         *)
Wake ==
  /\ Alive
  /\ thread = "waiting"
  /\ samples < MaxSamples \/ stopped
  /\ thread' = AfterWait
  /\ UNCHANGED <<vars, stopped, place, samples, labelled, lines, returned>>

StopSampler ==
  /\ pc = "log"
  /\ Moved("sampling", "joining")
  /\ stopped' = TRUE
  /\ UNCHANGED <<vars, thread, samples, labelled, lines, returned>>

(* The thread has ended, or is held up in a sample for too long.           *)
Join ==
  /\ Alive
  /\ Moved("joining", "joined")
  /\ thread \in {"gone", "sampling"}
  /\ returned' = samples
  /\ UNCHANGED <<vars, thread, stopped, samples, labelled, lines>>

(* The loop over the list meets what is appended while it runs.            *)
Label ==
  /\ pc \in {"failed", "raw"}
  /\ Moved("joined", "labelled")
  /\ labelled' = samples
  /\ UNCHANGED <<vars, thread, stopped, samples, lines, returned>>

WriteSamples ==
  /\ pc \in {"failed", "raw"}
  /\ Moved("labelled", "written")
  /\ lines' = [labelled |-> labelled, stray |-> samples - labelled]
  /\ UNCHANGED <<vars, thread, stopped, samples, labelled, returned>>

(* Before the log is written stop() has returned, and before anything else *)
(* is written of the condition the samples are.                            *)
SampledCondition ==
  \/ ChildEnds /\ UNCHANGED sampler
  \/ place = "joined" /\ WriteLog /\ UNCHANGED sampler
  \/ place = "written" /\ (WriteRaw \/ Sanitize) /\ UNCHANGED sampler
  \/ place = "written" /\ (WriteFailedRow \/ WriteRow) /\ Fresh("gone") /\ lines' = NoLines

SampledLaunch ==
  \/ Launch /\ pc' = "running" /\ Fresh("sampling") /\ UNCHANGED lines
  \/ Launch /\ pc' = "stopped" /\ UNCHANGED sampler

(* The thread ends with the process.  Of the samples that were being       *)
(* written a part may be in the file.                                      *)
SampledInterrupt ==
  /\ Interrupt
  /\ Fresh("gone")
  /\ \/ UNCHANGED lines
     \/ place = "labelled" /\ \E n \in 0 .. labelled : lines' = [NoLines EXCEPT !.labelled = n]

SamplingNext ==
  \/ TakeSample \/ Wake \/ StopSampler \/ Join \/ Label \/ WriteSamples
  \/ SampledLaunch \/ SampledCondition \/ SampledInterrupt
  \/ (Probe \/ Finish) /\ UNCHANGED sampler

SamplingSpec == SamplingInit /\ [][SamplingNext]_samplingVars

-----------------------------------------------------------------------------
(* Although the list goes on growing after it was returned, every sample   *)
(* it held by then is in the file under its condition before the row that  *)
(* sums it up, a line without a condition is the one that came too late,   *)
(* and all that the row's sample_count may have more than the file is this *)
(* one (environment.py:258-267, run.py:338-368).                           *)
SamplesAccounted ==
  [][rows' # rows =>
       /\ returned <= lines.labelled
       /\ lines.labelled + lines.stray <= samples
       /\ samples <= returned + 1]_samplingVars
=============================================================================
