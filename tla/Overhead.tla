------------------------------ MODULE Overhead ------------------------------
(***************************************************************************)
(* The benchmark of the gateway's own cost (bench/overhead.py): a client   *)
(* whose connections share one count of requests drives a null backend     *)
(* and the gateway in front of it by turns, and the run reports only if    *)
(* the audit log and the trace file have a line for each request it made   *)
(* of the gateway.                                                         *)
(*                                                                         *)
(* The workers are coroutines of one thread: between two awaits nothing    *)
(* comes.  The gateway records a completion when its stream is exhausted,  *)
(* in the generator's finally clause, and only then sends the chunk that   *)
(* tells the client the stream is over.  The levels of concurrency are run *)
(* one after the other and alike; the model has one.  Of the latencies it  *)
(* keeps their number and the rank of the median.                          *)
(***************************************************************************)
EXTENDS Integers, Sequences, FiniteSets

CONSTANTS
  Connections,  \* one worker each: the level of concurrency
  OverheadRepetitions,
  Warmup,       \* requests of a drive that is not measured
  Requests      \* and of one that is

ASSUME OverheadAssumption ==
  /\ IsFiniteSet(Connections) /\ Connections # {}
  /\ OverheadRepetitions \in Nat \ {0}
  /\ Warmup \in Nat
  /\ Requests \in Nat \ {0}

VARIABLES
  stage,      \* of run_benchmark
  turn,       \* which drive it is at, from 1
  remaining,  \* requests of this drive not yet begun
  worker,     \* where each worker, and the gateway with its request, is
  timings,    \* how many this drive has
  expected,   \* gateway_requests
  audits, spans,  \* lines in the two files
  summaries,  \* of the measured drives
  asked,      \* history: requests sent to the gateway
  broken      \* history: some request was not answered as it should

log == <<audits, spans>>
overheadVars == <<stage, turn, remaining, worker, timings, expected, log, summaries, asked, broken>>

-----------------------------------------------------------------------------
(* Each repetition drives both paths, a warm-up and a measured drive each. *)
Turns == 1 .. 4 * OverheadRepetitions

RepetitionOf(n) == (n - 1) \div 4

Measured(n) == n % 2 = 0

InFirstHalf(n) == (n - 1) % 4 < 2

DrivenPath(n) ==
  IF InFirstHalf(n) <=> RepetitionOf(n) % 2 = 0 THEN "direct" ELSE "gateway"

Total(n) == IF Measured(n) THEN Requests ELSE Warmup

(* percentile(ordered, 0.50): round(), which takes a half to the even side *)
(* and not up, as the nearest rank would be.                               *)
MedianRank(count) ==
  LET half == count \div 2
      rounded == IF count % 2 = 1 /\ half % 2 = 1 THEN half + 1 ELSE half
  IN IF rounded = 0 THEN 1 ELSE rounded

OverheadInit ==
  /\ stage = "driving"
  /\ turn = 1
  /\ remaining = Total(1)
  /\ worker = [w \in Connections |-> "opening"]
  /\ timings = 0
  /\ expected = 0
  /\ audits = 0
  /\ spans = 0
  /\ summaries = <<>>
  /\ asked = 0
  /\ broken = FALSE

Advance(w, from, to) ==
  /\ stage = "driving"
  /\ worker[w] = from
  /\ worker' = [worker EXCEPT ![w] = to]

Connect(w) ==
  /\ Advance(w, "opening", "ready")
  /\ UNCHANGED <<stage, turn, remaining, timings, expected, log, summaries, asked, broken>>

(* Mutant: one request too many is begun.                                  *)
MoreToAskFor(left) == left >= 0

MoreToAsk(left) == left > 0

(* while remaining > 0: remaining -= 1, and the request is written.        *)
Ask(w) ==
  /\ MoreToAsk(remaining)
  /\ Advance(w, "ready", "asked")
  /\ remaining' = remaining - 1
  /\ asked' = IF DrivenPath(turn) = "gateway" THEN asked + 1 ELSE asked
  /\ UNCHANGED <<stage, turn, timings, expected, log, summaries, broken>>

Disconnect(w) ==
  /\ ~ MoreToAsk(remaining)
  /\ Advance(w, "ready", "closed")
  /\ UNCHANGED <<stage, turn, remaining, timings, expected, log, summaries, asked, broken>>

WriteAudit(w) ==
  /\ DrivenPath(turn) = "gateway"
  /\ Advance(w, "asked", "audited")
  /\ audits' = audits + 1
  /\ UNCHANGED <<stage, turn, remaining, timings, expected, spans, summaries, asked, broken>>

WriteSpan(w) ==
  /\ Advance(w, "audited", "recorded")
  /\ spans' = spans + 1
  /\ UNCHANGED <<stage, turn, remaining, timings, expected, audits, summaries, asked, broken>>

(* The end of the stream is read.                                          *)
Reply(w) ==
  /\ Advance(w, IF DrivenPath(turn) = "gateway" THEN "recorded" ELSE "asked", "ready")
  /\ timings' = timings + 1
  /\ UNCHANGED <<stage, turn, remaining, expected, log, summaries, asked, broken>>

(* A connection fails, a status is not 200, or a stream is cut short, by   *)
(* the gateway's failure to record it for one: the worker raises, gather() *)
(* passes it on, and the run ends.                                         *)
Break(w) ==
  /\ stage = "driving"
  /\ worker[w] \in {"opening", "asked", "audited", "recorded"}
  /\ stage' = "failed"
  /\ broken' = TRUE
  /\ UNCHANGED <<turn, remaining, worker, timings, expected, log, summaries, asked>>

Summary ==
  [path |-> DrivenPath(turn), repetition |-> RepetitionOf(turn), requests |-> timings,
   median |-> MedianRank(timings)]

(* gather() returns when the last worker does.  A path's pair of drives is *)
(* added to what the files should have once its second is over.            *)
EndDrive ==
  /\ stage = "driving"
  /\ \A w \in Connections : worker[w] = "closed"
  /\ turn' = turn + 1
  /\ stage' = IF turn' \in Turns THEN "driving" ELSE "counting"
  /\ remaining' = IF turn' \in Turns THEN Total(turn') ELSE 0
  /\ worker' = [w \in Connections |-> "opening"]
  /\ timings' = 0
  /\ expected' = IF Measured(turn) /\ DrivenPath(turn) = "gateway"
                 THEN expected + Warmup + Requests ELSE expected
  /\ summaries' = IF Measured(turn)
                  THEN Append(summaries, Summary)
                  ELSE summaries
  /\ UNCHANGED <<log, asked, broken>>

(* wait_for_lines waits for lines that are all there by now.               *)
AllCounted == audits = expected /\ spans = expected

CountLines ==
  /\ stage = "counting"
  /\ stage' = IF AllCounted THEN "reported" ELSE "failed"
  /\ UNCHANGED <<turn, remaining, worker, timings, expected, log, summaries, asked, broken>>

OverheadNext ==
  \/ \E w \in Connections :
       Connect(w) \/ Ask(w) \/ Disconnect(w) \/ WriteAudit(w) \/ WriteSpan(w) \/ Reply(w) \/ Break(w)
  \/ EndDrive
  \/ CountLines

OverheadSpec == OverheadInit /\ [][OverheadNext]_overheadVars

-----------------------------------------------------------------------------
SummariesOf(path) == {n \in DOMAIN summaries : summaries[n].path = path}

(* bench/README.md:349: "The run fails unless the audit log and trace file *)
(* each hold one line per gateway request."  And it fails for nothing      *)
(* else: however the workers take turns, they make exactly the requests of *)
(* each drive, and all of the gateway's are recorded by the time they are  *)
(* counted.  What is reported has, for each repetition, one measured drive *)
(* of each path with all of its requests, and a median at most one rank    *)
(* below the nearest (overhead.py:169-197, 323-369).                       *)
ReportIsCounted ==
  /\ stage = "reported" =>
       /\ audits = asked /\ spans = asked
       /\ asked = OverheadRepetitions * (Warmup + Requests)
       /\ \A path \in {"direct", "gateway"} :
            {summaries[n].repetition : n \in SummariesOf(path)} = 0 .. OverheadRepetitions - 1
       /\ \A n \in DOMAIN summaries :
            /\ summaries[n].requests = Requests
            /\ 2 * summaries[n].median \in Requests - 1 .. Requests + 1
       /\ Len(summaries) = 2 * OverheadRepetitions
  /\ stage = "failed" => broken
=============================================================================
