----------------------------- MODULE MCTelemetry -----------------------------
(* Instances of Telemetry for TLC.                                         *)
EXTENDS Telemetry, TLC

CONSTANTS r1, r2, r3, summarizer, unknown

RequestSymmetry == Permutations(Requests)
=============================================================================
