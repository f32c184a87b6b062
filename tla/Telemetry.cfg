\* Three concurrent requests; latencies below, on and above the bounds.
SPECIFICATION Spec
CONSTANTS
  r1 = r1
  r2 = r2
  r3 = r3
  summarizer = summarizer
  unknown = unknown
  Requests = {r1, r2, r3}
  Models = {summarizer}
  UnknownLabel = unknown
  Bounds = {1, 2}
  Latencies = {1, 2, 3}
  CheckLatencies = {2}
  Exporters = {"file", "collector"}
  Faults = {"raise", "write", "post"}
SYMMETRY RequestSymmetry
INVARIANTS NoEffectWithoutCause QuietScrapeReconciles TailIsBounded CollectorFollowsFile
PROPERTIES GrowthIsCumulative
CHECK_DEADLOCK FALSE
