\* The tools beside the gateway, one at a time.
\* Benchmark: three repetitions of one cell; a run that goes on after a failed condition. A headline
\* needs 4 successes per path: two conditions without a failed request.
\* Readiness: workloads of up to six requests. Probe: up to 32 requests.
\* ReplicaCheck: a burst of four over a limit of two, on two replicas, with windows that may end in
\* between. Overhead: three connections that share five requests of each drive, twice.
SPECIFICATION ToolsSpec
CONSTANTS
  Repetitions = 3
  Workloads = 1
  Concurrency <- OneLevel
  MinRequests = 2
  RequestsPerConcurrency = 1
  Shapes = {"expected"}
  FailedRequests = {0, 2}
  ContinueOnError = TRUE
  Headline <- TheCell
  MinSuccesses = 4
  MaxSamples = 2
  analyst = analyst
  summarizer = summarizer
  echo = echo
  Callers = {analyst}
  Models = {summarizer, echo}
  Grants <- AnalystGrants
  ReasonRequired = {summarizer}
  Replayable <- Workload
  BaseLatency <- Base
  Profile <- MeasuredProfile
  Assumption <- Margins
  Reviews <- MixedReviews
  RequiredScenarios <- Scenarios
  MaxReplayed = 6
  MaxRequests = 32
  Durations = {1, 2, 5}
  Invocations <- Probes
  Replicas = 2
  RequestLimit = 2
  WindowSeconds = 2
  TotalRequests = 4
  Workers = 3
  Deployments <- SomeDeployments
  MaxClock = 6
  Connections = {1, 2, 3}
  OverheadRepetitions = 2
  Warmup = 1
  Requests = 5
INVARIANTS
  HeadlineIsEarned RowsAreWhole ReadinessTypeOK ReadyIsEarned ProbeReportSound
  PassMeansShared SharedPasses ReportIsCounted
PROPERTY SamplesAccounted
CHECK_DEADLOCK FALSE
