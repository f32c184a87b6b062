# Secure GPU inference gateway: TLA+ verification

This directory holds TLA+ models of the gateway in `src/gateway`, of the reports that
release a change of its limits, and of its benchmarks in `src/bench`, the TLC runs that
check them on small instances, and TLAPS proofs of the properties that matter most for
every size. Paths below are relative to the repository; line numbers are those of the commit
the models were translated from.

    tlc -workers 2 -config <run>.cfg <module>.tla      # a run of the table in "Runs"
    tlapm <component>_proofs.tla                       # the proofs of a component
    tlapm SumTheorems.tla                              # the lemmas on sums they share

Contents: [the system](#the-system), [modules](#modules), [runs](#runs),
[bounds](#bounds-and-why-they-are-enough), [fairness](#fairness), [proofs](#proofs),
[divergences](#where-documents-and-code-disagree), [not modelled](#not-modelled),
[plan](#plan).

## The system

The gateway is a FastAPI process (one uvicorn worker, deployed as two replicas) between
clients and one inference backend. `POST /v1/infer` and `POST /v1/completions` are plain
`def` handlers, so the server runs them concurrently in a thread pool; the generator of a
streamed completion is advanced by the same pool, one chunk at a time. All handlers of a
process share the module globals of `app.py:104-111`: the two limiters, the denial
budget, the metrics registry, the audit sink and the span exporter.

    client --> app.py --> identity.py --> policy.py --> rate_limit.py (requests, then tokens)
                 |                                          |  in memory, or one Lua script in Redis
                 |--> backend_adapter.py --> backend (urllib for /v1/infer, httpx pool for completions)
                 |--> metrics.py    counters and histograms, scraped at /metrics
                 |--> audit.py      denial budget, JSONL audit log
                 `--> trace_exporter.py   spans, to a file and/or an OTLP collector

| Component | State | Operations | Interacts with | What is hard | What makes it correct |
|---|---|---|---|---|---|
| Admission and recording (`app.py`) | none of its own but the globals | `infer`, `completions`, `admit_completion`, `iter_completion_response`, `record_completion_event`, `/metrics`, `/health` | calls all of the others in a fixed order: decide, count, audit, trace, answer | handlers interleave between any two of these calls; any of them may raise; the process may stop | what a client is told is in the log, once and as told; what is left out of the log is counted; the backend is asked for no more than was paid for |
| Limiters in memory (`rate_limit.py:29-81`) | a dictionary of `Window` objects | `allow` | called by handler threads without a lock | threads switch between reading the clock, reading the dictionary and writing it | no window is filled past its limit; no admission goes uncounted |
| Limiters in Redis (`rate_limit.py:84-125`, Lua `10-21`) | a counter with an expiry per key and epoch | `allow` | replicas share it; the client library resends | skewed clocks, late scripts, lost replies, expiry | the limit holds across replicas; a refusal spends nothing; counters go away |
| Denial budget (`audit.py:14-41`) | window start and count | `allow` | asked by `denial_is_recorded` | a window restarts under a burst | the log grows by a bounded amount per minute |
| Audit log (`audit.py:44-57`) | a file | `write` | handlers append under a lock | the disk can fail after the counters moved | one line per recorded decision |
| Policy (`policy.py`, `registry.py`, `models.py`) | constant tables | `evaluate_policy` | called once per request | order of the four refusals | only a known caller with a role and, where asked for, a reason |
| Completion proxy (`app.py:409-505, 654-680`, `backend_adapter.py:24-113`) | the process-wide `httpx.Client`, its pool | open, read, iterate, close | holds server threads and connections together | clients leave at any moment, or stay and do not read; waiting handlers hold threads that streams need | connections come back; each completion is recorded once; nobody waits for ever, but on its own client |
| Inference adapter (`backend_adapter.py:128-233`, `mock_inference.py`) | none | `run_configured_inference` | urllib, or the mock | the errors it maps and those it does not | an answer or a `BackendAdapterError` |
| Metrics (`metrics.py`) | counters and histograms under one lock | `record_*`, `observe_latency`, `render_prometheus` | scraped concurrently | several record calls per request, each its own critical section | buckets cumulative; `_count` equals the `+Inf` bucket |
| Trace export (`trace_exporter.py`, `otlp_export.py`, `trace_context.py`) | file, `last_error` | `export` | file, HTTP collector | one exporter of a composite fails | collector failures do not fail requests |
| Identity (`identity.py`) | none | `resolve_principal`, `verify_hs256_jwt` | the wall clock; `denial_is_recorded` for whom it calls nobody | dates of an issuer's clock compared with the gateway's, with leeway and a maximal lifetime | a token serves for a bounded time, an honest one while it is fresh |
| Token estimate (`token_budget.py`) | none | `estimate_tokens` | prompt | rounding | at least one token |
| Evidence tools (`distributed_limiter.py`, `workload_replay.py`, `capacity_plan.py`, `deployment_readiness.py`, `telemetry_snapshot.py`, `resilience_drill.py`, `backend_probe.py`) | report files | `main` of each | run the gateway's own code or read reports | percentiles, boundaries of gates | a gate passes exactly on evidence that meets it |
| Benchmarks (`bench/`) | result files, a sampler thread | `run`, `analyze`, `overhead`, `redis_replica_check` | launches load generators, compares the gateway's path with the backend's; asks replicas for their limits | conditions that fail; interruption between raw samples and their row; a thread that outlives the wait for it; requests that overtake each other | a row only for a whole condition; a headline only on whole pairs; a check that passes only on what it checks |
| Deployment (`deploy/`, compose, Dockerfile, `scripts/`) | configuration | | fixes two replicas, one worker, an `emptyDir` audit log | | |

The manifests set no `RATE_LIMIT_BACKEND`, so the Kubernetes deployment as written keeps
its limiters in the memory of each replica; with Redis configured they are shared.

## Modules

| Module | Models | State | Actions |
|---|---|---|---|
| `WindowBudget` | what every fixed window of the gateway promises (the abstract specification) | `now`, `window`, `last` decision | `ReadClock`, `Admit`, `Refuse` |
| `MemoryLimiter` | `FixedWindowRateLimiter.allow` and `FixedWindowTokenBudgetLimiter.allow`, thread switches included | `clock`; `objects` (every `Window` ever made, by reference), `windows` (the dictionary), each thread's `pc` and locals in `call`; histories `granted`, `steady` | `Enter`, `ReadTime`, `GetWindow`, `DecideToOpen`, `Refuse`, `Spend`, `StoreWindow`, `Tick` |
| `MemoryBudget` | `MemoryLimiter` with three history variables, and the refinement of `WindowBudget` by the calls that meet no other | + `reading`, `verdict`, `alone` | those of `MemoryLimiter` |
| `RedisLimiter` | `_RedisFixedWindowLimiter._allow` and the Lua script | `clock` of Redis, `store` (counter and expiry by key and epoch), each caller's `pc` and `call`; histories `granted`, `strayed` | `Send`, `Eval` (the script), `Return`, `Resend`, `Raise`, `Tick` (with expiry) |
| `DenialBudget` | `DenialAuditBudget.allow`, and its refinement of `WindowBudget` | `windowStarted`, `count`, `clock`; histories `granted`, `verdict` | `Allow`, `Tick` |
| `Identity` | `resolve_principal` down to `_validate_claims`, the two headers, the settings, and the handlers' way from a caller who is nobody to `DenialBudget`, which it extends | `settings`, `drift` of the wall clock, the `token` that is followed, `turnedAway`; histories `used`, `answered` | `Mint`, `Request`, `RecordDenial`, `SetWallClock`, and the budget's `Tick` and `Allow` |
| `Gateway` | both routes of `app.py` from arrival to answer, composed with the budgets, the counters, the log and the exporter | per request `pc`, `request`, `outcome`, `status`; `rateTaken`, `tokenTaken`, `denialTaken` (who is charged to an open window); `counted`, `suppressed`; `auditLog`, `spans`; `crashes` | `Arrive`; `Authorize`, `TakeRequest`, `TakeTokens`, `LimiterRaises`; `CallBackend`, `BackendMalformed`, `EndStream`, `StreamNeverStarts`; `Count`, `Gate`, `Audit`, `ExportSpan`, `RecordingRaises`; `Reply`; the ends of windows; `Crash` |
| `BackendLoad` | `Gateway` with a history of what the backend was asked for and of the windows that were begun | + `asked`, `rateWindows`, `tokenWindows` | those of `Gateway` |
| `CompletionProxy` | `backend_http_client`, `open_completion_response`, the buffered and streamed branches of `completions`, `iter_completion_response` | per request `pc`, `clientOf`, `outcome`, `chunks`, `recorded`; `clients`, `connections`, `gone` | `Start`, `FindClient`, `MakeClient`, `Connect`, `PoolTimeout`, `HeadersArrive`, `HeadersFail`, `ReadBody`, `Record`, `SendReturns` (the server's `send()`, which waits while the client takes no more), `Advance`, `YieldChunk`, `EndOfStream`, `ClientLeaves`, `CloseSuspended`, `CloseUnstarted` |
| `Telemetry` | what a handler records between its limiter checks and its span (`app.py:188-213, 701-760`), `GatewayMetrics` one critical section at a time, the file, collector and composite exporters of `trace_exporter.py`, and the outcome counts and p95 bound of `telemetry_snapshot.py` | per request `pc`, `asked`, `outcome`, `latency`; the registry's counters `auth`, `requests`, `tokens`, `suppressed` and histograms `checks`, `served`; the spans in `file` and `collector` | `RecordAuth`, `CheckRequests`, `CheckTokens`, `CallBackend`, `AdmissionRaises`; `RecordRequest`, `RecordInputTokens`, `ObserveLatency`, `Gate`; `WriteFile`, `Post`, `PostFails`, `PostRaises` |
| `Readiness` | the chain of reports of `docs/OPERATIONS.md`: `build_workload_report` as a state machine that replays a workload request by request, and over what it leaves the verdicts of `capacity_plan.py`, `distributed_limiter.py`, `deployment_readiness.py` and `resilience_drill.py` | `review` (limits, thresholds, phases, probes); `taken` and `spent` by key; `outcomes`, `latencies` | `Deny`, `LimitRequests`, `LimitTokens`, `Allow` |
| `Benchmark` | `build_schedule`, `run_benchmark`, `run_condition` in the order of its files, and the gates of `build_headline` over what they leave | `pc`, `at` (the ordinal), `child` (how the load generator ended); the files `logs`, `upstream`, `raw`, `rows` | `Probe`, `Launch`, `ChildEnds`, `WriteLog`, `WriteFailedRow`, `WriteRaw`, `Sanitize`, `WriteRow`, `Finish`, `Interrupt` |
| `Sampling` | `ResourceSampler` beside the runner's steps of `Benchmark`, which it extends: its thread, `stop()`, the labelling and writing of a list that may still grow | `thread`, `stopped`, `place`, `samples`, `labelled`, `lines`, all of the current condition; history `returned` | `TakeSample`, `Wake`, `StopSampler`, `Join`, `Label`, `WriteSamples`, and `Benchmark`'s |
| `Overhead` | `overhead.py`: `drive` with one worker for each connection, `run_benchmark`, `wait_for_lines`, and the order in which the gateway records and ends a stream | `stage`, `turn` (which drive), `remaining`, `worker`, `timings`, `expected`, `audits`, `spans`, `summaries`; histories `asked`, `broken` | `Connect`, `Ask`, `WriteAudit`, `WriteSpan`, `Reply`, `Break`, `Disconnect`, `EndDrive`, `CountLines` |
| `ReplicaCheck` | `redis_replica_check.py`, pointed at a deployment that shares its windows or does not | `deployment`, `windows`, `clock`; `checking`, `statuses`, `isolated`, `expired`, `wakes`; histories `epochs`, `resent` | `SendRequest`, `Isolate`, `Expire`, `Raise`, `Tick` |
| `Probe` | `backend_probe.py` and the ways the adapter's `run_openai_compatible_inference` ends | `invocation`, `probing`, `answers` (how many answers took how long), `failures`, `verdict`, `exitCode` | `Refuse`, `Succeed`, `Fail`, `Abort`, `Report` |
| `MC*` | values for the constants of the modules they extend; `MCTools` holds the tools beside the gateway, which have nothing in common: its variable `tool` names the one that runs, and the others do not start | | |
| `*_proofs` | theorems and their proofs; `Identity_proofs` holds those of `DenialBudget`, `MemoryLimiter_proofs` those of `MemoryBudget`, `Tools_proofs` those of `Benchmark`, `Sampling`, `ReplicaCheck`, `Overhead`, `Probe` and `Readiness`, whose initial states and steps have names of their own for its sake (`ProbeSpec`, `ReadinessSpec`, ...) | | |
| `SumTheorems` | lemmas on sums over finite sets, which the proofs share | | |

How the modules fit together. `Gateway` charges a request to a window as `WindowBudget`
says; `MemoryLimiter` (for the calls that meet no other) and `DenialBudget` are shown to
implement `WindowBudget`, and `RedisLimiter` has its own limit properties because its
windows can be counted twice (see the runs). When threads race inside the in-memory
limiter, it is *not* a `WindowBudget`, and what it then promises is stated in
`MemoryLimiter`. `Identity` puts the handlers that turn callers away above `DenialBudget`,
and is the detail of `Gateway`'s callers, who are a principal or nobody. `CompletionProxy`
is the detail of `Gateway`'s `CallBackend`, `EndStream` and `StreamNeverStarts` for the
completions route, and `Telemetry` the detail of `Count` and `ExportSpan`. `Readiness` runs
the same policy and limiters one request at a time, within one window, as the replay does.
`ReplicaCheck` has the two kinds of limiter in one step each, as what its tool sees of them; the
step of the shared one may be that of a script that was sent again (`Resends`).
To `Benchmark`, and to `Sampling` with it, the gateway is a path that answers or not; to
`Overhead` it is what writes a line to each of two files before a stream's last chunk.

Choices in the translation.

* A step is what a thread does between two accesses to shared state. In `MemoryLimiter`
  that is finer: CPython switches threads under the interpreter lock where bytecode
  calls or jumps back, so `allow()` is split after `time.time()`, after `windows.get()`
  and before the new `Window` is stored. From the expiry test to `window.count += cost`
  nothing is called, and the stretch is one step. A free-threaded build would need a
  finer model.
* The three ways in which `infer` records (denied by policy, limited, served) and
  `record_completion_event_fields` have the same order, so they are one sequence of
  actions: `Count`, then (for denials) `Gate`, then `Audit`, `ExportSpan`, `Reply`. The
  three `record_*` calls of one request are one `Count` in `Gateway`; what a scrape between
  them sees is a matter of `Telemetry`.
* A window in `Gateway` is the set of requests charged to it, and ends at any moment.
  This covers any clock. Principals, models, prompts and reasons are model values; a
  prompt is its number of tokens.
* Mutated copies of a definition, named and commented as such, stand before the
  definitions they mutate. Nothing in a specification uses them; each makes TLC find a
  violation of the property listed with it in `PROJECT.json`.

## Runs

| Run | Question | Result |
|---|---|---|
| `MemoryLimiter_race` | What do the in-memory limiters still promise when threads race in `allow()`, with slow threads and a clock that may be set back? | Holds: `NoWindowOverfilled`, `EveryAdmissionCounted`, with a steady clock and prompt calls `OvershootBounded` (one full limit per thread in a window's length), and `ImplementsBudget`: a call that is alone in `allow()` is decided as `WindowBudget` says, also when the clock moves inside it or is set back, and on whatever window earlier races left. |
| `MemoryLimiter_limit` | Do they keep the limit the threat model states? | `LimitedByKey` violated: two threads find no window, each opens one, both are admitted. |
| `RedisLimiter` | Does the script keep the limit across replicas with lost replies, resends, delay and skew? | `WindowLimit` holds: the limit, while the scripts that name a window run in it; twice the limit when one strays. `CountersExpire`, `GrantsArePaid`, `RefusalSpendsNothing` hold. |
| `Identity` | For how long does a token serve, does an honest one always, and how many anonymous denials are written in any minute, with a wall clock that is set at any moment and handlers that interleave before the budget? | `AcceptedBriefly` (the longest lifetime, and the skew and the clock's error twice), `FreshTokensWork`, `AnyMinuteBounded` (twice the budget) and `ImplementsBudget` hold. |
| `Gateway_requests` | Three concurrent requests of four kinds on a shared limiter, a restart at any moment, failing limiter, log, exporter and backend: do answers, log, spans, counters and budgets agree? | All six properties hold. |
| `BackendLoad` | Two limiters asked one after the other, whose windows begin and end apart, which may fail before or after they have counted, and a restart at any moment: how much can the backend be asked for? | `BackendWithinBudgets` holds: no more than the windows begun so far have room for. |
| `Gateway_denied` | Does a denied request block no other? | `DenialsBlockNobody` violated: a request refused for its tokens keeps its unit of the request limiter, and a later one is refused for its rate. |
| `Gateway_admitted` | Is every admitted request in the log when its handler is done? | `AdmittedWorkAudited` violated by a backend body that is cut short. |
| `Telemetry` | Does a scrape between any two record calls of three concurrent handlers make sense, do histograms stay cumulative and bound the tail, and does the collector never lead the span file? | `NoEffectWithoutCause`, `QuietScrapeReconciles`, `TailIsBounded`, `CollectorFollowsFile`, `GrowthIsCumulative` hold. |
| `Tools`: `Benchmark`, `Sampling` | Three repetitions of a pair, any condition failing, the run interrupted anywhere: what do its rows and the headline rest on, and what becomes of the samples of a thread that outlives the wait for it? | `RowsAreWhole`, `HeadlineIsEarned` (with the paths' order balanced) and `SamplesAccounted` hold. |
| `Tools`: `Readiness`, `Probe` | What does the last verdict of the chain (`DrillReady`) stand for, over every workload of up to six requests and reviews that are good or amiss in one place? | `ReadyIsEarned` holds: limits within the threshold's share of what was measured also when a model has all of its traffic, a replay that met every guardrail with 95 percent of what it allowed in time, and a recovered probe of each scenario. `ProbeReportSound` holds of backend probes of up to 32 requests: nearest-rank percentiles, and no pass with a failure. |
| `Tools`: `ReplicaCheck`, `Overhead` | What does a replica check that passes tell, over deployments with and without Redis, with the limit and window it was told of or others? And does the overhead benchmark make, count and report exactly its requests? | `PassMeansShared`: replicas with unused windows and the limit it was told pass only if they share them. `SharedPasses`: those that do pass, unless the burst ran into the next window, an answer was lost or a script was sent again. `ReportIsCounted` holds. |
| `CompletionProxy_scarce` | Two threads, one connection, three completions, clients leaving at any moment: connections, records, the race to make the client, and mutual waiting. | All hold; a completion whose client never reads is the one that need not end. |
| `CompletionProxy_leavers` | Does every completion that ended return its connection? | `OwnerCloses` violated by a client that leaves before its stream is started. |

What the properties of `Gateway` say, in short. `AnswersAreAudited`: an answer implies one
audit event with that outcome, or an anonymous 403. `LogsAgree`: no event twice, none that
contradicts the decision, no span without its event. `GapIsCounted`: the suppression
counter is the number of denials left out, as long as the process runs.
`OnlyFloodsAreSuppressed`: a denial is left out only when it is anonymous and the budget
went to anonymous ones. `CountedBeforeAudited`: the counters lead the log.
`DenialSpendsNoTokens`: denied requests hold no tokens.

`BackendWithinBudgets`, of `BackendLoad`, is a bound over the whole run: of each caller and
model, the requests whose handlers have been through the call of the backend are no more
than the limit for each request window begun so far, and their tokens no more than the
token limit for each token window. A window may have ended between a request's admission
and its call, a request may be charged and never reach the backend, and a restart forgets
the windows but not the work; none of this lets the backend be asked for more.

`EveryCompletionEnds` says of each completion that it ends, unless it is a stream that
waits for its own client for ever: the server sends a chunk, and asks the generator for the
next when `send()` has returned, which flow control may prevent for as long as the client
stays and does not read. Such a stream keeps its connection. Handlers that wait for one
give up after the pool's timeout, so that the other completions end.

### Bounds, and why they are enough

* `MemoryLimiter`: two threads, one key (keys share nothing but the dictionary), costs 1
  to 3 against a limit of 2 (fits, fills, overdraws, never fits), windows of 2 ticks over a
  clock of 3 values that moves both ways, three calls in all: enough for a thread to sleep
  while the other opens, fills and replaces a window, and for a call on its own after it.
  `MaxClock` and `MaxCalls` are the bounds. That threads can be exchanged is used as
  symmetry; all that the run checks is of single steps.
* `RedisLimiter`: two callers on two replicas, one a tick ahead, windows of 3 ticks, a
  delay of one tick, one resend. Skew and delay together are shorter than a window, which
  is what `WindowLimit` needs (`CallsArePrompt` of its theorem); the module itself assumes of
  the skew that it is no longer than a window.
  `MaxClock` = 5 spans two windows and the expiry of the first; `MaxCalls` = 3.
* `Identity`: 8 ticks over denial windows of 2 with a budget of 1, and a token of which 7
  shapes are tried: honest ones with and without `nbf`, ones that last longer than is
  allowed (one comes into the allowed lifetime while it is watched), one without `exp`, one
  badly signed, one of another issuer. Three settings: all checks, demo principals, both
  without an issuer to compare with. The wall clock is up to one tick off (`MaxDrift`), as
  the skew allows, and is set at any moment. Dates are whole, finite numbers.
  `MaxTurnedAway` = 1 denial under way beside any number of requests.
* `Gateway`: three requests are the least with which two requests fill a window (limit 2)
  and a third meets it, and two anonymous denials exceed a budget of 1 beside an
  authenticated one. One caller and one model: windows of different keys share nothing.
  `MaxCrashes` = 1.
  `RequestSymmetry` is used in safety runs only.
* `BackendLoad`: three requests of one caller and model, of one token or two against limits
  of two requests and two tokens: three requests need a second window of the one limiter or
  the other, and two may share the first. Its faults are those that come between admission
  and the backend: a limiter that fails, a backend body cut short, one restart.
* `CompletionProxy`: three completions against two threads and one connection, so two
  waiting handlers can take every thread while a stream holds the connection;
  `MaxChunks` = 2 lets a stream be suspended, resumed and suspended again.

* `Telemetry`: three requests, bounds `{1, 2}` and latencies below, on and above them, both
  exporters, each fault (an exception in a limiter, a failing file, a failing collector);
  `RequestSymmetry`. Limiter checks all take the time `CheckLatencies` gives: their
  histogram obeys the same code as that of the requests.
* `Readiness`: one caller and two models, one of which wants a reason; four kinds of request
  (small, larger, without its reason, without text), limits of three requests and three
  tokens, so that a workload of six (`MaxReplayed`) can meet all of the guardrails. The
  seven reviews are one that a workload can make ready and six that have one flaw: limits
  above what was measured in requests or in tokens, that flaw under phases which stop short
  of a full rollout, a phase that reserves less than its traffic, a scenario without a
  probe, a probe a percent too slow. A replay is shorter than a window, so each key has one.
  Fractions are whole percents, latencies are in microseconds and ratios are compared before
  the code rounds them to six digits. The sample of a rank in the sorted list is modelled as
  the least sample that so many keep to.
* `Probe`: probes of one request, of 21 (the fewest whose 95th percentile is not the last),
  of 32 (the most), of none, of 33 and of a blank input, with three latencies: a percentile
  has then neighbours on both sides.
* `Benchmark`: three repetitions, the least with which two good pairs, which a headline needs,
  stand beside one that is half there; one cell, since the analysis of a cell reads no other;
  samples that have the expected shape or are torn (the gate that compares shapes can only
  hold a headline back), and conditions with no failed request or only failed ones. The run
  goes on after a failed condition (`ContinueOnError`); one that does not is interrupted at
  it. `MinSuccesses` = 4 is two conditions' worth, as 30 is in the code. `MaxSamples` = 2:
  one that `stop()` returns and one that comes too late.
* `Overhead`: three connections share five requests (an odd number, whose median is a half)
  after a warm-up of one, which leaves two of them without any; two repetitions, so that
  each path goes first once. One level of concurrency; the others are driven alike.
* `ReplicaCheck`: a burst of four over a limit of two, three at a time, on two replicas, so
  that each is dealt a full limit; the deployment has Redis or not, and is as the check was
  told or amiss in one place: half the limit, a longer window, or windows half used up. The
  clock may pass the end of a window anywhere in the burst. A limiter decides in one step
  there, a script that is sent again included, the clocks agree, and token budgets are ample,
  as the Compose file has them.

Deadlock is not checked (`CHECK_DEADLOCK FALSE`): requests are finite in number, and the
models stop when all are done.

### Fairness

Only `CompletionProxy` has a liveness property, `EveryCompletionEnds`, under
`CompletionProxy!FairSpec`: `WF(Proceed(r))` for what a running thread does, the pool's
timeout included, and `SF` for being given a thread: the server's queue for threads is first
come, first served, so a request that finds one free again and again is served. No
fairness is assumed of `Connect`: a handler may lose every free connection to others, and
its pool timeout ends the wait. What the backend does within `Proceed` is fair because each
wait on it has a timeout (`backend_adapter.py:77-103`), and because its bodies are taken to
be finite (`MaxChunks`). Nothing is assumed of clients: `ClientLeaves` and `SendReturns`, the
two steps that are theirs, are outside of every fairness condition, and `Advance` is enabled
only after `SendReturns`. The tools that run
once (`Benchmark`, `Overhead`, `ReplicaCheck`, `Probe`) end by their loops' bounds or by an
exception; what is worth saying of them is what they have written by then.

## Proofs

All theorems hold for every value of the constants that meets the module's named
assumption (`GatewayAssumption`, ...), which the runs evaluate: finite sets of requests,
threads, callers and models, positive limits and costs, a grants table over the principals
and models, reviews of the shape the tools read. One theorem has a hypothesis besides:
`WindowsLimited` takes `CallsArePrompt`, that a replica's clock is ahead, and a script late,
by no more than a window together. It is an assumption on a deployment, and the code does not
enforce it. What a call may take is the socket timeout (`rate_limit.py:185`, one second unless
`REDIS_SOCKET_TIMEOUT_SECONDS` says otherwise) for each attempt and for connecting, times the
attempts of the client library, which retries with pauses in between; and a script that
was given up may still be on its way. Against the default window of a minute that leaves
room for clocks that are off by seconds. Against a short one (`RATE_LIMIT_WINDOW_SECONDS`;
the benchmark's Compose file sets two seconds) a few retries are enough to break the
assumption, and `WindowLimit` is then not proved. The run `RedisLimiter` meets it.

| Theorem | Statement | Argument |
|---|---|---|
| `Gateway_proofs!TypeCorrect` | `Spec => []TypeOK` | one step per action |
| `Gateway_proofs!AnswersAudited`, `LogsNeverDisagree` | `AnswersAreAudited`, `LogsAgree` | `AuditInv`: for each place a handler can be in, what its log, span, outcome and status are by then. The properties speak of finished handlers only and are not inductive: that a reply is in the log follows from what was true at `reply`, which follows from `trace`, and so on back. |
| `Gateway_proofs!DeniedHoldNoTokens` | `DenialSpendsNoTokens` | tokens are charged only on the way to the backend, and no denial is decided behind it |
| `Gateway_proofs!CountersLeadTheLog` | `CountedBeforeAudited` | `SharedInv`: a handler past `count` is in `counted`, since a restart that empties it takes the handler too |
| `Gateway_proofs!OnlyFloodsSuppressed` | `OnlyFloodsAreSuppressed` | `SharedInv`: the denial window holds anonymous denials only and at most the budget |
| `Gateway_proofs!GapCounted` | `GapIsCounted` | `GapInv`: a handler's step raises the counter exactly when it adds its request to the set of denials left out, and that set grows by one; a stream that has begun is never a denial, so the reply does not change who is in the set |
| `MemoryLimiter_proofs!TypeCorrect`, `WindowsWithinLimit` | `TypeOK`, `NoWindowOverfilled` | `LimitInv`: a window a thread got has the thread's key, also when it was replaced since; a window about to be opened holds no more than the limit |
| `Gateway_proofs!BackendLoadBounded` | `LoadSpec => []BackendWithinBudgets` | `LoadInv`: those who are past a limiter (`PassedRate`, `PassedTokens`) are in its open window, or weigh no more than the windows that have ended had room for (`Covered`). A request joins them as it joins the open window, which is within its limit (`PaidInv`); when a window ends what was in it is covered by it (`CoveredStep`). The requests at the backend alone are not inductive, since a window may end before they are asked for, and one that was refused or failed stays in its window without being among them. The properties of a sum are `SumTheorems`'. |
| `MemoryLimiter_proofs!AdmissionsCounted` | `EveryAdmissionCounted` | the cost is added to the object that was tested, or is the count of a new one: the sum over the key's objects grows by what is granted, whichever of them the dictionary has |
| `MemoryLimiter_proofs!OneWindowPerThread` | `OvershootBounded` | `SteadyInv`: with a steady clock and prompt calls the window in the dictionary is the last one opened, so while one is live no further thread finds the window over; live windows and threads about to open one are together no more than the threads (`OneEach`), and none is overfilled |
| `Telemetry_proofs!TypeCorrect` | `TypeOK` | one step per action; `ObservedTyped` for the nested update of a histogram |
| `Telemetry_proofs!ScrapesDifferCumulatively` | `GrowthIsCumulative` | an observation adds to every bucket from its own up, so the difference of two scrapes is cumulative, too |
| `Telemetry_proofs!CollectorNeverLeads` | with both exporters, `CollectorFollowsFile` | `FileInv`: a handler comes to the collector with its span in the file |
| `Telemetry_proofs!EffectsHaveCauses`, `QuietScrapesReconcile` | `NoEffectWithoutCause`, `QuietScrapeReconciles` | `CountInv`: each counter is the number of requests at the places of a handler that come after its record call. Comparing two counters is then comparing two sets of requests; a sum of counters over models and outcomes is one such number by `SumFibers`. |
| `Telemetry_proofs!TailsAreBounded` | `TailIsBounded`, for any bounds | the same invariant, for buckets: each is the number of answers within its bound, and the rank is the least number that makes 95 percent (`TargetIsLeast`) |
| `Tools_proofs!TypeCorrect` | `TypeOK` of `Benchmark` | that successes are no negative number needs `EnoughRequests`: a condition asks for at least the minimum |
| `Tools_proofs!RowsOfWholeConditions` | `RowsAreWhole`, for any schedule | `RunInv`: the next row is that of condition `at`, and what the earlier steps of a condition have written is there when its row is appended |
| `Tools_proofs!SamplingImplements`, `SamplesAreAccountedFor` | `SamplingSpec => Spec`, `SamplesAccounted` | `SampleInv`: at each place of the runner, how the list, what is labelled of it and what `stop()` returned compare; after `stop()` has set the event the thread adds one sample at most. The first theorem carries what is proved of `Benchmark` over. |
| `Tools_proofs!HeadlinesAreEarned` | `HeadlineIsEarned`, for any schedule | from `RunInv`: the gates compare cardinalities; a path's completed rows are of different repetitions, each of which left samples, so when there are as many rows as sampled repetitions none of the latter lacks its row (`SampledCompleted`, `PairsAreWhole`); as no failures were counted none of the sum's terms is positive (`NoneFailed`). For the order: numbers of conditions as digits of repetition, workload and level (`OneOrdinal`) show that the first path of a repetition depends on one parity (`FirstPath`), and alternation bounds the difference of the two counts (`OrderAlternates`). |
| `MemoryLimiter_proofs!BudgetImplemented` | `HistorySpec => ImplementsBudget`, for any number of threads | `AloneInv`: while one thread is alone, its window is the one in the dictionary, or there is none, and its reading is the latest; so its answer is that of the abstract window. |
| `RedisLimiter_proofs!TypeCorrect`, `CountersGo`, `RefusalsAreFree` | `TypeOK`, `CountersExpire`, `RefusalSpendsNothing` | the script's increment and expiry are one step, and a key is never charged without the latter |
| `RedisLimiter_proofs!AdmissionsPaid` | `GrantsArePaid` | `PaymentInv`: what was granted in a window and what replies on their way will grant (`Owed`) is covered by the counter, until a script strays. Granted alone is not inductive: a reply that is on its way has been charged, and may yet be lost. |
| `RedisLimiter_proofs!WindowsLimited` | under `CallsArePrompt`, `WindowLimit` | `TwiceInv`: a window's counter has started over not yet, or once, or twice, and by then it is so late that no script names the window any more. Each run of the counter is paid up to the limit. |
| `Tools_proofs!ReplicaTypeCorrect`, `SharingIsTold` | `ReplicaTypeOK`, `PassMeansShared`, for any number of replicas, limit, window and burst | `OwnBudgets`: a replica that counts alone limits a request only after it has itself answered a full limit. If no more than that was answered in all, one replica answered it, and the others neither answered nor limited any request; but each is dealt some. |
| `Tools_proofs!SharingPasses` | `SharedPasses`, for the same | within one epoch the shared counter is the number of requests that were served, so it refuses exactly those beyond the limit; after the sleep the epoch is another |
| `Tools_proofs!ReportsAreCounted` | `ReportIsCounted`, for any connections and numbers of requests | in each drive the requests left, those under way and those timed are the total; in all, requests asked, lines written and handlers between them add up. The workers of one drive share a count, so what is inductive is the sum over them. |
| `Tools_proofs!ReportsAreSound` | `ProbeReportSound`, for any latencies | answers and failures are counted once each; the least latency that a rank's number of answers keep to has an answer of its own, and no latency below reaches the rank |
| `Tools_proofs!ReadinessTypeCorrect`, `ReadinessIsEarned` | `ReadinessTypeOK`, `ReadyIsEarned`, for any workload and review | `ReplayInv`: each key's charges stay within its limits, and a request was limited only where a window was full. A percentile that the gate lets pass bounds 95 percent of the samples (`PercentileKept`); a rollout whose phases are valid and end in all of the traffic reserves all of the capacity at last (`LastPhaseIsFull`), so that its utilization gate is one of a full rollout. |
| `Identity_proofs!DenialTypeCorrect` | `TypeOK` of `DenialBudget` | the count stays within the budget and the window never starts in the future |
| `Identity_proofs!BudgetImplemented`, `DenialsBudgeted` | `Spec => ImplementsBudget`, `AuthSpec => ImplementsBudget` | `Tick` maps to `ReadClock`, `Allow` to `Admit` or `Refuse`; what handlers do besides leaves the budget alone |
| `Identity_proofs!MinuteBounded`, `DenialsBounded` | `AnyMinuteBounded`, of the budget and of the handlers above it | `MinuteInv`: what was granted since the window in force began is its count, and what was granted in the window's length before that is within the limit; a stretch of a window's length that reaches into both holds no more than the two. The second theorem follows by `DenialsOfHandlers`: every step of the handlers is one of the budget, or leaves it alone. |
| `Identity_proofs!AuthTypeCorrect`, `TokensUsedBriefly`, `FreshTokensAccepted` | `AuthTypeOK`, `AcceptedBriefly`, `FreshTokensWork` | `AuthInv`: each use lies between the token's expiry less the longest lifetime, and its expiry, give or take skew and drift; whichever settings, headers and dates. The second speaks of one step: a fresh token's dates are within the drift, and so within the skew, of what the gateway compares them with. |
| `CompletionProxy_proofs!TypeCorrect`, `ConnectionsHeldWhileOpen`, `OutcomesRecordedOnce` | `TypeOK`, `HeldWhileOpen`, `RecordedOnceReleased` | `ProxyInv`: types, connections by location, at most one client, whoever is about to be recorded has an outcome |
| `CompletionProxy_proofs!NeverOvercommitted` | `BackendNeverOvercommitted` | every connection belongs to the one client, so its limit is the process's |
| `CompletionProxy_proofs!OnlyEarlyLeaversLeak` | if no client leaves before its stream is started, `[]OwnerCloses` | `PatientInv`: a client that is gone has a stream that was started. This is the exact condition under which the finding of `CompletionProxy_leavers` cannot happen. |

`TypeOK` of each module is proved and therefore not among what the runs check, but for
`ReadinessTypeOK`, which stands for the names of outcomes the gates look for.

Sums. The promises of limiters and counters are about totals: what a key was granted, what a
window holds, how many requests a scrape shows. The models take the community modules'
`SumFunctionOnSet`, which is a fold over a finite set. `SumTheorems` proves from its
definition that the sum is a number and obeys the laws the proofs use: one element more or
less (`SumAdd`, `SumRemove`), a function changed in one place (`SumUpdate`), a set split in
two (`SumSplit`) or into the fibers of a function (`SumFibers`), bounds (`SumBounded`,
`SumMonotone`), and a cardinality as a sum of ones (`SumOfOnes`). These are inductions over
finite sets. The library's induction theorems take the statement as an operator, which the
installed provers cannot instantiate; here the statement is a SET, that of the subsets it holds of,
and the induction is the fact that a nonempty collection of finite sets has a member that
includes no other (`SmallestSubset`, from the library's well-foundedness of the strict
subset order; `SubsetInduction`, `SetInduction`).

Model-checked only: `EveryCompletionEnds`. Liveness, and with it fairness and `ENABLED`, is
beyond the prover. All else that a passing run checks has a theorem. Of the properties the
runs refute, `OwnerCloses` has one under the condition that makes it hold
(`OnlyEarlyLeaversLeak`), and `OvershootBounded` is what is left of `LimitedByKey`.

## Where documents and code disagree

Shown by runs and listed in `PROJECT.json`:

* `rate_limit.py:71` against `THREAT_MODEL.md:28` (`MemoryLimiter_limit`): the in-memory
  limiters admit more than the limit when threads race to open a window.
* `app.py:465` against `backend_adapter.py:66` (`CompletionProxy_leavers`): a generator that
  was never advanced runs no `finally`, so a client that leaves before its stream is
  started leaves the connection open and the completion unrecorded.
* `backend_adapter.py:164` against `THREAT_MODEL.md:29` (`Gateway_admitted`):
  `http.client.IncompleteRead` is caught nowhere, and the admitted request ends with a 500,
  unrecorded.

* `app.py:267` and `595` against `README.md:59` (`Gateway_denied`): "A denied request spends
  nothing, so it cannot block later requests that fit." This holds of each script
  (`RefusalSpendsNothing`), and of a request's tokens (`DenialSpendsNoTokens`); but a request
  denied by the token limiter has spent one unit of the request limiter (`app.py:224`,
  `559`), and a later request may be refused for it.

Noticed while modelling, and not given runs:

* `docs/OPERATIONS.md:10` says that every policy-denied request writes one audit event;
  `app.py:779-783` leaves out anonymous ones beyond the budget, as `README.md:62-64` says.
* `docs/OPERATIONS.md:102` says that the deployment report "composes" three files under
  `artifacts/`. The tools name those files and make the reports anew from the code's own
  constants (`deployment_readiness.py:110-112`), so that a file left there may be of other
  limits than the report that names it.
* `bench/README.md:285-287` asks of a headline "complete paired repetitions" and "zero
  failures". The gates look at the repetitions that left samples (`analyze.py:124-144,
  431`): one of which both conditions failed under `continue_on_error`, or which an
  interruption kept from being run, holds no headline back. `HeadlineIsEarned` is therefore
  stated of the repetitions that left samples.
* `bench/README.md:258-259` says that the saved upstream file has its generated texts
  removed; a condition that failed after its result was saved keeps the file as it is
  (`run.py:361-374`), `"raw"` in `Benchmark`.
* `ResourceSampler.stop` waits for its thread for a limited time and returns the list the
  thread appends to (`environment.py:258-262`): a sample that comes late may be written
  without its condition, and the row's `sample_count` be one more than the file has
  (`SamplesAccounted` says that it is no worse).
* `bench/overhead.py:45` takes the median's rank with `round()`, which takes a half to the
  even side; `test_overhead_benchmark.py:19` calls it the nearest rank, and tries a hundred
  values and one. Of five it is the second (`ReportIsCounted` says how far off it may be).
* `bench/redis_replica_check.py` may raise a false alarm: a burst that runs into the next
  window of the epoch is admitted twice over, and a deployment that shares its limiter
  fails. So may a script whose reply was lost and which the client library sends again: it
  counts twice, so that a request too few is admitted (`SharedPasses` leaves both out, by
  `epochs` and `resent`). It passes replicas that share nothing when their
  limits or what is left of their windows add up to the limit it was told (`PassMeansShared`
  leaves them out).

## Not modelled

* The text of events, spans, metrics and reports, and the parsing of requests: pydantic,
  JSON and Prometheus formatting. A property about them would be about formatting.
* JWT signatures (`identity.py` verifies HS256 itself): cryptography.
* In `Telemetry`: denials by reason, which grow with the requests they belong to, the text of
  a scrape, the conversion of spans to OTLP JSON, the parsing of `traceparent`.
* `/health`, and a completions endpoint that is not configured: static configuration,
  answered as a backend error before a connection is asked for.
* In `Gateway`: exceptions that nobody catches other than `infer`'s cut-short body
  (`BackendMalformed`), a failing limiter and failing files; those of the completions routes,
  such as a backend URL that httpx does not accept, end a handler in the same way. The denial
  budget's `allow` and `record_audit_suppressed` (`app.py:779-783`) are two critical sections
  and one step (`Gate`): nothing there reads between them.
* In `Readiness`: more than one profile of a model, or one set of limits for the plan and
  another for the replay. `capacity_plan.py:96-99` takes profiles and policies as parameters;
  the reports that the deployment report makes are all of the code's own tables
  (`deployment_readiness.py:110-112`), which have one profile for each model.
  `ReadyIsEarned` is stated of that. Ratios are exact, where `deployment_readiness.py:226, 245`
  round to six digits before they compare: a limit may be over the threshold by about
  a millionth of the capacity and pass.
* In `Readiness`, besides: costs, the hashes and sample decisions of the limiter's report, and the
  fields that must only be non-empty. Whether the limiter's script contains the fragments of
  a fixed window is a constant of the code.
* In `Identity`: which roles a principal has, and dates that are no finite numbers.
* In `Probe`: the sum of the token counts that answers report.
* The statistics of `bench/analyze.py` and `bench/overhead.py` (floating-point numbers), what a
  resource sample holds, the null backend and the processes that `bench/overhead.py` starts,
  Kubernetes manifests, container images and CI.
* `telemetry_snapshot.py` beyond its counts and its p95: its gates are single comparisons of a
  report's fields, and the rest is parsing.
* `scripts/kubernetes_smoke.py`: calls of `kubectl` and HTTP one after the other; its one
  loop retries a connection until a deadline and keeps nothing but the last error.
* The free-threaded build of Python, for which `MemoryLimiter`'s steps would be too large.
* The loss of Redis's own data, and a failover to a replica of Redis: the repository
  deploys a single server.

## Plan

Written first, in this order: what decides or records a request (`MemoryLimiter`,
`RedisLimiter`, `DenialBudget`, `Gateway`, `CompletionProxy`), what shows it (`Telemetry`), the
benchmark that measures it, and the reports that release a change of it (`Readiness`); then
who asks (`Identity`), and the tools that watch it (`Sampling`, `ReplicaCheck`, `Overhead`,
`Probe`). Left:

1. Theorems: that the windows of `Gateway` are those of the limiters, by a refinement
   from `Gateway` to `WindowBudget` for each key; that the requests of `Gateway` record as
   those of `Telemetry` do.
2. The rest of `app.py` and `backend_adapter.py` in `Gateway`: the upstream URL and headers
   of a completion, the configured mock.
