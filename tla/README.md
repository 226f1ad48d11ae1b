# TLA+ models of Wai

Wai forecasts coastal water levels. A Streamlit dashboard (`app.py`) and batch
replays ask `ForecastPipeline` for a forecast at a station; the pipeline runs
numerical experts in one of three modes and returns one result, `available` or
`unavailable`. Observations come from two providers through adapters that cache;
evaluations, replays and trainings write the reports the dashboard shows. Beside all
that, `Hohonu-1/` serves its own tide models over an HTTP API and runs them on a
schedule.

This directory holds TLA+ modules that model the parts of that code in which
control, concurrency or failure is hard to get right, the TLC configurations
that check them on small instances, and theorems proved with TLAPS for every
value of the constants. `PROJECT.json` lists the runs, the mutants that show that
each property can fail, the lines of code every definition stands for, the
hazards and the findings.

Paths below are relative to the repository's root.

## The system and its parts

| Part | State it keeps | Operations | What is hard |
|---|---|---|---|
| Forecast pipeline (`src/forecasting/pipeline.py`) | the result under construction: forecasts used, fallback flag | `run` in mode mini, ultra or legacy | several exits each of which may, must or must not try the safe fallback |
| Ultra conductor (`src/orchestration/ultra_conductor.py`) | a transcript of turns and all that is derived from it: candidates, verifier findings, counters; a forecast cache; a deadline | one turn per action of a policy; replans in a child workflow that is merged back; fallback with its own verification | budgets with reserves, renumbering of turns in the merge, five places that ask for the fallback, a deadline that may pass anywhere |
| Action masks, executor, verifiers (`action_masks.py`, `ultra_executor.py`, `src/experts/verifiers/`) | none of their own | which actions are feasible; run one, with a timeout; judge a candidate | access lists, cache reuse, the order of early returns |
| Mini cascade (`cascade.py`) | results so far, call budget | primary expert, assessment, second stage | reuse of known forecasts, result order, reserve for the fallback |
| Expert executor (`executor.py`) | thread pool, futures | sequential or parallel batches with a timeout | abandoned threads, late answers, cancellation, one deadline for several futures |
| Combiner, verifier (`combiner.py`, `verifier.py`) | none | one forecast of several; accept or reject | numerical |
| Prepared data, contexts, numerical experts (`prepared.py`, `context.py`, `src/experts/`) | sorted frames, indexed once | cut off at the forecast origin; forecast | leaking the future by one sample; gaps, lags and trends at the edge |
| Skill store (`skill_store.py`) | exponentially weighted records at four levels, a JSON file | update, estimate, save, load | first observation, failures, hierarchy, torn files |
| Replay and router training (`src/evaluation/`) | a table of origins | walk a history, teach the store, train and test routers | leaking the future between origins |
| Data providers (`src/data/`) | chunk cache, station snapshot | paged requests with retries, rate limits, caching | retries on the last attempt, stale chunks |
| NOAA evaluation (`scripts/evaluate_noaa_public.py`) | three kinds of report | evaluate stations and storms, live or with mock data | mock data in a live report, a run that fails half way |
| Evidence (`Makefile` and its scripts, `src/evidence.py`) | reports that quote each other, a fingerprint of the source | one target per report, a freshness check | order of targets, edits and interrupts between steps |
| Dashboard (`app.py`) | caches shared by all sessions, two of them for ever | live view, refresh, backtest page | what is shown is older than, or not, what was asked for |
| Prediction API (`Hohonu-1/api_server.py`) | deque of admission stamps, semaphore of forecast slots | authorise and limit, predict, batch predict | clock read outside the lock, slots released on every path |
| Interval scheduler (`Hohonu-1/pipeline_scheduler.py`) | `manifest.csv`, one JSON file per pass | a pass per interval | a write that fails or a process that stops between two writes, name clashes |
| Tide pipeline and engine (`Hohonu-1/hohonu_driver_script.py`, `tide_ml_engine.py`) | the station table `hohonu_stations.tsv` | prepare a node's series, forecast it with a search over candidate models | an unlocked table that several processes rewrite; candidates that fail inside a search |
| Alerts and metrics (`src/alerts.py`, `src/models/metrics.py`) | none | exceedance episodes, matching | gaps, boundaries |
| Models, features, policies, learned router | fitted models, files | fit, predict | numerical code |

They interact by calls. The dashboard, `historical_replay.py` and the scripts call
`ForecastPipeline.run`. Mini calls `AdaptiveCascade.execute`, which calls
`run_experts`, which starts threads. Ultra calls a policy, the masks and the
executor in turn; a child workflow shares with its parent only what is copied in
(the forecast cache) and merged back (transcript, cache). The API's handlers run
in server threads and share the rate limiter and the semaphore. The scheduler is
one process that shares its output directory with its own earlier launches. The API,
the scheduler and the command lines of `Hohonu-1/` all call `run_pipeline` and share its
station table. The adapters' cache files are shared by every process that fetches;
`make` targets and the dashboard share the files under `reports/`, and the dashboard's
sessions share the caches of one process.

What makes each part correct, in the words of its code and docs: a forecast is
released only after an independent verifier accepted it; budgets are never
exceeded and the reserved fallback is really there when it is needed; a run
always ends; a hanging expert does not hold a caller that set a timeout; no work
is done twice; the rate limit holds and every slot comes back; the two records of
a scheduled pass tell the same story; no forecast of a replay and no test of a router
has seen its future; a live report contains no mock data; a fetch answers with its
whole window and ends; evidence called fresh was made from the source it names; a page
shows what was selected.

`PROJECT.json` names every component with its files, its status and why a part is
left out, and under `hazards` the lines where these things could go wrong.

## Modules

| Module | Models | Uses |
|---|---|---|
| `ForecastRun` | what `ForecastPipeline.run` promises in every mode (abstract) | |
| `UltraConductor` | `UltraConductor.run` with masks, executor, verifiers and child workflows | `ForecastRun` |
| `MCUltraConductor` | instances for TLC | `UltraConductor` |
| `UltraConductor_proofs` | all safety properties of Ultra and its refinement of `ForecastRun` | `UltraConductor` |
| `MiniForecast` | `AdaptiveCascade.execute`, `run_experts`, `ForecastPipeline._run_adaptive` and `_safe_fallback` together | `ForecastRun` |
| `MCMiniForecast` | instances for TLC | `MiniForecast` |
| `MiniForecast_proofs` | all safety properties of Mini and its refinement of `ForecastRun` | `MiniForecast` |
| `ForecastApi` | the rate limiter, the semaphore and both prediction handlers | |
| `MCForecastApi` | instances for TLC | `ForecastApi` |
| `ForecastApi_proofs` | all properties of the API | `ForecastApi` |
| `IntervalScheduler` | the passes of `main`, the manifest and the JSON files | |
| `MCIntervalScheduler` | instances for TLC | `IntervalScheduler` |
| `IntervalScheduler_proofs` | all properties of the scheduler | `IntervalScheduler` |
| `TideSearch` | the candidate search of `tide_ml_engine.py` and its four strategies, as operators | |
| `TidePipeline` | `run_pipeline` and the combo benchmark, with the station table they share | `TideSearch` |
| `MCTidePipeline` | an instance for TLC | `TidePipeline` |
| `TidePipeline_proofs` | types and the shared datum | `TidePipeline` |
| `ProviderFetch` | a fetch of either adapter: chunks, cache files, retries | |
| `NoaaEvaluation` | runs of `evaluate_noaa_public.py` and other clients of the adapters | `ProviderFetch` |
| `MCNoaaEvaluation` | an instance for TLC | `NoaaEvaluation` |
| `NoaaEvaluation_proofs` | all safety properties of fetches and evaluations | `NoaaEvaluation` |
| `LiveMonitor` | the dashboard's live view: sessions, cached functions, catalog and its sync | |
| `Evidence` | the make targets, the reports and the freshness check | |
| `Dashboard` | the live view and the backtest page beside the make commands | `LiveMonitor`, `Evidence` |
| `MCDashboard` | an instance for TLC | `Dashboard` |
| `Dashboard_proofs` | all properties of the live view, the evidence and the page | `Dashboard` |
| `PreparedStation` | cutoffs, contexts and experts, as operators on sets of ticks | |
| `SkillStore` | records, updates and estimates, as operators | |
| `HistoricalReplay` | the replay and the router training on its table | `PreparedStation`, `SkillStore` |
| `MCHistoricalReplay` | instances for TLC | `HistoricalReplay` |
| `HistoricalReplay_proofs` | all properties of the replay that hold | `HistoricalReplay` |

### ForecastRun

`status`, `obtained` and `released` are what a caller can tell about a run: it has
no result yet, one made of forecasts the run obtained, or an unavailable one made
of none; forecasts are never forgotten and the result is made in one step. Both
modes are shown to implement it. In Ultra the forecasts are the candidate turns of
the transcript and the released one is the accepted candidate; in Mini they are
the successful results of the cascade and the fallback's, and the released ones
are those behind the combination.

### UltraConductor

`log` is `full_message_transcript`; all that `CoordinationState` derives from it
(candidates, findings, counters, turns left) is an operator on the transcript, so
that parent and child use the same definitions. `phase` says where `run` stands:
in its loop, in a child workflow, in `_attempt_safe_fallback` called from the loop
("fallback") or after it ("closing"), or waiting for the fallback's verification.

| Action | Code |
|---|---|
| `Turn` | one iteration of the loop: mask, default access list, executor, append, reaction to the verdict |
| `LeaveLoop`, `PolicyStops` | the loop's exits |
| `ChildTurn`, `MergeChild`, `EmptyChild` | `_enter_bounded_replan` and `_merge_child_transcript_into_parent` |
| `RunFallback`, `VerifyFallback`, `SkipFallback` | `_attempt_safe_fallback` |
| `GiveUp` | the tail of `run` |
| `DeadlinePasses` | the wall clock, at any moment |

The policy is any policy: every feasible action may be taken and, with
`PolicyMayDecline`, none. The bootstrap heuristic and the learned head are two of
these, and the masks that look at the forecast context only remove actions. A
verifier may return any verdict and recommendation its code can return; an expert
may succeed or fail. What holds here holds for every context and every threshold.

### MiniForecast

One module, because the cascade, its thread pools and the pipeline share one
result: the budget of the cascade and the fallback call of the pipeline are one
budget, and a thread the executor abandoned is still running when the pipeline
combines the others. `job` is the state of every future, `batch` the experts handed
to `run_experts`, `runs` what was recorded of them, `expired` whether the time of the
running pool is over. `Start` and `Finish` are the pool's threads, `TakeResult` and
`TimeOut` the conductor thread in `future.result`, `Collect` the shutdown of the pool.

### ForecastApi

`events` is the limiter's deque, `stamp` the time a request read *before* it takes the
limiter's lock. Between the two a thread may be preempted for at most `MaxDelay`, so
requests enter the deque out of order. `free` is the semaphore.

### IntervalScheduler

`manifest` and `artifacts` are what is on disk, `step` where the process stands.
Opening a file and writing the buffered text are two steps; `Stop` ends the process
between any two steps (a kill, an interrupt, or an exception nobody catches) and
`Launch` starts it again on the same directory. The code reads the clock once for the
interval and once more for the `run_id`, so two passes of one process can get the
same `run_id`. `passes` and `headerLost` are history variables.

### TideSearch and TidePipeline

`table` is the file, as the datum of every node that has a row, `torn` says that it was
opened and not written since, `place` where it is found. `step` is where each request
stands in `run_pipeline`; requests of one process die with it (`Stop`).

| Action | Code |
|---|---|
| `Nearest`, `NearestFails`, `Recompute` | the nearest station and its observations; once, after an error, the table is built anew |
| `Recorded`, `Estimate` | `get_mllw_scalar`, or an estimate that is recorded in the table *as it was read* |
| `Open`, `Write` | `to_csv`, which empties the file before it writes it |
| `Clean` | quality tests, the window, imputation |
| `Var`, `Benchmark`, `Rolling` | the lanes that are no search |
| `Score`, `Stack`, `Fit` | `run_auto_ml_search`: scores, hold-out forecasts of the stack, answer |
| `...Raises` | every place an exception can leave `run_pipeline` |

`Answer` is what the search returns. A forecast keeps the models it is blended of and
*whose* weight each was multiplied by, so that a weight that slips to another model when
one fails can be seen. Scores are free; only their order and proportion matter.

### ProviderFetch and NoaaEvaluation

`cache` has the records of every cache file, `torn` those opened and not written since.
`at`, `fetch`, `chunk`, `attempts`, `payload` and `frame` are the locals of
`_fetch_product` and of `fetch_observations`, which differ in how they cut a window
(`DateChunks`, `TimeChunks`) and in what they take for an error. `ReadCache`, `Miss`,
`NoaaAnswers`, `HohonuAnswers`, `Refused`, `OpenCache`, `WriteCache`, `Canonical` are the
steps of one chunk. Time passes between any two, so a chunk may be asked for before its
last observation was made. `NoaaEvaluation` adds the runs: mode, the two frames of the
window at hand (`Ask`, `Fetched`, `Offline`, `StandIn`, `FetchFails`), `Merge`, and the
report of its kind (`Report`, `WriteReport`), with `Kill` at any step.

### LiveMonitor, Evidence and Dashboard

`entries` is what `st.cache_data` stores of each cached function, `clears` how often it
was emptied. Streamlit is not in the repository; the comment at the head of `LiveMonitor`
says what is assumed of it: one lock per key, a second look under it, no storing of
exceptions, and a clear that drops locks as well, so that a call in progress stores its
value after the clear. `Select` and `Refresh` start the script of a session, `Look`,
`Enter` and the answers are its calls, `Show` the page. `Sync...` is
`scripts/sync_noaa_stations.py`.

In `Evidence`, `Recipe` lists for every make target, and for the NOAA evaluation with
`--allow-mock`, which is given by hand, the files each script writes, in order, and those it
needs, parses if they are there, and reads. At the start there are no reports or those under
version control (`Committed`: all but the two of evaluations that ask NOAA). A report is the source it was
computed from and, for each report it quotes, the source of *that*. `Make`, `Start`,
`Read`, `Open`, `Write` are a command's steps, `Cut` an interrupt, `Edit` a change of the
source. `Fresh` is `check_report_freshness`.

`Dashboard` runs both and adds the backtest page: `load_summary` and `load_metrics` are
cached for ever (`kept`), the verdict on freshness for a ttl (`verdict`).

### PreparedStation, SkillStore and HistoricalReplay

A series is the set of its ticks. `Context` is `context_from_prepared`; `Forecasts` and
`Reads` say for each of the six experts when it has a forecast and which observations it
is computed from; `Eligible` says which of them the cascade may ask, by horizon (the limits
of twelve and 48 hours and of seven days in the experts' specifications), sources, quality
and age. `Updated` and `Estimate` are the store's arithmetic on scaled integers.
`Prepare`, `Predict`, `RunPipeline`, `Learn` are the steps of one origin, `TrainRefused`,
`Train`, `Evaluate` what is done with the table. The `asOf` of a record is a history
variable: the time of the newest outcome in it.

## What the runs check

`expect` is `pass` unless said otherwise.

**`ultra`** (two workers, a thinker, two verifiers, turn limits 1, 2, 3, 5 and 7, about
1.9 million states).

- `VerifiedRelease`: what is released is usable, in the transcript, and was judged
  ACCEPT by the last turn, also after a merge renumbered that turn.
- `TurnBudgetKept`: no transcript outgrows its limit, and a child leaves the parent's
  reserve alone.
- `FallbackKept`: a run that gives up before its deadline has tried the fallback
  (`FallbackBeforeGivingUp`), never twice (`FallbackOnce`), and the call reserved for it was
  there, but for one more budget of calls that each merged child may have spent
  (`FallbackCallReserved`; see the finding `ultra_physical_limit`).
- `ComputedOnce`: no forecast is computed twice, parent and child together.
- `CausalAccess`, `TranscriptOnlyGrows`: every turn saw earlier turns only, in the
  numbering of the transcript it is in; nothing is rewritten.
- `Terminates`: every run ends.
- `ImplementsForecastRun`: the refinement.

**`mini`** (up to three ranked experts, every budget of 1 to 3 calls with and without
reserve, timeout and parallel stage, one or two threads, every set of known forecasts;
about 1.7 million states).

- `ResultsInPlanOrder`: reuse and parallelism do not reorder the results the
  assessment reads.
- `CallBudgetKept`: abandoned calls and the fallback included.
- `StageAccounted`: an expert that answered before its time was up is not reported late
  because the conductor was waiting for another one (`TimelyAnswerKept`), and after a
  stage nothing is left to start (`NoStrayCall`).
- `CalledOnce`: an expert is called once, and never when its forecast was given.
- `FallbackRight`: the fallback is used alone, said to be used exactly when it was
  (`BaselineAlone`), and tried before giving up (`FallbackBeforeGivingUp`). A combiner that
  raises is the exception the code makes.
- `Answers`: with a timeout the run ends although experts hang for ever.
- `ImplementsForecastRun`: the refinement.

**`api`** (four requests, two admissions per window of 3, one slot, batches of two,
delay 1, clock to 6; about 1.9 million states up to symmetry).

- `WindowKept`: in any period that is `MaxDelay` shorter than the window no more than
  `Limit` requests pass, although stamps are out of order.
- `RefusalJustified`: a request is refused only if the limit was used up in the window
  before it, stretched by the delay; an old entry stuck behind a newer one does not lock
  requests out.
- `SlotsAccounted`: every slot is free or held by one running request.

**`scheduler`** (two nodes, two passes, two launches, two ticks to the second; about
600 thousand states).

- `RecordsKept`: a node has at most one row per pass, and a JSON file that was written has
  the row's status, although a failing append changes the status half way
  (`RecordsAgree`); a pass's file is lost only to a later launch in the same second
  (`PassKept`); the header is the first line, and missing only when the append that
  created the manifest failed or was cut off (`HeaderFirst`).

**`tide`** (two requests of the server and a command line, two nodes, one kill, five
candidates of four families with ties, any of three scores).

- `SameDatum`: two forecasts of a node are converted with one datum, unless the table was
  written by a request that had read it before the datum was recorded, or was rebuilt. That
  the former happens is noted under "Also observed".
- `AnswerMatchesStrategy`: a search answers with models it scored, each multiplied by the
  weight computed for it although failing ones drop out on the way; `best` and
  `ensemble` pass over no better one.
- `MixIsBestPair`: whatever `--mix-size` allows, the mix ends with the two models of the
  lowest RMSE. Not written in the code: it follows from how a combination is scored, and
  makes the option idle.

**`noaa`** (one run in each mode over a window of two chunks and a storm inside it, one
client of either adapter, two attempts, one kill; about 560 thousand states).

- `LiveReportIsLive`: the live metrics file holds every window and no mock data, whatever
  failed, and whatever other modes wrote.
- `FetchAnswers`: a fetch that returns has its window's records, once and in order; one is
  missing only when a cache file was asked for before its observations had been made. Such
  a file answers later requests too; nothing in the code or its documents says otherwise.
- `FetchEnds`: a fetch ends whatever the provider answers.

**`dashboard`** (two sessions, two stations, a refresh, a sync; two commands, two edits, or
one and an interrupt).

- `ShownAsRequested`: what is shown is of the selected station, requested at most the ttl
  of its cache and one fetch ago, and after Refresh after the press. When another session
  was fetching the station then (`rival`), its answer may be stored after the caches were
  cleared: what is shown may be older than the press by that one fetch, and no more. With
  OFS the snapshot is that young when the script turns to the guidance; it then waits for a
  lock that other sessions may take first, any number of times, and nothing in the code
  bounds that.
- `FreshMeansRetrained`: evidence that passes the check has a model and an ablation trained
  from the current source, although only a fingerprint in the metadata is compared. Edits
  during training and trainings cut off are outside (`tainted`): the check cannot see them.
- `FreshPage`: what stands beside a fresh verdict was made from the source the verdict
  names, as long as no script has opened those files since they were read (what may stand
  there otherwise is noted under "Also observed"). Of a model whose training was under way,
  cut off or overtaken when the verdict was taken, it says nothing.
- `DemoComplete`: after `make demo` every report quotes the others as they are, the reports
  of evaluations with NOAA's data included, whether there are any or not.

**`replay`** (six-tick histories with gaps, stale, failed and missing observations, two
datums, lags 0 and 2, horizons 1 to 3 around the limits of the experts, a tolerance below
and as long as the horizon, both modes, with and without teaching; about 410 thousand
states).

- `NoLookahead`: no forecast is computed from an observation of after its origin, nor from
  one newer than the maximum input time the leakage audit looks at. The actual a row is
  scored against is later than its origin when the tolerance is below the horizon, as it is
  by default (6 of 360 minutes); `HistoricalReplayConfig` does not require it.
- `SkillFollowsRows`: every record counts the outcomes of its level, failed ones too; the
  estimate of an expert that has not failed is between its prior and its measured errors.
- `TestedForward`: routers are tested on origins later than all they were trained on; the
  two parts are all the usable rows, and the second is not empty.

Every passing run also checks its module's `TypeOK`.

### Findings

Each is a run with `expect: violation`: TLC finds a behaviour of the code that a doc,
a comment or a test rules out.

| Run | Statement | What the code does |
|---|---|---|
| `ultra_fallback_verified` | "Ultra attempts `safe_fallback` once and independently verifies it" (`docs/forecast_orchestrator.md:136`) | a policy may take the fallback as an ordinary turn; when no action is feasible later, the attempt returns at once and a usable fallback forecast is never verified |
| `ultra_physical_limit` | "Global and per-call limits enforced by the Ultra conductor" (`src/orchestration/protocol.py:68`) | a child workflow counts physical calls from zero |
| `mini_per_expert_timeout` | "per-expert timeout handling" (`src/orchestration/executor.py:9`) | a parallel batch has one deadline; with fewer threads than experts a queued expert times out before it started |
| `replay_future_skill` | "skill accrues forward-in-time", "no future leakage" (`scripts/benchmark_orchestration.py:307`) | the store is taught the outcome at origin + horizon before the next origin, so with a horizon longer than the step its weights rest on levels not yet observed |

### Also observed

Seen while modelling. The models behave like this; no run is spent on it.

- `ultra_conductor.py:356`: the merge renumbers a synthesis's access list and not the input
  turns inside its result, so a later verifier is given unrelated turns
  (`tests/test_ultra_coordination.py:96` expects a synthesis to name the turns it saw).
- `pipeline.py:231`: `_safe_fallback` calls the fallback expert even when its forecast was
  among those given (`docs/orchestration_optimization.md:105`: "pipeline reuses (cache
  hits), no second run").
- `tide_ml_engine.py`: `_score_candidate` makes estimators without lags, so the `lstm` and
  `pinn` candidates are always dropped. The rolling backtest passes `qa_metric_weights` to a
  function whose parameter is `weights` (line 192) and reports `error` as soon as it scores
  anything, where `Hohonu-1/README.md:123` promises rows. The mix's score is divided by its
  number of models, see `MixIsBestPair`; `selected_rmse` is that quotient.
- `Hohonu-1/`: `load_hohonu_devices.run` parses a TSV file with `json.load` and always
  raises. `get_mllw_scalar` reads `./data` only, while `_read_device_table` accepts
  `../data` too. The search for the nearest observation has no tolerance. A VAR forecast
  with too few rows is `None` and reported `ok`.
- `hohonu_driver_script.py:273`: `get_mllw_scalar` reads the whole station table, estimates,
  and writes the whole table back without a lock. Of two requests that record the data of
  two nodes after both have read it, the first one's datum is lost, and the next request
  for its node estimates another (line 248: "we run TAD and record MLLW in the database").
- `src/data/`: a payload without records is cached before it is looked at, and fails every
  later fetch of that chunk. In `app.py` a catalog that came from the bundled copy is cached
  like a live one.
- `app.py`: the caption "refresh requests NOAA `water_level`" (line 1689) does not hold for a
  session that is served the answer to another's request of before the press. An absent
  metrics file is cached for the life of the process (line 146): the page goes on asking to
  "Run `python -m scripts.train_baseline` then refresh." (line 2751) after that was done,
  beside a verdict that calls the evidence fresh.
- `skill_store.py`: a failed first outcome leaves a mean of zero with full weight; the next
  error is then blended with a value nobody measured, and the estimate falls below all of
  them. The bound in `SkillFollowsRows` therefore leaves out experts that have failed.
- `historical_replay.py`: exhaustive mode calls `expert.forecast` without a guard.
  `router_training.py:434`: targets of the training rows reach past the first origin that is
  tested; `TestedForward` is about origins, as the docstring is.
- `Makefile`: the targets of `demo` do not depend on each other; `make -j demo` would run
  them in any order. The fingerprint of the evidence includes the table of `Hohonu-1/`,
  which its pipeline rewrites.

## Bounds, and why they are enough

- *Ultra.* A child needs a verifier turn before it, which needs a worker turn; two turns
  are reserved, and three are left to the child, enough for a forecast and its verdict and
  for a synthesis of two workers: seven turns hold all of that. Limits 1 to 3 are the
  edges at which the fallback fits without its
  verification, exactly, and with one turn before it. Two workers are what synthesis
  needs; two verifiers have between them every verdict and a recommendation of the
  fallback, of the synthesis and of a worker. `MaxDepth` is 1, the code's default.
- *Mini.* Two escalation experts (the default) behind a primary, one or two threads:
  a batch may be smaller than, equal to and larger than its pool. A budget of 1 is the
  edge at which the reserve makes the cascade's budget zero and the code raises it to one.
- *API.* The limit is 2 so that an entry can be stuck behind a newer one and four
  requests refill the window; the clock runs over two windows.
- *Scheduler.* One second is the shortest interval the code allows; with two ticks to
  the second, two starts one interval apart may read the same second for their `run_id`.

- *Tide.* Two requests of one process and one of another are what a lost update and a kill
  between two writes need. A request shares nothing once its series is converted, so
  `ForecastAlone` explores what follows with one request at a time. Row counts
  are below all thresholds of the code, between those of the stack and of the benchmark,
  and above all; the grid has two candidates of one family and one that is always dropped,
  and leaves enough for a mix of three or four.
- *NOAA.* Two chunks are what an overlap, a gap and a partly stale window need; one tick of
  time puts a request before and after the last observation of a chunk.
- *Dashboard.* Entries live one or two ticks and a fetch takes up to one, so every cache
  expires, a fetch may outlast another's entry, and a snapshot that `Refresh` left in its cache
  would be older than the press allows. `Apart` explores the parts that share no
  variable one at a time: the bundled catalog with calls for the catalog, the page with
  commands that are not cut off and one edit, the live view without commands; a command that
  is cut off is explored beside one edit.
- *Replay.* Six ticks hold four origins, three of which have rows whose outcomes reach the
  store before the next. The decay is the code's 0.85 and errors are multiples of 400, so
  that the first two blends are exact; later ones round as integers do.

Bounds of the models that the code does not have: `MaxRanked`, `MaxBatch` (4 in the
code), `MaxDelay`, `MaxTime`, `MaxLaunches`, `MaxStops`, `MaxKills`, `MaxFetch`,
`MaxRefresh`, `MaxSyncs`, `MaxEdits`, `MaxCommands`, `MaxCuts`, `MaxRmse`, `VarWindows`, and
`MaxRuns` for an unlimited scheduler.

## Fairness

- *Ultra*: weak fairness of the conductor's steps. It is one thread, and every expert it
  waits for is bounded by the executor's timeout. `Terminates` needs no fairness of the
  deadline: the turn limit ends the run.
- *Mini*: weak fairness of the conductor thread and of the deadline of a running pool.
  None of the experts: `Finish` may never happen. `Answers` is stated for budgets with
  `per_expert_timeout_ms` only; the default is `None` and then nothing bounds a hanging
  expert (`deadline_ms` is declared and never enforced). The safe fallback after the
  cascade is called in the conductor thread without a timeout; the model lets it
  answer, as the expert does arithmetic on data at hand.
- *NOAA*: weak fairness of each fetcher's steps. A request has a timeout, and every sleep
  between attempts is a number of seconds; nothing in a fetch waits for another process.
- *API, scheduler, tide, dashboard, replay*: safety only. A request waits for nothing (a
  busy API answers 429), `run_pipeline` has no bound the code states, and a session or a
  shell goes on when its user does.

`CHECK_DEADLOCK FALSE` stands in every configuration because each system stops: a run
ends, requests are answered, a process finishes or is stopped.

## What is proved

Every theorem holds for every value of the constants that satisfies the named assumptions of
its modules, which TLC evaluates on the instances. The assumptions say what the arguments of
the code are (limits are numbers, roles and families are disjoint, a command is a target of
the Makefile) and, of values that stand for "none", that they are no member of the set
beside them.

| Module | Theorem | Establishes |
|---|---|---|
| `UltraConductor_proofs` | `TypeCorrect` | `TypeOK` |
| | `ReleaseIsVerified` | `VerifiedRelease` |
| | `TurnBudgetIsKept` | `TurnBudgetKept` |
| | `TranscriptGrows` | `TranscriptOnlyGrows` |
| | `AccessIsCausal` | `CausalAccess` |
| | `ForecastsComputedOnce` | `ComputedOnce` |
| | `FallbackOnceAndReserved`, `FallbackIsKept` | `FallbackKept` |
| | `UltraImplementsForecastRun` | the refinement of `ForecastRun` |
| `MiniForecast_proofs` | `MiniTypeCorrect` | `TypeOK` |
| | `ResultsFollowPlan` | `ResultsInPlanOrder` |
| | `MiniBudgetIsKept` | `CallBudgetKept` |
| | `StagesAreAccounted` | `StageAccounted` |
| | `FallbackIsRight` | `FallbackRight` |
| | `ExpertsCalledOnce` | `CalledOnce` |
| | `MiniImplementsForecastRun` | the refinement of `ForecastRun` |
| `ForecastApi_proofs` | `ApiTypeCorrect` | `TypeOK` |
| | `SlotsAreAccounted` | `SlotsAccounted` |
| | `WindowIsKept` | `WindowKept` |
| | `RefusalsAreJustified` | `RefusalJustified` |
| `IntervalScheduler_proofs` | `SchedulerTypeCorrect` | `TypeOK` |
| | `SchedulerRecordsKept` | `RecordsKept` |
| `NoaaEvaluation_proofs` | `NoaaTypeCorrect` | `TypeOK` |
| | `LiveReportStaysLive` | `LiveReportIsLive` |
| | `FetchesAnswer` | `FetchAnswers` |
| `TidePipeline_proofs` | `TideTypeCorrect` | `TypeOK` |
| | `DatumIsShared` | `SameDatum` |
| `Dashboard_proofs` | `DashboardTypes` | `TypeOK` |
| | `LiveViewIsRecent` | `ShownAsRequested` |
| | `FreshEvidenceIsRetrained` | `FreshMeansRetrained` |
| | `FreshPageIsOfItsSource` | `FreshPage` |
| | `DemoIsComplete` | `DemoComplete` |
| `HistoricalReplay_proofs` | `ReplayTypeCorrect` | `TypeOK` |
| | `ReplayLooksBack` | `NoLookahead` |
| | `RouterTestedForward` | `TestedForward` |
| | `StoreFollowsRows` | `SkillFollowsRows` |

Most of these properties are not inductive. What each proof adds, and why:

**Ultra.** A release reads the accepting message of the last turn, and after a merge that
message was written by the child under other numbers. `ReleaseInv` therefore adds that in
both transcripts *every* ACCEPT is by a verifier, on an earlier usable candidate that it had
in its access list (`SoundVerdicts`), and that a run waiting for the fallback's verification
has the fallback's forecast as its last turn. `AccessType` and `ResultType` say what the
masks and the executor can return, `AppendSound` that appending such a message keeps
`SoundVerdicts`, and `MergeSound`, the heart of the argument, that moving the child's turns
by the length of the parent's transcript does; one lemma per action then gives the step.
`BudgetInv` adds to `TurnBudgetKept` that a run waiting for the fallback's verification has a
turn left: `VerifyFallback` appends without looking, and relies on what `RunFallback`
checked. A child's limit is computed from the parent's turns, which do not change while it
runs, so a merged transcript fits by addition. `CausalInv` is carried through a merge by the
same shift of numbers, and adds what a message took its inputs from. `CacheInv` says that a
transcript's computed forecasts are in its cache, that no forecast is in both transcripts,
and that the child starts from the run's cache, which the run does not use meanwhile.
`FlagInv` says that the fallback has a turn exactly when it was attempted and none in a
child, and that a child keeps within one budget of calls (`MergedCalls`: a merge adds the
calls of its parts), `ReserveInv` that a turn is left as long as it was not. `FallbackIsKept` states all of
`FallbackKept` for a positive turn reserve: the code always reserves one turn for the
fallback and one for its verification, and with none a run could use up its turns before it
asks. The refinement needs, besides `ReleaseInv`, only that no step loses a candidate and
that a finished run takes no step (`StepKeeps`).

**Mini.** `OrderInv` says that the results, and behind them the experts requested, are a
prefix of the plan, within the budget of calls. `StageInv` and `OutsideInv` say what a future
may be in during a batch and outside one: no result waits for a queued future, a running one
was reported timed out, and what is outside the batch is not queued. `PoolInv` joins them
with `TimelyAnswerKept`. `FallbackInv` carries what the pipeline knew when it combined to the
point where the fallback is used. The lemmas about `Selected`, `Rank` and `Nth` say what a
list comprehension with a condition returns: its elements, in order, each once.

**API.** `LimiterInv` relates the deque to the requests admitted: the deque holds admitted
requests, each once, in the order of admission; one that is no longer in it was admitted
`Window` - `MaxDelay` ago or more; a stamp and its admission are at most `MaxDelay` apart.
`WindowKept` then follows because `Limit` + 1 admissions inside the period would all still
have been in the deque when the last of them was. `SlotInv` counts the free slots and the
handlers that hold one.

**Scheduler.** `ProgressInv` says which nodes of the pass at hand have their row and that a row
to be written says what the payload says; `NamesInv` that passes of one launch have file names
of increasing counters and that a file belongs to the pass of its name; `HeaderInv` when the
header is missing; `ReportsInv` relates a JSON file to the rows of its pass.

**NOAA.** `FetcherInv` says that a waiting fetch has the records of every chunk before the one
at hand, each complete or from a file noted as asked for too early; `FetchInv` adds that a
cache file that is not noted has nothing or its whole chunk. `RunInv` and `ReportInv` follow
the origin of the data from the fetch to the report: every result says of itself whether it
is mock data, and a run about to write the live file has none that is.

**Tide.** `RequestInv` says what a request knows at each step, `DatumInv` that the file holds
the datum with which a node's series were converted, unless the node was raced, and that a
request about to record has, of every node nobody wrote since it read, what the file has.

**Dashboard.** The live view (`LiveInv`): `EntryInv` bounds the time between a request and the
storing of its value, and `SessionInv` what a script has been given when it turns to the
guidance. `RefreshInv` is the argument for Refresh: once a script started by it has cleared a
cache, with no other session fetching its station at that moment (`Renewed`), every entry
for the station *and every fetch under way for it* is of after the press, so that whatever
is stored later is, too. Types need `ClearInv`: a press clears each cache at most once, so
the clears already made and those still due (`Due`) are no more than the presses.
The evidence: `ShellInv` says what the running script has read and is about to write,
`TrainInv` that the files a training writes before the metadata are of the source it loaded.
The page: `KeptInv` and `VerdictInv` say that a kept file that is not behind is the one on
disk, and that a file the verdict is not behind of is of the source it names; a step of the
shell breaks neither, because it opens a file before it changes it (`OpenedFirst`).
`make demo`: `Place` numbers the writes, `QuoteInv` says that reports quote what comes
earlier (for every make command, not only `demo`), and `DemoInv` that all that was written
before the place of the running script is good: of the current source, and quoting the
others as they are. `RecipeOutputs` and `DemoWrites` are the tables of the targets as facts.

**Replay.** `RowSound` bounds what a row read by its origin, from the facts that every cutoff
takes a maximum of ticks not later than the origin, and that lags are not negative for the
data a context admits; `OriginInv` ties the forecasts at hand to the origin. `OrderInv` says
that rows are in the order of their origins, so that both orders in which the code counts
folds, by position and by time, have the same rows later and the stable sort of
`evaluate_router_policies` changes nothing. `SkillInv` follows the store along the rows
(`RowAtHand`): the count at each level is the number of outcomes taught, and a mean is
between two measured errors (`FiniteIsBounded` gives the two).

Only model-checked, and beyond the provers:

- liveness under fairness and anything that needs ENABLED: `Terminates`, `Answers`,
  `FetchEnds`;
- `AnswerMatchesStrategy` and `MixIsBestPair` of the tide search: they compare a choice of a
  minimum over combinations with a sorted sequence and a fold, and would need induction over
  data. The modules proved about avoid folds and RECURSIVE operators; they define what they
  need by sets and functions.

The findings are behaviours of an instance, and as such shown by TLC.

## What is not modelled, and why

- Numbers of a forecast: intervals, medians, confidences, weights. Where they decide a
  branch the branch is a free choice, so nothing here says that a *good* forecast is
  released, only a verified one.
- The legacy mode, kept for regression tests: a straight line. The learned router, which
  runs in shadow mode and steers nothing.
- Coordinator policies: `UltraConductor` holds for any policy, so no particular one matters.
  Their training (oracle search, imitation, CMA-ES) is numerical optimisation over runs.
- The workflow graph: a report beside the transcript; only its accepted node is read, and
  that is in the model.
- Alerts and metrics, models and features, signal processing, the conversions of data
  preparation: arithmetic on arrays. Episodes and their matching are in the plan.
- Digest-checked artifacts (`src/artifacts.py`): a chain of checks on one value.
- Weather products and CSV sources: one request each, without cache or state.
- Layout, charts, and the orchestration benchmarks: presentation, and loops over what the
  other modules model.
- `save` and `load` of the skill store: nothing in the program calls them.
- What a payload of a provider looks like, beyond which ticks it has a record of.

## Plan

1. Done: `UltraConductor` with its proofs, `ForecastRun` and its refinements,
   `MiniForecast`, `ForecastApi`, `IntervalScheduler`.
2. Done: `TideSearch` and `TidePipeline`; `ProviderFetch` and `NoaaEvaluation`;
   `LiveMonitor`, `Evidence` and `Dashboard`; `PreparedStation`, `SkillStore` and
   `HistoricalReplay`.
3. Done: proofs of every safety property of these modules but the two of the tide search.
   Next, if the order of candidates can be stated by ranks instead of a sorted sequence:
   `AnswerMatchesStrategy` and the weights of the stack.
4. `Episodes`: pure algorithms against reference definitions over bounded inputs:
   exceedance episodes and their matching.
5. `UltraConductor`: the workflow graph after a merge (every edge between turns of the
   transcript), with the data-dependent verifiers that the instance leaves out.
