# A verification of the rapid-discovery platform

This directory holds TLA+ models of the programs under `src/`, the TLC
configurations that check them on small instances, and theorems checked by the
TLA+ proof system.  It is written for a reader who has the repository: paths are
relative to its root, `worker.py` means `src/app/worker.py`.

## 1. The system

Four services share one PostgreSQL database (Supabase) and the Alpaca market-data
API; `runtime_scope.py` decides which of them a process runs.

| Service | Process | What it does |
|---|---|---|
| web | `uvicorn app.main:app` | operator API of the historical loader; the Oversold pages (`oversold*.py`); the Intraday pages |
| worker | `python -m app.worker` | the loader's planner and task runner, and the schedulers below |
| edge function | `supabase/functions/intraday-profitability-api` | public API that queues intraday requests |
| browser | `static_intraday/`, `app/static/` | presentation only |

### Components, their state, what is hard about them

| Component | State | Operations | Hard behaviour |
|---|---|---|---|
| **Historical loader**: `main.py`, `planner.py`, `loader.py`, `worker.py`, `features.py` | `rd_jobs`, `rd_tasks`, `rd_bars`, `rd_inventory`, `rd_daily_features`; gzip staging files; locals of the worker loop and of each `process_task` coroutine | create, pause, resume, cancel, recover, retry, delete; plan; claim; download, checkpoint, load, finalise; recover stale leases | coroutines against operator commands; several workers; a crash between a file operation and a commit; lease expiry; retries; orphaned coroutines |
| **Decision tracking**: `oversold_public.py`, `oversold_tracking.py`, `oversold_tracking_day3.py`, the triggers in `sql/oversold_reversion_tracking_v*.sql` | `or_candidates.decision`, `or_decision_tracks`, `or_track_checkpoints` | record a decision, synchronise the track in the background, repair tracks on page load, extend to a third session, capture due checkpoints | read-await-write: a decision changes while an older one is still being synchronised; two collectors capture the same checkpoint |
| **Oversold scans**: `oversold_scan_scheduler.py`, `oversold.py`, `oversold_scan_v33.py`, `oversold_v2.py`, `oversold_public.py`, `oversold_primary_evidence_runtime.py` | `or_scans`, `or_candidates`, the per-process `_scan_lock`, `last_run_date` | scheduled scan (worker and web), manual scan (two routes), bootstrap scan, stale-scan recovery | check-then-insert from two processes; a scan marked stale that is still executing; a restart inside the nightly window |
| **Outcome cycle**: `oversold_outcome_scheduler.py`, `oversold_outcomes*.py`, `oversold_corporate_actions.py`, `oversold_evaluation*.py`, `oversold_calibration*.py`, `oversold_three_session_*.py` | `or_signal_outcomes`, `or_model_runs`, `or_calibration_runs` | nightly chain of capture, review, rescore, calibration; the same chain over HTTP | partial failure of the chain; concurrent chains; calibration's check-then-insert by input hash |
| **Intraday requests**: `index.ts`, `intraday_profitability_worker.py`, `intraday_profitability_tracking.py` | `ip_scan_requests`, `ip_scans`, `ip_candidates`, `ip_outcomes` | queue, claim, fail stale, run, finish, enrol, track | a request declared stale is finished later; a scan that outlives the wait |
| **E-003C evidence**: `e003c_live.py`, `e003c_freeze.py`, `live_maintenance.py` | `live_e003c_*`, `rd_jobs` | capture entry, quotes, exit within minutes; queue ingestion jobs | time windows, retries, check-then-upsert, holes in the ingested days |
| **Quote audit**: `rv30_quote_audit.py` | `rv30_quote_*` | claim a group, fetch, score | a group left running by a crash |
| **Research workers**: `intraday_snapshot_compactor.py`, `blankcanvas_*.py`, `adjusted_daily_audit.py`, `pair_candidate_ledger.py`, `spy_ms001_live.py` | their own tables | batch jobs under advisory locks | restart |
| **Scoring**: `oversold_scoring*.py`, `oversold_features.py`, `intraday_profitability_scoring*.py` | none, but for functions replaced at import | pure functions of a candidate and its evidence, each release wrapped around the one before | gates evaluated before later releases change what they test; names that must agree between releases |
| **Evidence and fundamentals**: `oversold_primary_evidence*.py`, `oversold_sec_fundamentals.py`, `oversold_regulatory_evidence_v2.py`, `oversold_fundamentals.py`, `oversold_live_enrichment.py` | caches | HTTP and parsing | none of its own |
| **Infrastructure**: `alpaca.py`, `db.py`, `core.py`, `config.py`, `models.py` | pool, rate limiter | HTTP with retries, connections, validation | pacing |
| **Presentation**: templates, `app/static`, `static_intraday` | browser | rendering | none |
| **Research SQL, CI, release tooling**: `research/`, `scripts/`, `.github/`, `app/main/` | none | batch | none |

What makes each of them correct is listed with its module below, or in the plan.

## 2. The historical loader

| Module | Code | Content |
|---|---|---|
| `LoaderState` | `sql/schema.sql`, shared predicates | the variables, rows and types, `Init`, `TypeOK` |
| `JobApi` | `main.py:240-346` | one action per operator command |
| `Planner` | `planner.py` | claim a queued job, commit its tasks, fail |
| `TaskRunner` | `loader.py` | one action per transaction or file operation of `process_task` |
| `WorkerLoop` | `worker.py` | recovery, controls, claim, gather, finalise; crashes and lease expiry |
| `Loader` | the composition | `Next`, fairness, the properties |
| `JobLifecycle` | what `main.py` and the README promise an operator | the abstract specification of a job: its states, the moves between them, what becomes of its tasks |
| `MCLoader` | | constants for TLC |
| `LoaderProofs` | | theorems about types, claims, plans, data, the lifecycle and the settling of jobs |

### State

`job` and `task` are the rows of `rd_jobs` and `rd_tasks`.  A status `absent` or
`deleted` stands for a row that is not there.  Of a task row the model keeps
`status`, `claimed_by`, `attempts`, `page_token` (0 is NULL, *p* the token that
asks for page *p*), whether `rows_staged` is positive and `completed_at` set, and the
symbols of the batch.  `fresh` is the heartbeat: a row is fresh until `WORKER_STALE_SECONDS` have
passed.  `bars` holds the keys of `rd_bars` (symbol, window, page), `inventory`
the count in `rd_inventory`, `featured` the bars that the last
`refresh_daily_features` covered.  `file[d][t]` is the staging file of a task on a
disk: the bars in it and whether a gzip member is torn.  `wk[w]` is the program
counter of a worker's loop with the job and the batch it holds, `run[w][t]` the
local variables of a `process_task` coroutine.  Two history variables remember what
the properties must exempt: `overtaken`, the tasks whose lease was released while a
coroutine could still write them, and `raced`, the jobs retried between the count and
the UPDATE of `finalise_if_done`.

### Steps

* A database transaction is one step.  `apply_job_controls` has three statements,
  which see different snapshots, and `finalise_if_done` a SELECT and a later
  UPDATE: each of these is two steps (`ApplyJobControls`, `CancelQuietJobs`;
  `FinaliseIfDone`, `SettleJob`).
* Each append, unlink and transaction of `process_task` is a step, since the
  process may stop between any two.  A coroutine is not over with the commit that
  settles its row: the unlink of the staging file and the event come after it
  (`UnlinkStaging`, `LastEvent`), and after a completing commit they are still in the
  `try`.  When one of them fails (`RunError`), the handler at `loader.py:450` writes
  `failed` over the completed row, perhaps after another worker has settled the job.
* Operator commands that the API answers with 400, 404 or 409 change nothing and
  are no step.
* `Crash` ends a worker with its coroutines and may tear the append that is under
  way.  `RunError` is an exception inside the `try` of `process_task`,
  `RunEscapes` one outside it: that one leaves `gather`, and the other coroutines
  of the batch go on as orphans with a closed Alpaca client (`ClosedClient`).
* `LeaseExpires`, `LeaseOutlived`, `PlannerExpires` and `TokenExpires` are the passing
  of time.  `LeaseOutlived` is the lease of 180 s that ends under its live coroutine:
  a download beats only at checkpoints, and one page with a timeout of 60 s, seven
  retries and backoff can take longer.  Only `bulk_load` and the features beat every
  15 s, while the worker holds the claim.  An overlong call counts as a fault, so that
  a run has finitely many of them; the proofs know no such limit.
* A worker has at most one coroutine of a task, and waits with a claim for an orphan
  it still has of it.  It can only claim such a task after its lease was released
  under the orphan.

Left out: events and counters shown to the user, `conflict_policy=update`, the
`rv30` audit branch and the `research_worker` mode of `process_task`, the
contents of bars.  `attempts` saturates at `max_retries`; a claim beyond it is
never made.

### Properties

| Property | What it says | Where |
|---|---|---|
| `TypeOK` | rows and locals stay in their domains | proved; `loader_data` |
| `ExclusiveClaim` | two coroutines that may write a task's row never meet, and the one that works on it holds its claim until it has completed it; not said of overtaken tasks | proved; `loader_race` |
| `QueuedHasNoTasks` | a job that is queued or being planned has no task | proved; `loader_race` |
| `ImplementsLifecycle` | every step is one of `JobLifecycle`: what only the operator may do, what waits until nobody works on the job, and that a completed task is taken back by the failing tail of its own coroutine only, or once it is overtaken | proved; `loader_race` |
| `SettledJobIsDone` | every task of a completed job was completed or cancelled at some time; what `finalise_if_done` counted still holds in this sense when its UPDATE finds the job running, and the job fails only over a task that is not completed; not said of overtaken tasks and raced jobs | proved; `loader_race` |
| `CompletedIsLoaded` | a completed task that is not overtaken has all its bars in `rd_bars`, and the daily features cover them | proved for workers that keep files on a shared disk; `loader_data` |
| `InventoryExact` | the ledger counts each bar of `rd_bars` once | proved; `loader_data` |
| `StopsAnswered` | a request to pause or cancel is answered | `loader_live` |
| `EngagedIsReleased`, `TaskSettles` | a lease ends; a task of a running job settles | `loader_live` |

Conditions that are part of what is claimed, because the code does not give more:

* `CompletedIsLoaded` holds when staging files are kept on a cancel (otherwise see
  `loader_lost_page` below) and when workers share their disk.  With disks of their
  own TLC finds a task completed without its first page: one worker stops after page 1,
  another stages other pages on its own disk and stops too, and the first goes on at
  the row's page token with the old file it still has.
* Nothing is claimed of an overtaken task.  `recover_stale_tasks` or the operator's
  recover gives it to a second coroutine while the first goes on; no UPDATE of
  `process_task` checks the claim, so either may write over the other, into one
  staging file, and even take a completed row back.
* `SettledJobIsDone` does not ask that the tasks of a completed job *are* completed:
  with the tail of a coroutine still to come, its row may become `failed` when the job
  has been settled already, and stays so.  The bars are loaded all the same.
* Nor does it speak of a raced job.  Between the SELECT and the UPDATE of
  `finalise_if_done` of one worker, another may settle the job as failed, the operator
  retry it, and the late UPDATE mark it completed with pending tasks.  `loader_race`
  has the retry command and reaches this.
* `JobLifecycle` lets a planner that still has a job in hand put it back to work.
  `PlanCommit` respects only `cancel_requested`: a planner taken for dead may
  commit its plan over a job that was cancelled or paused meanwhile.  Pause and
  resume while the first planner is still at its network call even give the job
  to two planners; the second commit revives a job cancelled in between, which
  then completes with cancelled tasks that were never loaded.  With one worker
  none of this happens.
* `TaskSettles` speaks of tasks of a running job.  See the second note below.

### Where the code and its documents differ

`loader_lost_page` is a run that TLC finds violated.  `README.md:74` says that task
restarts are safe.  The file of a cancelled task is deleted, its `page_token` is
not; the reset of the token at `loader.py:323` is made in local variables only, so
after a retry and a stop between the first append and its checkpoint the next
attempt continues at the old token, and the task completes without its first pages.

Two more disagreements were met and have no run of their own:

* `DEPLOYMENT.md:162` promises that no manual intervention is needed after a
  restart.  A stop between the completion of the last task and `finalise_if_done`
  leaves the job running for ever: the loop chooses jobs by their open tasks.
* `loader.py:378` says that a hard stop leaves the staged pages readable.  A torn
  gzip member makes the whole file unreadable for every later attempt, and the job
  fails.

Seen while modelling, without a run of its own: `README.md:83` says that a failed
task retries up to the job's limit, but `attempts` counts claims (`worker.py:188`),
so pauses and restarts spend it too; a failing event after the plan was committed
fails a job that is planned (`planner.py:204-212`), and so overwrites
`cancel_requested`; an unlink or event that fails after a task was completed
marks it failed (`loader.py:85-86`, `435`); an expired page token returns a task to pending without any
limit; `finalise_if_done` writes its event although its UPDATE matched no row.

## 3. Decision tracking

`DecisionTracking` models `update_candidate`, `_ensure_current_tracks` and the
routes of `oversold_public.py`, `sync_candidate_tracking` and
`capture_due_checkpoints` of `oversold_tracking.py`,
`ensure_third_session_checkpoints` of `oversold_tracking_day3.py`, and the trigger
`or_enforce_single_active_symbol` of the V4 migration.

`cand` holds the decision of each candidate and the order of the reviews, `track`
the episodes, `cp` the status of their checkpoints (session 1 to 3 times a kind).
`proc` holds the coroutines: background tasks of a decision, requests of a page
that repairs missing episodes, collectors.  A coroutine interleaves with others of
its process only where it awaits, so what it reads before an await is one step
(`StartSync`, `ReadThird`, `SelectDue`), and the transaction it makes of that
afterwards another (`CreateTrack`, `ExtendThird`, `CaptureGroup`).  The clock counts
sessions; one tick late stands for two hours late.  Prices, notes, and the order in
which a page repairs the symbols are abstracted.  The LIMITs of the queries (500,
200, 100) are above what an instance reaches.

One web process serves the routes.  While two instances overlap in a deployment,
an insert may fail on the partial unique index of active episodes; that is a
failing call.

| Property | What it says | Where |
|---|---|---|
| `OneActiveEpisode` | a symbol has at most one active episode | proved; `tracking_episodes` |
| `StoppedHasNoEpisode` | after a decision that is not tracked, the symbol has no active episode, unless that decision fell into the synchronisation of an earlier one (`crossed`) | proved; `tracking_episodes` |
| `TrackedIsFollowed` | while a page is open, the latest decision gets its episode | `tracking_episodes` |
| `CompletedIsSettled` | a completed episode waits for no checkpoint, not even for those of day 3 it got later | proved; `tracking_capture` |
| `CaptureIsFinal` | a checkpoint captured before it was too late is never taken back, by whatever other collector holds it | proved; `tracking_capture` |
| `DueSettles` | what comes due is captured or missed | `tracking_capture` |

What the condition of `StoppedHasNoEpisode` excludes does happen:
`oversold_tracking_v3_base.js:318` promises that a Watch stock gets no new
checkpoints, but a synchronisation that is waiting for its price inserts the
episode of the older decision after Watch has been recorded.

Collectors run in the worker and behind two routes (`oversold_public.py:394`,
`401`), and their UPDATEs check no status.  What keeps a capture is the clock each
has read before it selected: whoever still holds a checkpoint that was captured in
time had read the clock before that capture, so it finds no bar too late.  A checkpoint
captured after its two hours may still become `missed`, when another collector selected
it then too and got no bar; `timely` remembers the others.

## 4. Oversold scans

`ScanSchedule` models who may insert a row into `or_scans` and what becomes of the
row: the worker's scheduler (`Poll`, `WorkerInsert`, `WorkerDone`, the bootstrap scan
`Boot`), the web route `/api/oversold/run` for an external timer and for the manual
button (`AskScan`), the route `/api/oversold-v2/run` with its advisory lock and its
recovery of stale rows (`AskV2`), and for all of them `execute_scan` (`Complete`,
`ScanFails`, `ScanEscapes`) and the evidence stamp that follows (`Stamp`,
`StampFails`).  A guard and the insert it permits are two transactions in every
caller but the V2 route, so they are two steps.  The database calls of a route
have no await between them, so one request of a web process decides at a time;
the two web processes of the runs are instances that overlap in a deployment.
`Crash` is a crash, a deployment or a graceful stop: each leaves the row running.

A tick is one poll.  Only the ticks around the window 22:45-23:05 of a date
exist, so a row of an earlier date is older than every limit.  Guards and inserts
take no time, scans take any time within their date.

| Property | What it says | Where |
|---|---|---|
| `CompletedIsFinal` | neither a failing stamp, nor the recovery of stale rows, nor a scan declared dead that goes on takes a completion back | proved; `scans` |
| `ManualIsSerial` | the V2 button starts no second scan within the cooldown, whichever process answers | proved; `scans` |
| `EvidencedOnce` | on a date without web scans the worker completes one nightly scan with evidence, in spite of restarts that lose `last_run_date` | proved; `scans` |
| `NightlyUnlessBlocked` | a worker that polled through the window has its nightly scan, unless another was started in the last 30 minutes of it | proved for windows longer than one poll; `scans` |

A window of one poll would be lost to a single failing call.  The 20 minutes from
22:45 hold five polls of the default interval; `OVERSOLD_WORKER_SCAN_POLL_SECONDS`
may be set so that they do not.  The condition on other scans is needed too:
`oversold_scan_scheduler.py:5` says the web service
is removed from the critical path of the nightly scan, but a manual web scan that
runs, or that a deployment left running, keeps the worker idle for the whole
window.  Two more observations have no property.  `last_run_date` is set after a
nightly scan that failed, so the night is not tried again although the window is
still open (`oversold_scan_scheduler.py:145`).  `bootstrap_scan_required` is called
outside the `try` (line 122): a database error there ends the scheduler's task
(`BootFails`) while the worker goes on without nightly scans until a restart.

## 5. Intraday requests and tracking

### Requests

`IntradayRequests` models the public API (`index.ts`, `QueueRequest`), the queue task
of the worker (`intraday_profitability_worker.py`) and the scans, whose source is
bundled in `intraday_profitability.py` as a compressed payload and was read from
there.  `request` is `ip_scan_requests`, `scan` is `ip_scans`, `web` the scans a web
process executes, `reviewed` and `tracked` the marks and the rows of enrolment, `task`
the queue tasks with their program counter, the request and the scan they hold, the
time they have waited and the time no wait has counted.  Each transaction is a step:
claim (with the giving up of stale requests), attach or start, link, the end of a scan,
the poll of a waiter, mark, enrol, finish.  A crash leaves request and scan as they are; a
failing call takes the path of the code's `except`.

A tick is five minutes.  The limits of 20, 25 and 30 minutes are the constants
`ScanStale`, `MaxWait`, `RequestStale`; `RequestAssumption` asks for the order in which
the code has them.  That order alone does not keep a waiter from losing its request:
`_wait_for_scan` adds `POLL_SECONDS` per sleep, and never the time its polls, up to 750
of them, take at the database.  So a tick may find any task that serves a request in a
slow statement or poll; it then ages requests and scans and is counted in `slow`, which
no code reads, instead of in `waited` (`Attending`, `Tick`).

| Property | What it says | Where |
|---|---|---|
| `TypeOK` | rows and tasks stay in their domains | proved; `intraday` |
| `CompletedIsEnrolled` | a completed request has a completed scan, and all its candidates are tracked | proved; `intraday` |
| `TrackedIsCompleted` | only candidates of a completed scan are tracked, although a scan given up may still execute | proved; `intraday` |
| `ServedByOne` | no two workers serve one request, and a worker that waits has lost its request only if the five minutes between the two limits went by uncounted | proved; `intraday` |
| `QueuedSettles` | a queued request is answered, unless the start of every queue task failed | `intraday` |

### Tracking

`IntradayTracking` models the passes of `intraday_profitability_tracking.py`: load the
rows of the earliest closes up to a limit, ask for their bars, compute the outcome of
each and write it with the COALESCE rules of `_persist_outcome`.  A bar is its minute;
`published` is the last minute the provider has, at most `Settle` behind the clock; the
bar of the current minute is `Growing`.  Two trackers overlap while a deployment
replaces one by the other.

| Property | What it says | Where |
|---|---|---|
| `TypeOK` | rows and passes stay in their domains | proved; `intraday_tracking` |
| `MaturedIsFinal` | a matured row has the last usable price before its horizon: no bar came later, none was growing | proved; `intraday_tracking` |
| `ClosedIsComplete` | a closed row was written from its whole history, although a slower pass may write after it | proved; `intraday_tracking` |
| `FinishesUnlessFull` | every row that can be finished is, unless rows that cannot fill the load | `intraday_tracking` |

The condition of the last one is real: a row without any bar before its horizon stays
pending for ever and is loaded first by every pass.  2000 of them
(`intraday_profitability_tracking.py:46`) end the tracking of all others.

## 6. The live evidence

`LiveEvidence` composes what shares `rd_jobs` and `rd_daily_features`:
`queue_safe_missing_days` of `live_maintenance.py` (`Maintain`), the freeze that
follows it (`e003c_freeze.py`, `Freeze`), the entry and exit captures of
`e003c_live.py`, the jobs of the maintenance and of an operator.  A day has three
slots: entry window, exit window, evening.  A job fetches a date in one step and
completes later; what it had fetched, and when, is what the screening depends on.
Simplified: weekends and the limit of 14 days of repair are left out, a job of the
loader is one row that is active, stopped or completed, the maintenance queues and
looks in one step, quotes are reduced to which names have a usable one, and
`spy_ms001_live.py` is not modelled.

| Property | What it says | Where |
|---|---|---|
| `FrozenIsWhole` | the signals frozen of a date were screened over its whole session, unless an operator's job straddled its close | proved; `live_evidence` |
| `BasketIsFrozenList` | a basket whose signals were frozen before its session is the frozen list, with one verdict for the day and its names, whichever of two captures wrote last; only included names get an exit | proved; `live_evidence` |
| `LastDayLoads` | the latest safe date is loaded in the end, although a job left part of it and another stopped | `live_evidence` |

Seen while modelling: the completion time of a job proves a session
(`e003c_freeze.py:42`) that the job may have read before its end, which is what
`Straddles` excludes; two freezers that overlap raise the ledger's `RuntimeError` if they
screened different features; a date that is partial when a later one has features is
not gone back to (`live_maintenance.py:182`); a date whose prior date is partial is
screened all the same.

## 7. The outcome cycle

`OutcomeCycle` models what becomes of a scored signal: `capture_signal_outcomes` (six
weeks), `enrich_three_session_paths`, the marking of labels, the review for corporate
actions with its rechecks, rescoring, the check of the calibration's inputs and the
fit.  The worker does all of it once an evening and, in another order of its parts,
when it starts (`Restart`, `boot`); `POST /api/oversold/outcomes/run` does it in a web
process at any time.  Each part loads rows, asks the provider, and writes later:
`proc` holds what was loaded, so an older reading may be written over a newer one.
Days are sessions; `bars` are the sessions published so far, of which `Late` ones may
come after their evening; prices are reduced to the sessions that touch the target.
The batches of 500 rows are left out, and so is what a fitted curve looks like.

| Property | What it says | Where |
|---|---|---|
| `SamplesAreSound` | every calibration used original scores with the label their three sessions really give, reviewed after the lag, whatever a slower process wrote over the rows | proved; `outcomes` |
| `OutcomesSettle` | rows mature, get their true label and review; an action that a recheck is still to see makes the row ineligible | `outcomes` |
| `CalibrationFollows` | the latest calibration is a fit of the samples there are, although two processes may store theirs in the other order | `outcomes` |

Seen while modelling: a row with `status = 'error'` is left out of that evening's
review, so an error on the evening of its last recheck loses the recheck (the margin
`MaxFaults` in `SeenInTime`); a six-week outcome matures with whatever bars have come
and is not evaluated again when a late last bar arrives.

## 8. The scorer

`score_candidate` is built at import: v3.1 to v3.9 each wrap the one before and rewrite
part of its result.  `ScoringEvidence` models what is taken from the news (which
articles count, attribution to the issuer, cause, damage, reversibility, sources,
financing), `ScoringEconomics` the components computed from market and filings,
`ScoringLayers` the releases up to v3.4, `Scoring` v3.5, v3.8 and v3.9 and the state
machine: a candidate is taken and scored, release upon release (`layer`).  Articles are
sets of the things they say; values are whole points, ages whole hours.  Text matching
is abstracted to the tokens of the word lists, the discount ladder of offerings to its
result, the similarity of articles to a common origin; the lists of claims that are cut
to four for display are not cut.  The model was compared with the Python scorer on
eleven sets of evidence; they agree to one point, which is rounding.

`CandidateAssumption` is what the proofs (`ScoringProofs`) assume of a candidate: its
figures are whole numbers or missing, and where nothing is filed there is no cash, no
current ratio and no runway (`oversold_sec_fundamentals.py:410` refuses a record with
fewer than three figures).  TLC evaluates it on the candidates of the run.

| Property | What it says |
|---|---|
| `TypeOK` | every score of every release is between 0 and 100, every verdict one of three |
| `InvestigateIsSound` | an INVESTIGATE has the confidence, cause, damage, tail risk, source and market that the gates ask for, in the values the last release publishes, although the gates were evaluated releases earlier |
| `InvestigateSurvivesRemoval` | without any one of its sources the candidate would still not be passed over, although the audit asks for a score and no veto only |
| `ShutGatesStayShut` | a gate v3.3 shut is shut in every later release: no list of replaced names drops one, none is evaluated anew to the candidate's advantage |

Seen while modelling, none of it with a run of its own:

* A going concern of a vendor or customer: the docstring of v3.7
  (`oversold_scoring_v37_local_attribution.py`) and v3.8's `solvency_rule` say it is not
  the issuer's; the candidate is still passed over with a score of 0 for capital distress.
* Primary records are said not to rescue structural damage
  (`oversold_primary_evidence_scoring.py:3`); a filing that reaffirms guidance raises the
  reversibility of a structural impairment from 18 to 76 and lowers its damage from 82
  to 30 (`oversold_scoring.py:659`).
* Syndication is not to raise confidence (docstring of v3.5); `_confidence_cap` of v3.4
  counts sources, not clusters, so a copy raises the cap.
* The damage caps of v3.1 and v3.2 leave a gap between their bands;
  `deterioration_severity`, which v3.3 reads, is computed nowhere; v3.3's
  `opportunity_threshold` is dropped by the ALIASES of v3.9; `sentiment_overreaction` is
  missing from `THREE_SESSION_FIT`; a name in `STRUCTURAL_PROFILES` matches no profile;
  the cap of 65 for a partially verified cause makes the gate for strong partial
  evidence (72) unreachable; v3.5's `not_extreme_microcap` is always true; a scenario
  with confidence 0 counts as absent in v3.5.

## 9. The runs

| Run | Instance | Why it is enough |
|---|---|---|
| `loader_data` | two jobs over one window of three pages, two symbols of which one is rejected, one worker, all seven commands (three in a behaviour), a crash, a failing or overlong call; 561,975 states | three pages give a first, a middle and a last; two jobs overlap in every bar; rejection shrinks the batch; a command, a crash and a fault can fall between any two steps of a task |
| `loader_race` | two symmetric workers, two tasks of one page in batches of two, one rejected symbol, one claim before the retries are spent, every command but pause and resume (three in a behaviour), a failing or overlong call; 630,646 states | two claimers of two tasks, and the smallest `gather` with an orphan; the rejected symbol gives the empty batch and its tail; pages add nothing to a race, and a pause stops a task as a cancel does (it is in `loader_data` and `loader_live`, and the theorems hold with it) |
| `loader_live` | one task of two pages, pause, resume and cancel, a crash, two failing or overlong calls; 46,262 states | liveness; budgets of commands and faults end, so only finitely many disturbances |
| `loader_lost_page` | one job, one task of three pages, a crash | the smallest instance with the counterexample (a violation is expected) |
| `tracking_episodes` | two candidates of one symbol, two background tasks, a page, two decisions, a crash | two decisions are what it takes to cross; the second candidate makes them decisions on different rows; `MaxTracks` of 6 never binds |
| `tracking_capture` | one candidate with an old episode, decided on once more, the collector of the worker and one of a route, clock to 4, a crash, a failing call | two collectors are what it takes to write over a capture; one session more than the last checkpoint |
| `scans` | two nights of four 20-minute polls, the worker, two symmetric web processes with a request each, two scans, a restart, a failing call | two rows are what a duplicate takes, the second night what a stale memory of the first takes |
| `intraday` | two workers, two requests, three scans, limits of 1, 2 and 3 ticks, one tick that is not counted, one scan of a web process, one mishap; 437,273 states | the uncounted tick is as long as the margin between two limits; a request behind a request, a worker beside a worker, a scan to join; the third scan is the one after a scan that was given up |
| `intraday_tracking` | two trackers of which one leaves, two rows, a load of one, horizon at minute 2, close at 3, one minute of delay, clock to 4, one mishap, every history of trades that `SomeTrades` lists; 39,978 states | the second row waits behind the first; the delay spans the horizon and the close |
| `live_evidence` | two trade dates, two captures, two names of which one passes a partial screen, four jobs, one of the operator, one that stops | a date and the one before it; the thin name tells a whole screen from a partial one |
| `outcomes` | three signals, one of an earlier model, one late bar, one corporate action, six weeks of 4 sessions, lag and recheck of 1, horizon of 3, clock to 6, one web request, one fault or restart; 365,902 states | the action may come before the review, between its request and its write, and after it; the web cycle may cross any part of the worker's |
| `scoring` | some four hundred candidates: up to three of nine articles, further sets with copies, a lawsuit, a hold that is lifted or a lost client, a late quote; four markets, five sets of filings; three replays; 3,101 states | every profile that leads to INVESTIGATE and what turns it away; the code replays eight clusters, the candidates have at most three |

Bounds: `MaxCommands`, `MaxCrashes`, `MaxFaults`, `MaxMishaps`, `MaxSlow`, `MaxOps`, `MaxDecisions`,
`MaxRequests`, `MaxWebScans` (disturbances and requests in a behaviour), `Commands` and
`DecisionsMade` (which ones), `Horizon` of the tracking and of the scans, `LastMinute`,
`LastDay` (clock), `MaxTracks`, `MaxScans`, `MaxJobs`, `MaxRuns` (rows; `MaxTracks` and
`MaxRuns` never hold anything up, nor does `MaxJobs` the maintenance of an evening),
`MaxReplays`.  `CHECK_DEADLOCK FALSE` is
used where decisions and the clock run out by these bounds, or a candidate is scored,
and nothing is left to do.

## 10. Fairness

The loader: weak fairness of each worker's loop, its planner and each coroutine
(an asyncio task that can go on does, and the host restarts a dead worker), of the
expiry of an abandoned lease (time passes), and strong fairness of
`RecoverStaleTasks`, which the loop runs once a minute whenever it is at its top.
Nothing is assumed of operators, crashes and faults; an expired token and an overlong
call are faults.

Tracking: weak fairness of each coroutine, of `StartCapture` (the worker calls it
on a timer), of `Tick`, and of `EnsureCurrentTracks`, which means that a page stays
open: `oversold_tracking_v3_base.js:470` reloads it every 60 s,
`oversold_day3_ui.js:239` every 30 s.  `TrackedIsFollowed` rests on this, and nothing
else in the code repairs an episode lost in a restart.

Intraday requests: weak fairness of time, of the start of a worker's queue task (the
host restarts it) and of what that task does next.  Intraday tracking: of time, of the
provider's publishing within its delay, and of a tracker's passes, which a loop repeats;
the tracker that leaves may do so at any time.  Live evidence: of the maintenance loop,
of the freeze, and of a job of the loader that is active, which `TaskSettles` of the
loader justifies; captures are assumed nothing.  Outcome cycle: of time, of the
worker's cycle, of a web process that has begun one (not of its being asked), of the
scoring of a signal after its session, and of the late publishing of a bar.  In all of
them crashes and failing calls are without fairness and bounded.

The properties of the scans and of the scorer are safety properties.

## 11. The proofs

The theorems hold for every value of the constants that satisfies the ASSUME of the
module they are about: types of the constants, that identifiers of different kinds
differ, and the order of limits where the code fixes it.

| Theorem | Argument |
|---|---|
| `TypeCorrect` (loader) | `TypeOK` is inductive; one lemma per module (`ApiType`, `PlannerType`, `LoopType`, `RunnerType`, `LeaseType`) |
| `ClaimIsExclusive` | `ExclusiveClaim` alone is not inductive: `ClaimInv` adds that the row a coroutine may still write is missing only when its job is deleted, or planning could bring it back.  A release takes a held row away only by making its task `overtaken`; the tail after a completing commit holds a completed row, which nobody claims |
| `QueuedHasNoPlan` | `PlanInv`: a job that is not planned has no task, and a job that is absent, queued or being planned is not planned; without it, resume and retry could queue a job that has a plan |
| `LoaderImplementsLifecycle` | Each action maps to one move of `JobLifecycle` or to a stutter, one lemma per action.  A completed task is `closing` while its coroutine's tail is to come, and only from there, or once lost, may it open again; `ClaimInv` shows that nothing else takes it back, `PlanInv` carries the planner's moves |
| `CompletedTaskIsLoaded` | assumes `KeepFiles` and one disk.  `DataInv` says, of every task that is not overtaken, at every program counter what row, locals, staging file and tables owe to each other: a page token that is alive has the pages before it on disk, a staged or loading row all of them, a coroutine at its checkpoint those it has appended, one that refreshes features its bars in `rd_bars`.  A coroutine in its tail owes nothing: it writes only `failed`.  It needs `ClaimInv`: only the one coroutine that holds the row writes row and file |
| `LedgerIsExact` | inductive with the types: `bulk_load` adds to the count what it adds to the rows |
| `JobSettlesByItsTasks` | `DoneInv`: a completed row has its `completed_at`, which only a retry clears.  `SettleInv`: a job has all its tasks or none; between SELECT and UPDATE of `finalise_if_done` a task with nothing left to do stays so (`Rests`), or the job is gone or raced; a completed job's tasks were once done |
| `TrackingTypeCorrect` | `Base`: types, and a coroutine that waits for a price knows its call |
| `EpisodesAreExclusive`, `CompletedEpisodesAreSettled` | `EpisodeInv`: active episodes exist, one per symbol, completed ones wait for nothing.  The trigger ends every rival in the inserting transaction, so what was read before the await does not matter; extending resets `completed_at` in the transaction that adds the checkpoints |
| `StopsLeaveNoEpisode` | `StopInv`: reviews are numbered in their order, and while a call for a symbol that is not crossed is waiting, the symbol's latest decision is one that is tracked |
| `CapturesAreFinal` | `CaptureInv`: whoever holds a checkpoint that was captured in time has read a clock at which it was not too late, since it selected it before the capture and the clock only runs; only collectors capture; an id without an episode has no checkpoints |
| `CompletedScansAreFinal` | `OwnInv`: a scan has one owner until it is settled and stamped, and is completed by nobody else; with `FailInv`, the recovery of stale rows reaches no completed one |
| `ButtonScansAreSerial` | assumes that the cooldown is no longer than the age of a stale scan.  `LockInv`: the advisory lock has one holder, and what the holder saw still holds when it inserts; `TimeInv` and the monotony of dates carry it over a tick |
| `ScanTypes`, `NightIsEvidencedOnce` | rows are inserted in the order of their numbers (`OrderInv`), the worker has in hand the last of its own (`HandInv`), and on a date that is the worker's alone nothing follows a nightly scan with evidence, nor is about to (`NightInv`) |
| `WatchedNightIsCovered` | assumes a window longer than one poll.  `MemoryInv`: the scheduler remembers only dates that have a scheduled scan; `WatchInv`: one that has watched since the window opened sleeps or is in its nightly round, and after its last poll the night is covered |
| `RequestTypes` | `TypeOK` of the requests is inductive |
| `CompletedRequestsAreEnrolled`, `TrackedCandidatesAreCompleted` | `ExecInv`: a scan has one executor from its insertion on, and none once completed, so a completed status is final; `EnrolInv`: what each step of the enrolment has established for the next |
| `RequestsAreServedByOne` | `OwnerInv`, and `AgeInv`: a claimed request is no older than what its worker has waited and what went by uncounted, and one that was given up under it is as old as the limit, so the uncounted time makes up the difference |
| `TrackerTypes` | `TypeOK` of the tracking is inductive, with lemmas on first and last minutes |
| `MaturedPricesAreFinal`, `ClosedRowsAreComplete` | `LateInv`: what a pass has fetched reaches to `Settle` minutes before its load, so once the settling time is over it has every bar; `EntryInv`: an entry is the first bar and is never replaced |
| `LiveTypes`, `FrozenSignalsAreWhole` | `JobInv`: what was safe when a job began its download is full once it has; `FreezeInv`: what the freeze carries from its reading to its writing was screened over a whole session or is excused by a job of the operator |
| `BasketsAreFrozenLists` | `BasketInv`: a capture that waits for quotes in the entry window holds the frozen list of the day before, and the rows of a day are one such list with one set of executable names, from which exits are taken; a late upsert replaces the whole of it |
| `OutcomeTypes`, `SamplesAreAlwaysSound` | `RowInv`: a path of three sessions is the whole window (a finite-set argument on its cardinality), so its touch is the truth, and so is every label, even one whose path a slower write has shortened since; a clear row was reviewed after the lag.  `HeldInv`: what a process holds across a request, the rows under review or the samples to fit, is still right when it writes |
| `ScoresArePoints` (scorer) | `ScoringInv`: the result of each release has the fields and ranges the next one reads.  One lemma per component and release; the geometric mean is bounded through its table of logarithms, the lower quartile by a counting argument over the 35 members |
| `InvestigateStandsOnEvidence` | in `ScoringInv`: survivability is at most 50 without filings, so an INVESTIGATE (55) has filings, and then the published confidence is that of v3.4 or the cap of its source clusters, which the gate on provenance holds above 64.  A confidence below 65 would put two of the five scenarios at 54 or less, their 14 members at 70 or less, and the lower quartile of 35 below the 72 of the threshold gate.  72 is also more than the 65 that any cause but VERIFIED allows |
| `NoSourceCarriesIt` | every reason of v3.9 to pass (veto, tail risk 90, damage 80, capital distress, contradiction 75) is also a cap or a limit below 48 on every member; `Without` leaves a candidate, so it holds of each replay |
| `GatesStayShut` | the gates each release brings carry names none of `EconomicGateNames` has, and the lists it drops name none of them |

Each inductive invariant was checked by TLC on the instances of section 9 before it was
proved.  Every invariant and action
property of the passing runs is stated by a theorem.

Only model-checked: all liveness, which is outside what the prover handles: `StopsAnswered`, `EngagedIsReleased` and `TaskSettles` of the
loader, `TrackedIsFollowed`, `DueSettles`, `QueuedSettles`, `FinishesUnlessFull`,
`LastDayLoads`, `OutcomesSettle`, `CalibrationFollows`.  The type invariants of
`OutcomeCycle`, `ScanSchedule` and `LiveEvidence` are proved and in no run.

## 12. Not modelled

The quote audit and the batch research workers (planned), intraday scoring (pure
floating-point formulas); evidence collection and fundamentals, which are HTTP and
parsing without state shared between actors; infrastructure (HTTP retries, the
connection pool), whose outcomes are the inputs of the modelled components;
diagnostics and presentation; research SQL, CI and release tooling, which keep no
state of this system that others race for.

## 13. Plan

1. `QuoteAudit`: the claim of a group, and the group a crash leaves running.
2. The batch workers: one batch under an advisory lock, restarted at any point.
3. `LiveEvidence` over `JobLifecycle` instead of its own jobs, and `spy_ms001_live.py`.
4. The scorer's source-removal audit on more clusters than it replays.
