# DocVersion in TLA+

DocVersion watches web pages and OpenAPI specifications ("sources"), keeps a snapshot of each
version it fetches, lets a language model turn the difference between two snapshots into an update
of a markdown document, and keeps an audit trail of those updates. This directory is a TLA+
development of the backend (`src/app`): modules translated from the Python code, TLC
configurations that check them on small instances, and TLAPS proofs of the results that matter
most for every value of the constants.

`PROJECT.json` maps every definition to the lines it models and lists the runs, the mutants, the
hazards and the theorems; this file explains them.

## 1. Inventory

| Component | Code | State it keeps | Operations | Talks to |
|---|---|---|---|---|
| Pipeline run | `scheduler/pipeline.py`, `publish/db_publish.py` | tables `run_logs`, `snapshots`, `diffs`, `docs`, `doc_updates`; the in-memory dict of source locks; one `AsyncSession` per run | `trigger_pipeline_run`, and in it fetch, persist, diff, resolve, publish, commit | everything below but sessions and memberships |
| LLM queue | `llm/queue.py`, `llm/client.py` | semaphore, recent call times | `run`, `_wait_for_rate_slot`, retries | called by pipeline runs; one per process |
| LLM metering | `llm/metering.py` | table `org_llm_usage` | `get_period_usage`, `increment_usage`, `is_over_quota` | called by pipeline runs, in their session |
| Snapshot blobs | `storage/*` | files or Cloudinary assets | write, read, delete, list | runs, retention, deletion of a source |
| Retention | `jobs/retention.py` | none of its own | `cleanup_expired_data` | snapshots, diffs, blobs |
| Sources | `routers/sources.py` | table `sources` | create, update, delete, run-now | the pipeline (run-now), blobs, every dependent table |
| Scheduler | `scheduler/scheduler.py` | registry of jobs in memory; an APScheduler with a job store, if it has a database | start, shutdown, `sync_source_jobs` | would trigger runs and retention; its start raises |
| Sessions | `auth/tokens.py`, `routers/auth.py` | table `refresh_tokens` | login, rotate, logout, revoke all | password reset |
| Accounts and memberships | `auth/service.py`, `routers/memberships.py` | `users`, `organizations`, `org_memberships` | register, invite, accept, reset, change role, remove, leave | sessions |
| Git export | `publish/git_export.py` | a git working copy and its mirror | `export_doc_to_git` | called before a run's commit |
| Section application, diffs | `publish/section_apply.py`, `diff/*` | none (pure) | parse and apply a section; text and OpenAPI diffs | pipeline |
| Scraper | `scraper/worker_pool.py`, `adapters/*` | browser pool, one crawl's queue | `fetch` | pipeline |

What is hard about it:

- **Concurrency.** Interval jobs, API requests and the retention job share one database. Within a
  process they are asyncio tasks that interleave at every `await`; the only mutual exclusion is a
  dict of `asyncio.Lock`, one dict per OS process. The database does the rest: row locks, foreign
  keys, and commits at READ COMMITTED.
- **Stale sessions.** `expire_on_commit=False` and the identity map make a session keep using an
  object it read earlier, even after a fresh `SELECT` of the same row.
- **Partial failure.** A run that raises commits what it has flushed so far, under the outcome
  `failed`; a failed flush loses everything and leaves the row `running`. The blob store has no
  transactions at all.
- **Crashes** drop the in-memory locks and every open transaction, but not blobs or committed rows.

What makes each component correct:

- *Pipeline*: one run of a source at a time; the log and the audit trail agree; a doc's text is
  exactly what its trail says; initial documentation is never written over published updates;
  every run ends and leaves its source unlocked.
- *LLM queue*: bounded concurrency, the rate ceiling, every caller served.
- *Metering*: tokens counted once per call, never lost; the quota's overshoot bounded.
- *Retention and deletion*: content in the window is kept, content past it goes, nothing is
  orphaned for ever, docs outlive snapshots and go with their source.
- *Scheduler*: after a sync the registered jobs are those of the active sources; it says that it is
  running when it is.
- *Sessions*: one live descendant per login; a reset ends every session.
- *Memberships*: every organization has an owner.
- *Git export*: the mirror shows what the database has, unless something failed or the export is off.
- *Section application*: only the named section changes, and the rest is kept.
- *Scraper*: a crawl is bounded and visits a page at most once; the pool never exceeds its cap.

`PROJECT.json` lists the hazards at the lines where they bite.

## 2. Plan

In order of weight. All groups are written and proved about; what each lacks is in section 6.

1. `DocLedger` (abstract: what publishing promises), `Pipeline` (the run, all failures and crashes,
   several processes), `MCPipeline`; the refinement `Pipeline` ⇒ `DocLedger`; `PipelineOverlaps`
   and `MCOverlaps` (what remains true when runs overlap). Proofs: `PipelineProofs`, of all three
   modules and of the refinement.
2. `Retention`, `MCRetention`: snapshots, blobs, the retention job, deletion of a source, and the
   run reduced to what they share. Proofs: `RetentionProofs`.
3. `FifoServer` (abstract: what callers of the queue rely on), `LLMQueue`, `MCLLMQueue`; the
   refinement `LLMQueue` ⇒ `FifoServer`. Proofs: `LLMQueueProofs`, of both modules and of the
   refinement.
4. `Organization` (what the modules about one organization share), `Metering`, `GitMirror`, and
   `RunEffects`, which composes them with `FifoServer` into the side effects of a run. Proofs:
   `RunEffectsProofs`.
5. `Accounts` (users, roles, one-time tokens), and over it `Sessions` (one user's tokens) and
   `Memberships` (several users and organizations). Proofs: `SessionsProofs`, `MembershipsProofs`.
6. `SchedulerJobs`: sources, registry, start, shutdown, restarts. Proofs: `SchedulerJobsProofs`.
7. `Crawl` and `DocText`, and `SourceText`, which composes them into the way of a text from the
   site to the doc. Proofs: `SourceTextProofs`.

The modules are written to be proved about: no RECURSIVE operator, constants with named
assumptions, one action per operation, optional values as sets of at most one member, records made
by named constructors.

## 3. Modules and correspondence

### Pipeline

One action is the code between two awaits with which other tasks can interleave.

| Model | Code |
|---|---|
| `logs`, `snaps`, `docs`, `audit` | the *committed* tables `run_logs`, `snapshots`, `docs`, `doc_updates` |
| `run[t]` | the task's `AsyncSession` (flushed rows, the `Doc` in its identity map) and local variables |
| `locked` | the held locks of `_SOURCE_LOCKS`, one dict per process |
| `pc[t]` | the await a task is at |
| `lost` | history variable: runs whose session ended without a commit |
| `LoadSourceWithDoc` | `run_source_now` reading source and doc before it triggers (the stale `Doc`) |
| `Skip`, `Begin` | the two branches of `trigger_pipeline_run`; the test of `lock.locked()` and the acquisition have no await between them |
| `Fetch`/`FetchFails`, `Persist`/`PersistFails`, `Diff`/`DiffFails` | `_execute_pipeline` step by step, `PersistFails` with and without the raw blob written (the screenshot may fail after it) |
| `RejectOverQuota`, `SkipWithoutKey`, `QueueLLM` | the ways out of `_generate_and_publish` and `_generate_initial_doc` before the call |
| `LLMAnswers`, `LLMFails` | the queued call |
| `PublishInitial`, `PublishSection`, `PublishRefused` | `publish_initial_doc`, `publish_to_db`, the `FullDocumentReplacementError` |
| `Commit` | the commit of the try block, or that of the except block after a Python exception: both commit everything flushed so far |
| `FlushFails` | an error inside a flush: the transaction is gone and the except block's commit raises |
| `Crash(p)` | a process dies |

Row locks are guards: a flush that must wait for another transaction's `docs` row is disabled until
that transaction ends (`DocRowHolders`). Texts are sets of runs: what a run wrote is in the doc or
it is not. A section update that rewrites a section another run wrote still counts as containing
it, because it was produced from a text with that section.

### PipelineOverlaps

`Pipeline` in any deployment, with a history that restricts none of its steps. `overtaken` are the
tasks whose doc another run has published to since they read it, or since they decided on initial
documentation (`HasRead`); `overwritten` are the sources where such a task has then published.
`LossIsOverwrite` and `SecondInitialIsOverwrite` say that without a common lock `DocIsView` and
`InitialOnce` fail there and nowhere else: failed
runs, dead processes, refused updates and docs created side by side cost nothing. `NoCircularWait` is about the row
locks that are left when there is no common lock: `Waiting` is a flush that another session's row of the same
doc blocks, and the session it waits for is never itself waiting.

### DocLedger

What a reader of `docs` and `doc_updates` relies on: `Open`, `Initial`, `Publish`, `Reject`, each
atomic. `MaterializedView`: the text is the view of the trail. `Pipeline` implements it by the
identity mapping of the two tables, with `RunIds` for the authors.

### Retention

`Persist`, `Diff`, `PublishInitial`, `PublishUpdate`, `CommitRun`, `AbortRun` are a scheduled run
reduced to its snapshot row, its blob, the baseline its diff refers to and whether it wrote the doc.
`RetentionSelect`, `RetentionList`, `RetentionSweep`, `RetentionCommit` cut `cleanup_expired_data`
where other transactions can come between; `DeletePurge`, `DeleteRows`, `DeleteSource` cut
`delete_source` likewise, before its first DELETE and before the one of the source row. Both can
fail at each point, and each best-effort deletion of a blob may fail (`kept`). `Age` is the passage
of time: snapshots leave the window in the order they were fetched. Row locks and foreign keys
are guards: a DELETE of a snapshot waits for the diff row that refers to it, the DELETE of a
source for the run whose rows refer to it. `docs.source_id` has no foreign key, so nothing ties a
doc to the deletion. `taken` is what `DeleteRows` has deleted and not committed: the snapshots and
the doc it saw, and the `run_logs` row of a run in progress, which `CommitRun` would update and
therefore waits for. If the deletion in turn waits for that run's rows, the two are in a deadlock, which the database
ends: `AbortRun` or `DeleteFails`. `missed`, a history, says that a run has committed a doc since.

`exposed` is a history variable: snapshots whose blob the code may remove inside the window. There
are two ways: the run had not committed when the sweep read the committed refs, or `delete_source`
purged the blobs and then failed. `FreshBlobsKept` says there is no third.

### LLMQueue

`pc`, `waiters`, `slots`, `attempt` are the places in `run()`, the semaphore's waiters, `_call_times`
and the loop variable, `slept` the ticks a caller has spent in its backoff, which ends at `Sleep`
(`backoff_seconds * 2**attempt`); `sent` is a history of the requests the provider has seen in the last window.
`Enter` acquires the semaphore or queues for it, `Leave` is the end of `async with` on every path
(`Answer`, `GiveUp`), and hands the permit to the first waiter as asyncio's semaphore does.
`TakeSlot` prunes (`Recent`: the times are in order, so what has expired comes first), takes a slot
and sends, without an await in between; `FailTransiently` and `Retry` are the backoff, during which
the permit stays held and no slot is taken. `Tick` ages everything. The client wraps every exception of the provider's SDK in `LLMTransientError`; what it
raises afterwards (an invalid response) is not retried and leaves like an answer. `Pipeline` sees a
call as `LLMAnswers` or `LLMFails`; the queue's module justifies that each call ends.

`ServesInOrder` is the refinement: with `line` the waiters and `serving` those that hold a permit,
every step of the queue is an arrival, a departure or nothing for `FifoServer`. Because of it
`RunEffects` can use `FifoServer` instead of the queue.

### Metering, GitMirror, RunEffects

`RunEffects` follows a run of each source through `_generate_and_publish` (or
`_generate_initial_doc`): `Reject`, `SkipWithoutKey`, `QueueLLM` are what comes of the quota check,
then `LLMAnswers`/`LLMFails`, `Count`, `Publish`/`PublishUnexported`/`Refuse`, `Mirror`, and `Commit` or
`Rollback`; whether `git_export_enabled` is set is free for each run, since nothing in `src/app` writes it.
`Crash` ends all of them, `NextMonth` the month. Its actions are conjunctions of the actions of the
modules it composes.

| Model | Code |
|---|---|
| `usage` | the organization's rows of `org_llm_usage`, in id order |
| `sess[s].mine`, `sess[s].use` | what a run's session has inserted there, and the usage object in its identity map |
| `GetPeriodUsage` | `get_period_usage`: any row of the month if there are several, a new one if there is none |
| `IncrementUsage` | `increment_usage`; the sum is computed from the object, the UPDATE waits for the row (`Locked`) |
| `spent`, `raced` | history: tokens of committed runs; months in which two sessions were open together |
| `repo`, `pushed` | the organization's working copy (origin, index, commits) and its remotes |
| `texts`, `refs`, `draft` | `docs.current_content_md`, `docs.last_git_export_commit`, and what a session has flushed of both |
| `Export`, `ExportFailsEarly`, `ExportFailsLocally`, `ExportFailsToPush` | `export_doc_to_git`, which stops at the command that fails; within a process it has no await |
| `PublishUnexported` | a publish of a doc whose `git_export_enabled` is off: no export, no failure |
| `drift` | history: sources whose last export or last run failed, or that were published with the export off; a successful export and its commit clear it |

### Accounts, Sessions, Memberships

`Accounts` holds the rows of `users` and `org_memberships` and the operations that both of the
others compose: `RegisterUser`, `VerifyEmail`, `RequestReset`, `ResetPassword`, `Authenticates`. A
password is the number of the reset that set it, 0 the empty hash of an invited user; a one-time
token is the fact that its link works.

`Sessions` is one user. A request that reads before it writes is two actions, and `req[r]` is what
it has read: `Login` and `IssueTokens`; `FindToken` and then `Rotate`, `RotateFails` or
`RevokeFamily`, and `LoadUser` for the access token; `FindReset`, `Sweep` (flush of the user's row,
DELETE of the sessions) and `CommitReset`. A DELETE takes the rows that were committed when it
began (`doomed`); the flush holds the user's row, which other resets and updates wait for
(`Sweeping`). `raced` and `crossed` are history variables that name the overlaps that the code
lets through: a family that got a token from a login or rotation which overlapped its revocation or
the reset, and a reset that committed a version another one had overtaken. The properties
say that these are the only ways.

`Memberships` is several users and organizations. `Ask` is the route's check of the role, `Admit` or
`Refuse` what the service reads, `Invite`, `UpdateRole`, `Remove` its commit, `Fail` the commit that
meets a row another request has inserted or deleted. History: `overtaken` (requests on whose
organization another one has committed since they were admitted), `excused` (organizations that lost
their last owner in a way the code does not check, or checked on what was overtaken), `late`
(users who set a password before they were active).

### SchedulerJobs

`source` is the table; `url`, `scheduler`, `running`, `jobs` are `database_url`, `_scheduler`, `_running`
and `_jobs` of a `DocVersionScheduler`. `SyncReads` and `SyncEnds` are the two halves of
`sync_source_jobs` around its query, of several calls that may overlap; the routes' writes
(`CreateSource`, `UpdateSource`, `DeleteSource`) come between, before and after. There is no job store and no run of a
job in the model, because there is none in the code: with a database URL `start` gives the store a
bound method of the object that holds the scheduler, the store pickles the object, and APScheduler
(3.11.3, `uv.lock`) refuses to be pickled. That is `StartRaises`, which leaves `_scheduler` set and
stopped (or unset, if the store itself cannot be made); the next call is `Start`, which finds a scheduler
and sets `_running`. `shutdown` forgets the scheduler, `Restart` is a new process with a new object. History:
`synced`, `touched`, `since`, `raised`.

### Crawl, DocText, SourceText

`Crawl` is `scrape_url`: the queue `to_visit`, `visited`, the pages scraped, in the browser and again
over HTTP. `Reachable`, its reference definition, is the least set closed under the links of
the pages that were read. `DocText` is a markdown text as a sequence of headings with their levels
and body lines: `extract_section`, `apply_section_update`, `Replaces` are the functions of
`section_apply.py`, `IsTrivial` the verdict of `text_diff.py`: few lines change, or nothing but whitespace on
however many. A change is new words on some lines and whitespace on others; `TrivialRun`, `UnansweredRun`
(the diff fails, the organization is over quota or has no key, the call fails), `RefusedRun`,
`PublishedRun` are what becomes of it. History: `body` (each section as last published),
`echoed`, `stirred` (sections in which an answer brought headings, or that contain or are in
one that was updated), `untold`, `trivial`, `failed` (the lines whose words the doc has
not been told of, the trivial runs with such lines, and the lines of unanswered and refused runs).
`SourceText` runs the one and then the other.

## 4. Runs

| Run | Instance | What it shows |
|---|---|---|
| `pipeline_jobs` | one scheduler process, two jobs contending for one source, two contents, 3 runs | locks exact, sessions fresh, refinement of `DocLedger` (and with it the doc is the view of its trail, initial documentation is written once), every run ends |
| `pipeline_mixed` | an API worker and the scheduler, a run-now and a job on one source, 3 runs | what holds without a common lock: log and trail agree, outcomes are final, only dead sessions strand a row |
| `pipeline_overlaps` | as `pipeline_mixed`, with the history of overlaps | an update is lost, or initial documentation repeated, only where a run published over one it had not seen; no two runs wait for each other's doc |
| `pipeline_no_change` | as `pipeline_jobs` | violated: `success_no_change` for content nobody documented, after a failed run |
| `retention` | two sources, 3 snapshots, one deletion request, symmetric | `FreshBlobsKept`, `RowsGoForAReason`; `DocsRetained`: docs go with their source only, and initial documentation is written over updates only once every snapshot has expired; `GoneIsGone`: a deleted source has no snapshot and no run, whatever came while it was deleted, and a doc only if a run wrote it then |
| `retention_live` | one source, 2 snapshots, one deletion request, fair | orphaned blobs are swept, expired rows go |
| `llm_queue` | three callers, rate 2, window of 4 ticks, one retry, fair | permits exact, requests in a window bounded, every caller served, refinement of `FifoServer` |
| `run_effects` | two sources of one organization, 3 calls, 2 months, one place in the queue, a remote for each doc, symmetric | usage exact unless two runs overlap, never too high, the overshoot of a recorded quota bounded; the mirror differs only after a failure or a publish with the export off; a stored commit exists, has the text, and is pushed to origin |
| `sessions` | one user, 2 concurrent requests, 3 refresh tokens, 2 resets, symmetric | what a reset or a reuse leaves alive is exactly what overlapped it; one live token per family |
| `memberships` | two users with an organization each, 2 concurrent requests about one of them, 3 roles, 1 reset, symmetric | by what an organization loses its last owner; who changes memberships, who is active after an invite, who can log in |
| `scheduler` | two sources, intervals 1 and 2, two calls of a sync, with a database or not, symmetric | which jobs the registry has after syncs that overlap; with a database, by what way `is_running` becomes true |
| `source_text` | every site of three pages with any pages bad, `max_pages` 2; two docs of three sections, one with a title above them, 8 answers, 3 runs on a text of 51 lines of which 3 change | the crawl reads every page it can reach, once; sections are found, replaced and kept apart; the words that the doc is not told of are bounded |

**Bounds.** `MaxRuns = 3` is the length of the shortest interesting histories: a failed or initial
run, one that builds on it, and one more that overlaps; two tasks are enough for a race on one
source, since a third is `Skip`ped or waits like the second. One source is enough for the
pipeline: no action reads another source's state, and the proofs cover any number. `MaxSnaps = 3`
is an expired baseline, a snapshot in the window and one in flight. `MaxDeletes` bounds the requests
to delete a source, failed ones included. Without it a source could be purged for ever, and
liveness would say nothing. The queue needs three callers for its
order to matter, and a window longer than a retry with its backoff; the bound of `RequestsBounded` is
reached in that instance. `MaxCalls = 3` with two months is a first call that inserts the row, one
that overlaps it, and one after the turn of the month; `Quota = MaxTokens = 2` reaches the quota
exactly and beyond. Three refresh tokens are a login, its rotation and a second child of the same
parent; two resets can cross. Two requests about one organization are enough for every pair of
membership operations to overtake each other, and its two users for the last two owners; the second
organization is there for users who are somewhere else as well. Two calls of a sync are enough for
the one that read first to end last. Three pages, two of which are read, make the crawl's limit bite
before, at and after the last page; 51 lines put the triviality threshold between one
changed line and two, where it is the farthest from the exact percentage, and three lines that change
let words and whitespace come together on either side of it. Every bound appears only in a guard that starts something new, never in
one that continues.

**Fairness.** `RunEnds` assumes that a run in progress takes steps: fetches and LLM calls have
timeouts, and a blocked flush waits for a transaction that ends. It does not assume that a run
succeeds. The liveness of `Retention` assumes that runs and deletions end, and that the daily job
is started again; its steps are strongly fair, since a crash or failure may end the job on any day
but not at the same step on every day. In the code the start would be `DocVersionScheduler`'s daily job, but nothing in
`src/app` creates that class, and its `start` raises (finding 10): the daily start is an assumption
about the deployment, which must call `cleanup_expired_data` some other way for the liveness to mean anything.

`EveryCallServed` assumes that time passes, that a sleep ends and that a call of the client ends (it
has a timeout), not that callers come.

The properties of `RunEffects`, `Sessions`, `Memberships`, `SchedulerJobs` and `SourceText` are safety
properties, and their specifications state no fairness: requests may stop at any point, a crash or
a client that goes away being one reason.

**Deadlock** is checked where the model cannot stop: in `Retention` the job is always startable, in the
pipeline's runs the tracked page may always change, in `LLMQueue` callers come back, in
`SchedulerJobs` a process may always be replaced. `run_effects`, `sessions`, `memberships` and `source_text` end when their
bounds are used up.

The types (`TypeOK` in each module) document the state. Only that of `LLMQueue` is a property of a
run, since it bounds the attempts; those of `Pipeline`, `Retention` and `SourceText` are theorems, and the other
proofs establish what they need of them.

**Findings** (details, with quotes, in `PROJECT.json`). The first is a run that TLC refutes;
the others are exceptions written into a property that holds, and that fails without the exception:

1. A failed run's snapshot becomes the baseline, so its content is never documented
   (`pipeline_no_change`).
2. The per-source lock does not span processes: run-now and a job lose an update
   (`LossIsOverwrite`; without the exception TLC refutes it in 23 states).
3. Retention deletes the latest snapshot of a quiet source, and the next run resets its doc
   (`DocsRetained`).
4. A run that begins between the DELETEs of a source's dependent rows and that of the source leaves
   a doc without a source (`GoneIsGone`).
5. Retries of LLM calls take no rate slot and exceed the rate the queue exists to keep
   (`RequestsBounded`).
6. A rotation that overlaps the revocation of its family, or another rotation of the same token,
   leaves a live child (`ReuseEndsFamily`, `OneLiveToken`).
7. A login or rotation that overlaps a password reset survives it, and two overlapping resets write
   the same `token_version` (`OldPasswordOut`, `OldAccessOut`).
8. The last owner is protected from owners only: not from admins, not from role updates, and not from
   two removals that overlap (`LastOwnerStays`).
9. An invited user can never log in, since nothing verifies the address (`LoginNeedsRegistration`),
   and one who resets the password before accepting stays inactive (`AcceptedIsActive`).
10. The scheduler's `start` raises whenever it has a database, so no job is ever stored or run, and a
    second `start` makes `is_running` true all the same (`RunningAfterRaise`).
11. An answer that begins with its heading, as the prompt asks, doubles the heading, and the text
    under it stays when the section is updated again (`SectionsOnce`, `BodyIsLastUpdate`).
12. Each doc may have a remote, but the working copy of an organization has one origin, set by the
    first export: other docs are pushed to that one, and their export is recorded as a success
    (`RefNamesExport` speaks of origin; said of the doc's own remote it fails). Nothing sets the toggle
    of the export either; a doc published while it is off is in `drift`.

The cross-session effects on the usage row (lost increments, doubled rows) are the `raced` months of
`ExactUnlessRaced`.

Every property of a passing run has a mutant in `PROJECT.json`: a variant of one action, with a
plausible mistake, under which TLC finds that property violated.

## 5. Proofs

All proofs are checked by TLAPS to the last leaf; the constants are arbitrary under the named
assumption of their module (for the pipeline `PipelineAssumption`: `ProcOf` maps tasks to processes,
`NoSource` is not a source, `MaxRuns` is a natural number). Each module holds one inductive
invariant (or a few that do not need each other), one lemma for the steps that share an argument, and
the theorems at the end.

- `PipelineProofs`, for any deployment: `TypeCorrect`, `LocksCorrect`, `RunsAreOwned`,
  `OutcomesAreFinal`. `StepIsLocal` shows once that everything within a run changes only the task's
  own record, so each invariant then has one case for a step within a run and one each for `Skip`,
  `Begin`, `Commit`, `FlushFails`, `Crash`, `LoadSourceWithDoc`, `Change`. `Owned` strengthens the
  types (an active task has a source and a row of `run_logs`), `LogInv` the ownership (the row of
  an active run says `running`), `Concluded` says that a run reaches its commit with an outcome.
- There also `LogsMatchTrails`, for any deployment. `Held` says that what a session holds for the trail
  and for the log goes together, and that there is nothing of it before the run is about to commit;
  `RowsFit` that each row of the trail fits what the log says and is its run's only one.
- There also, for any deployment, how far runs that overlap can hurt (`OverlapSpec`):
  `LossesAreOverwrites`, `SecondInitialsAreOverwrites`, `RunsDoNotDeadlock`. The properties are not inductive:
  they say nothing of what open sessions hold. `OverlapInv` says of each session what the code has done to
  it by its phase (`Sess`), and of one that is not overtaken that the text it has read is the doc's
  (`Fresh`); that one session at a time has written a source's doc (`OneWriter`), which gives `RunsDoNotDeadlock`; that
  a doc with a text has a snapshot, so that no run which looks then takes it for new (`TextHasSnapshot`);
  and that the trail of a source that is not overwritten tells its text (`TrailTells`).
  A commit is the one step that touches all of them; `OverlapCommit` is its lemma.
- And `RunsMoveForward`, the safety half of `RunEnds`, for any deployment: every step of a run takes
  it to a later phase (`Rank`), so a run has at most seven steps and what remains for liveness is that the
  steps are taken.
- There also, for the ledger: every behaviour of it keeps `MaterializedView` and `InitialOnce`
  (`LedgerViews`, `LedgerInitialOnce`). The invariant `LedgerInv` adds that a doc with an empty text
  has no applied row, which is what makes `Initial` safe. The lemma behind it is `ViewAppend`: the
  view of a trail with one more row.
- And the refinement, for interval jobs of one process (`JobsOfOneProcess`: no manual tasks, one
  process for all tasks): `JobInv` says phase by phase what a session holds (`Stage`), that
  snapshot ids are below the sequence and that a documented source has a baseline (`SnapsInv`), and
  that rows of the trail belong to logged runs (`TrailLogged`). From it `JobSessionsAreFresh`, and
  `JobsImplementLedger`: a `Commit` is one ledger step (or none), everything else is a stutter.
  `JobsKeepDocAView` and `JobsWriteInitialOnce` follow from the refinement and the ledger's theorems.
- `RetentionProofs`: `RetentionTypes`, `BlobsAreKept`, `RowsAreKept`, `DocsAreRetained`,
  `DeletionsAreFinal`. `IdInv`: an id
  names one row, committed or in a run's session. `SweepInv`: whatever the job has selected is
  past the window and stays so while runs commit and deletions go on, and what its list of
  blobs in use misses is exposed; without it `FreshBlobsKept` says nothing of a sweep that has
  read before a run commits. `RunInv`: a run found no baseline only if there is none, and nothing brings
  one while it runs. `DeletionsAreFinal` rests on a run having a source that is there (a run starts
  on a live source only, and the source does not go before the run ends) and on `TakenInv`: a doc that is there
  when its source goes was taken by the deletion or missed.
- `LLMQueueProofs`: `PlacesStayExact` for the abstract server, by counting (`serving` is finite, a
  place that is left goes to the head of the line). For the queue, `PermitsStayExact`, and
  `QueueServesInOrder`, the refinement: its invariant says which phases hold a permit and that a
  waiter is in line once. `QueueTypes` is the type invariant; a sleep is counted up to its end,
  so the proof needs nothing of the power of two that the end is.
- There also `RequestsAreBounded`. A bound on one window is not inductive: what a window will see
  depends on what the part of it that is still to come inherits. `Paid` therefore speaks of every instant
  (a `Cut` between older slots and younger requests): the requests since then, and the retries still
  `Due`, are no more than the slots taken since then allow, and the retries that the holders of the
  permits could owe at that instant. A new slot pays for its own requests, a retry was due before, and time
  only moves the cuts.
- `RunEffectsProofs`, about the usage: `UsageIsExact`, `NoOvercharge`, `QuotaOvershot`. A row is a sum of
  what several sessions wrote to it from objects of different age, and rows of one month may be
  several. `ShareInv` therefore keeps a witness: each row has a share of the month's `spent`, no smaller
  than its tokens, and the shares of a month add up to it. A commit that overwrites a
  newer count gives its tokens to the share all the same; that is how racing sessions lose tokens
  and never invent any. `ExactInv` adds that until a month has raced its row is one, and the session
  that is open has read it as it is. `QuotaInv` is about what a session has read when it
  was let in. The lemmas before them are the facts about sums over a finite set (`SumUnfolds`,
  `SumRemove`, `SumMonotone`) that the community modules define by recursion.
- There also, about the mirror: `DriftIsExplained`, for any docs and remotes, and `RefsNameExports`.
  `MirrorInv` says of each phase of a run what index, last commit and draft have in common, for
  the sources outside `drift`; one commit has the texts of all docs, so that an export of one doc must
  not disturb what is said of the others (`OthersKept`). `PushedInv`, for `RefsNameExports`:
  origin is added when the repository is made, by a doc that has a remote, and never changes; what
  a session holds to store as its commit has been pushed there before.
- `SessionsProofs`: `ResetEndsSessions`, `ResetEndsAccess`, `ReuseIsFinal`, `OneTokenPerFamily`. The
  strengthening names what the claims rest on: a family is named by its first token and has one
  password (`FamilyInv`), no version in use or about to be is ahead of the user's unless two resets
  have crossed (`VersionInv`), and the tokens that an open reset will leave belong to families that
  raced it (`SweepInv`); before there is a user there is nothing of his (`UnknownInv`).
- `MembershipsProofs`: `OwnersAreKept`, `ManagersChange`, `InvitesActivate`, `LoginsAreRegistered`.
  `RequestInv` says that what a request found when it was admitted holds until another one commits on
  the same organization, which is what a check before a write is worth; `CommitStep` shows it
  once for all three operations. `AccountInv` says how an account shows the way it was made.
- `SchedulerJobsProofs`: `JobsFollowSources`, `RunsAfterItRaised`, for any number of syncs at once. `SyncInv`
  says of every sync under way that what it has read is what the sources are, but for those changed
  since: whichever ends next leaves that in the registry. `StartInv` adds that a scheduler is there only
  after a start has raised.
- `SourceTextProofs`: `CrawlIsComplete`, for any finite site. `CrawlInv` says that each page met is read,
  skipped or queued, and that whatever is read or queued is in every set that is closed under the
  links seen so far (`Holds`); at the end the pages read are such a set and in each of them, which is
  `Reachable`. `SectionsStayOnce` and `SectionsSayLastUpdate`, for any docs and answers: an update is
  a splice (`SplicedIs`) or an addition at the end (`AddedIs`), and the lemmas say where each heading is
  afterwards (`HeadsMove`) and that a section which is not around or inside the updated one moves as
  a whole (`SectionMoves`). The hypothesis of `SectionsStayOnce` is that no initial doc has the
  heading of a key twice: an answer for a whole doc may have it, and then the update goes to the first.
  `UntoldIsBounded` counts lines (a trivial run with new words has few changed lines, and so few lines with
  new words); `SourceTextTypes` is the type invariant.

The attempt to prove `SectionsSayLastUpdate` showed that an earlier version of it was false: a section
added at the end of the doc is inside a level-1 section that runs to the end. `Around` says so now,
and the run has a doc and a key where it happens.

The hypothesis `JobsOfOneProcess` cannot be dropped: with a run-now beside the job an update is lost. What holds then is `LossesAreOverwrites`.
Why the strengthening is needed: `SessionFresh` alone does not say what a session has *not* done
yet, and a commit refines the ledger only if the doc it writes was read from the current row and
the run's row is not in the trail already.

**Induction.** The provers cannot instantiate an induction theorem with a predicate. Where the
proofs need induction (sums over sets, first headings, the latest snapshot) they take a smallest
counterexample instead, by `LeastNatural`: a nonempty set of naturals has a least member.

**Model-checked only.** Liveness (`RunEnds`, `OrphansSwept`, `ExpiredGo`, `EveryCallServed`)
is out of the prover's reach. Every other property of a passing run is a theorem, under the
hypotheses named above.

## 6. Not modelled

- In `Pipeline` the components of the other modules are steps with free outcomes: the quota check may
  go either way, a call may answer or raise, an export changes nothing.
- The contents of pages and diffs, hashes (taken as injective), excerpts, logging. `DocText` drops blank
  lines and takes a diff as the set of changed lines, not as difflib aligns them, in a text whose number of lines
  stays. Whitespace changes that a trivial run swallows are not counted as missing.
- The OpenAPI diff: a recursion over two JSON documents without state, and never trivial.
- The docs API, configuration, CSRF, security headers, URL validation, e-mail, encryption of keys:
  reads, filters, pure input and output, or libraries. Migrations and scripts run by hand.
- In `Retention`: diff rows as such, screenshots (they share the fate of the raw blob), the
  stores' own code, updates of a source, forced initial documentation.
- In `GitMirror`: the copy of the text that `export_doc_to_git` also puts on Cloudinary (best effort,
  nothing reads it back), commits that others push to the remote. The export flag is free at each publish; when
  it is off nothing is retried later, and the next export brings the text.
- In `RunEffects`: several processes, each with a queue of its own, and the retries of the provider's
  SDK. `IncrementUsage` takes the SELECT and the UPDATE that waits for the row as one step: what
  comes between is the wait for the row, during which the session's object keeps its values.
- In `Pipeline`, a flush that fails during the fetch or the LLM call: `Crash` has the same effect on what
  is left there.
- In `Memberships`, an update to the role that the member has counts as a write; the ORM sends none.
- In `Accounts`: expiry times (a link that has expired is no link), slugs, mails,
  `resolve_org_by_domain` (a read), `accept_invite` by user id (called by no route).
- In `Crawl`: the semaphore around the browser, screenshots, the text of a page; the `webapp` and
  `openapi` adapters, which fetch one page.
- In `SchedulerJobs`: the list of jobs that a stopped APScheduler keeps for a start that never comes
  (`add_job` appends to it at every sync), and the runs that its jobs would make. Nothing in `src/app` creates
  `DocVersionScheduler`, and the tests do so without a database. Runs are started by run-now requests and, in
  `Pipeline` and `Retention`, by the jobs that the design promises, however they are triggered.
- Clocks: `Age` and `Latest` follow the order of ids. `fetched_at` is set when the row is flushed, in
  the order the ids are drawn (up to clock differences between processes).
