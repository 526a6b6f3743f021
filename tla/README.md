# Matata backend: a TLA+ verification project

Matata takes damage reports from the public during a crisis, matches each one to a
building, has its photo assessed by a vision model, looks for duplicates, and gives the
result to analysts. The backend is a FastAPI application (`src/app/api`, `src/app/services`),
Celery workers (`src/app/workers`), PostgreSQL for the reports, and Redis for coordination
keys, caches, tokens and as the Celery broker. This directory holds TLA+ models of the parts
where these processes meet, TLC configurations that check them on small instances, and proofs
that TLAPS checks for every instance.

## 1. Inventory

| Component | State | Operations | Meets | What must be right |
|---|---|---|---|---|
| Submission (`routes/reports.py`, `submission_service.py`, `queue_service.py`) | report row, gate key, submission counter | submit, attach a photo, answer a question | database, object store, Redis, queues `gis` and `ai` | a stored report is processed; jobs start only after the commit |
| Step gate (`duplicate_dispatch.py`) | `crisismap:report:{id}:pending_dup_steps` | DECR, DELETE, `send_task` | called at the end of GIS and AI tasks | scoring runs after the last step, and runs |
| GIS worker (`gis_tasks.py`, `gis_service.py`, `routes/gis.py`) | building link, match confidence, building severity, cached offers | offer buildings, match, recompute the severity, drop caches | report row, buildings, geocoder, caches | the reporter's pick is kept, a match is near, severity is the worst report that counts |
| AI worker (`ai_tasks.py`, `vision_service.py`, `image_service.py`) | photo hash, photo status, prediction, priority | download, hash, analyse, give up | object store, vision providers, report row | results belong to the photo of the report; the priority fits what is known |
| Duplicate worker (`duplicate_tasks.py`, `duplicate_service.py`) | status, possible primary, score, audit row | load, score, hold for review or flag | report rows | reports of different places do not reach merge review |
| Reconciliation sweep (`reconciliation_tasks.py`) | none of its own | find stuck reports, reseed the gate, send the missing jobs | gate, all queues | finds every lost job, then stops |
| Task queues (`celery_app.py`) | messages, retry counts | deliver, acknowledge late, redeliver, retry | every worker | at least once |
| Analyst decisions (`analyst_service.py`, `routes/analyst.py`) | status, trust tier, merge links, building severity, questions | verify, reject, mark as duplicate, merge, confirm or reject a merge, ask, notes, overrides | the same rows as the workers | the transition matrix, a report in review has a primary, severity and tier recover from a reversed decision |
| AI calibration (`analyst_service.get_ai_accuracy`) | feedback rows, threshold, timestamp, history | log, recompute, apply | AI worker | the history accounts for the threshold |
| Cached reads (`analyst_service.py`, `submission_service.py`) | summary, heatmap and nearby answers in Redis | ask, query, store | every writer of reports | stale for at most a time to live |
| Authentication (`auth_service.py`, `routes/auth.py`, `routes/analyst_auth.py`, `sms.py`, `voice.py`, account commands) | OTP, attempt counter, limiter, refresh tokens, denylist, accounts | send, verify, rotate, log out, provision, deactivate | Redis, gateways | a refresh token is spent once, guesses are bounded, a lockout ends, deactivation holds |
| Exports (`export_tasks.py`, `export_service.py`, `routes/export.py`) | job record in Redis, file in the store, audit rows | create, run, poll | object store, queue | what leaves is audited and as it was asked for |
| Photo retention (`retention_tasks.py`, `storage_service.py`) | photo object and photo_url | purge | merges, which copy photo_url | no row names a deleted object |
| Geocoding (`geocoding_service.py`) | cache, rate-limit slot | resolve a landmark | outside services, GIS worker | errors are not remembered as "nowhere" |
| Footprint import (`cli/import_footprints.py`) | buildings | load, upsert by batch | GIS worker, offers | an import that fails half way can be repeated |
| Notifications (`notification_tasks.py`, `email_service.py`) | notification rows | alert, digest, photo request | | not dispatched, see section 6 |
| Middleware, rate limits, configuration, i18n, logging, metrics, health, moderation, translation | none shared | filter one request, call a service | | |
| Field reporters' directory, facilities, offline areas, simulation, migrations | static tables | read, load once | | |

What makes this hard: the database, Redis and the queues fail one at a time, and there is no
transaction over two of them. Messages are delivered at least once. A worker reads a row, spends
seconds to minutes on a download, a hash or a vision call, and then writes with an UPDATE that does
not look at the row again. Analysts' transactions run at READ COMMITTED without `FOR UPDATE`.

`PROJECT.json` lists the hazards with their lines, and the properties that watch them.

## 2. Plan

The order in which the modules were written, the most important behaviour first. All of it is done.

1. `ReportPipeline`, `ReportPipeline_proofs`: the life of a report from the request to scoring. It is the
   composition of submission, gate, queues, three workers and the sweep.
2. `AnalystReview`, `AnalystReview_proofs`: decisions, scoring and matches on shared rows.
3. `PhotoRetention`, `PhotoRetention_proofs`: object store against database.
4. `PhotoAssessment`: two photos, two tasks, a reply.
5. `OtpLogin`, `Sessions`, the abstract `SingleUse`, and their proofs: authentication.
6. `ExportContent`, `ExportJobs`, `ExportJobs_proofs`: what an export holds, and how it gets there.
7. `Calibration`, `CachedReads`: values derived from the report table.
8. `Matching`, composed of `Geocoding` and `DuplicateScore`: which building a report is about, and what
   the score makes of it.
9. `Assessment_proofs` (of `PhotoAssessment` and `Calibration`) and `MapData_proofs` (of `CachedReads` and
   `Matching`).

What could follow: the spread of points and buildings over a plane instead of a line, and the notification tasks
once something dispatches them.

## 3. Modules

An action is what happens between two points where another process can see the difference: a
commit, a Redis command, a publish. Where several statements are one step, the section says so.
`MC*` modules give the constants of a run that a `.cfg` cannot, and the symmetry sets.

### ReportPipeline

One record per report, one per message or running task. The state and where it lives:

| Variable | In the code |
|---|---|
| `row` | the columns of `report` the pipeline reads or writes, and the existence of its scoring audit row (`scored`). `photo` and `phash` are upload numbers, so a hash of an older photo can be told from the current one. `matched` is `footprint_match_confidence IS NOT NULL`. `assessed` stands for `accepted` and `insufficient_quality`. |
| `gate` | the Redis key. A missing key is 0, which is how DECR treats it. |
| `drive` | where the request handler, or the sweep, stands between its commit and its last publish |
| `age` | `created_at` against the 15 minutes of grace and the 72 hours after which the sweep leaves a report alone |
| `tasks` | a bounded set of slots; each is a message waiting in a queue or a task at a point between two of its effects |
| `unseen`, `lossy`, `faults` | history: what scoring has not read, whether a counted step or scoring job has been lost, and the fault count |

An action is what happens between two points where another process can see the difference: a
commit, a Redis command, a `send_task`. `SubmitReport` and `UploadPhoto` end at the commit; `Seed`
and `Publish` are the SET and each publish. `MarkDecr`, `MarkDelete`, `MarkSend` are the three commands
of `mark_step_done_and_maybe_dispatch`. A GIS task is `GisMatch`, `GisInvalidateCaches` and the three
marks; an AI task is `AiLoad`, `AiHash`, `AiFinish` and the marks; scoring is `ScoreLoad` and
`ScoreWrite`. The sweep takes one row of its result at a time (`SweepSelect`), then seeds and publishes.

Faults are actions of their own, each of which spends one of `MaxFaults`: a crash before the
seed or between publishes, a publish that raises, a Redis error in the marks, an exception in a task
body, an integrity error, a worker that dies and has its message redelivered, a message or a task
lost for good, the expiry of the gate.

*Outside the repository.* What Celery does is modelled from how the code configures it: messages
are acknowledged after the task (`task_acks_late`), so a crash redelivers; a killed pool process
fails the task (`task_reject_on_worker_lost` is not set). `Task.retry(exc=exc)` of the pinned
Celery 5.6.3 raises `exc` itself once `max_retries` is exceeded, and `MaxRetriesExceededError` only when
no `exc` was given. The constant `RetryRaises` selects between that and what the wrappers
(`gis_tasks.py:330`, `ai_tasks.py:788`) expect.

`VisionMayFail` says whether the providers may refuse a photo.

*Abstracted.* Positions, scores, predictions and texts; a photo always has a hash; the photo
retention sweep does not take the photo away during the pipeline; the queue is unordered, since two
worker processes run per queue (`deploy/county/docker-compose.yml`).

### AnalystReview

Reports of one building, and sessions that each hold one open transaction. A transaction is modelled
as the UPDATEs it is going to send: `sets` gives, for each report, the columns to change and
their new values. SQLAlchemy sends only the columns that differ from what was loaded, so that is what
`Changes` computes; the raw UPDATEs of the workers name their columns. Steps:

- *load and decide* (`Transition`, `Merge`, `ConfirmMerge`, `RejectMerge`, `Score`): the SELECTs of a
  handler are one step;
- `Write`: flush and commit, for everything that reads nothing in between;
- `Flush` then `Commit`: a transition of a linked report flushes, reads the building's reports and
  then commits. `Link` starts there, as the GIS worker updates the report and recomputes in SQL.

A row with an uncommitted UPDATE is locked (`CanWrite`). `solo` is history: the transaction that no
other has overlapped; `first` is the tier each reporter came with. Bounds: one building, one
duplicate per manual merge. `Worlds` lets one run look at two kinds of behaviour: two transactions that
overlap, with little data, and one at a time with all tiers, two damages and reports with and
without a photo. `world` is chosen by `Init` and never changes. `RejectedDoNotPin` and `TierMovesAtMostOne`
are claims about one transaction at a time; with overlap both are false (section 4).

### PhotoAssessment

One report whose reporter may attach a second photo while an AI task works on the first. `row` has the
columns the AI worker writes, with photos and hashes as upload numbers, and `ai` saying which photo the
AI columns are of. A task reads the row once (`Load`), commits the hash before the vision call (`Hash`), and
writes its result after it (`Finish`: `WriteUnusable` or `WriteAssessment`), whatever the row holds by then.
`HostedFails` moves on to the local model; `Retry`, `GiveUp` and `Redeliver` are Celery. The answer of
the model is any score, confidence, agreement and calibrated threshold on either side of every limit of
`_compute_review_priority`. Questions and replies (`AskLoad`, `AskCommit`, `AnswerLoad`, `AnswerCommit`) load in one step
and commit in another. `row.asked` is the number of the question the report holds and `row.answered` that of the question
its reply was written for, 0 without a reply: a reply is for the question that was open when its request loaded the row,
whatever question the row holds when it commits. `overtaken` and `crossed` are history: a task has written for an older photo
since the last upload; a reply and a new question were under way at once, and the analyst has cleared no reply since.

What the properties leave room for is what the code does: the floor under the priority is computed from
the loaded row, so a reply that arrives during the vision call can be lowered again by that one
task (`RepliedStaysHigh` names it); an older photo's task may end last, and a second task of the same photo whose own hash failed
writes NULL over the hash of the first (`NewerResultsKept` names both);
the `unusable` branch keeps the AI columns of the photo before; a score of 30 or more under
the flag "unusable" gives "normal", where the comment at `ai_tasks.py:575` expects critical.

### PhotoRetention

The object store and the database, which share no transaction. A key is a fresh UUID, so `used` only
grows and an object that was deleted is never put again. `created_at` is a rank: the n-th report has
`created` n, and `cutoff` is the sweep's `now - retention` on the same scale, so only the order of
the two matters. Steps:

- a request is `PutPhoto` (upload_image) and `CommitPhoto`, or `RequestFails` in between; a report without
  a photo is `SubmitBare`;
- a merge is `MergeLoad` (the primary has no photo, the duplicate has one) and `MergeCommit`. The
  statuses of the two are in `AnalystReview`; here any two reports may be merged, which covers
  `merge_reports` and `confirm_pending_merge`;
- the sweep is `SweepList`, which takes at most `Limit` keys with the oldest reports, then for each
  key `SweepDelete` and `SweepClear`. It goes through its keys in any order. Two sweeps are the beat task
  and `purge-photos`, or a redelivered task. `purge-photos --days` with another number is not modelled.

`late` remembers the keys that a merge wrote while a sweep had them on its list, or after their
object was gone. For those the sentence of `retention_tasks.py:16-17` ("a photo is never deleted while a newer
report still relies on it") does not hold: the sweep lists a key, the merge puts it on a newer
report, the sweep deletes it. `GoneMeansExpired` says it holds for every other key. An object that
no row names any more, after a second upload or a rollback, is out of the sweep's sight; `PhotosGo`
leaves these out. Its premise `MergesEnd` is needed with three reports, where a deleted key can be
merged onwards ahead of the sweep for ever and keep a sweep of `Limit` 1 busy.

### OtpLogin

The phone login of one identity. Every Redis call of `send_otp` and `verify_otp` is a step: SET the code, try
SMS and then the voice call, DELETE on failure; GET the counter, GET the code, INCR, EXPIRE, DEL, DEL. `req`
says where each request stands. `delivered` and `voice` say which codes the user can have. A crash ends a request
between two steps; keys with a TTL lapse at any time (`OtpLapses`, `AttemptsLapse`, `CallsLapse`). The limiter of
`check_rate_limit` has the same INCR-then-EXPIRE pattern and sits beside it.

`get_sms_gateway` (`auth_service.py:452`) stands between the SET and the `try`: when it raises, the code stays until it
lapses, which is what a crash there leaves, and is modelled as one.

A failed send deletes the key whatever it holds, so it can delete the code of a later send that
succeeded: the user then asks again. `LiveCodeReachable` therefore speaks of codes that are stored.

### Sessions and SingleUse

Tokens and accounts of one identity: Privy and phone login, anonymous sessions, the command line's tokens,
rotation (GETDEL, then a new pair), logout with a denylist entry that lasts as long as the access token, account
creation by three ways that check before they insert, deactivation. `SingleUse` is what the docstring of
`rotate_refresh_token` promises, as a specification of its own: a token is issued, and then exchanged once or
lapses. `Sessions` implements it under `Tokens <- TokenIds, live <- refresh`; `exchanged` is the same history in both.

`DeactivationDiesOut` says what deactivation does give: a rotation carries the role over without looking
at the account, so elevated tokens live on until the last refresh token is gone; no way leads back
after that but the command line. `register_analyst_account` looks for an active row only, while `email_hash` is
unique over all rows: to add an account again after deactivation ends in the database's integrity error, which
`InsertAccount` models.

### ExportContent and ExportJobs

`ExportContent` is the pure part: which reports the filters select, how coordinates are rounded, what the audit
row says, and how the filters turn into a dict for the Celery message and back. `ExportJobs` is the protocol around
it: a small export is read, audited, committed and answered; a large one becomes a job record and a
message. The task reads, commits its audit row, uploads, signs the link, and then updates the record by
reading and writing it back; any step may fail and the whole task starts again, a message may come twice
(`Redeliver`), records and links lapse by `Tick`. Coordinates are integers of 10^-4 degrees.

The audit row leaves out the location precision, the footprints and the filter for buildings that are not on the
map. Footprints are not rounded: a coarse export that includes them carries exact polygons
(`export_service.py:397`), which is outside `AsAsked`. Files are never deleted, though `export_tasks.py:15` speaks of 24
hours; the link ends, the object stays. With the pinned Celery the branch that marks a job failed need not
run; `ProcessingIsWorkedOn` allows for that job by `abandoned`.

### Calibration

Feedback rows by what the rates look at, and the four Redis commands of `get_ai_accuracy` as steps of
overlapping requests: SET the threshold, SET the timestamp, LPUSH, LTRIM, after a GET of the threshold before.
A command that raises is logged and what was written stays (`WriteFails`). `busiest` is history: the most calibrations
that were between their first command and their last at one time.

### CachedReads

`view` is the endpoint asked: the summary (three statements at READ COMMITTED), the heatmap, or the nearby
reports, whose key is a cell and a radius. Nothing invalidates an entry: `_invalidate_gis_caches` deletes keys
`gis:*` that no reader uses, though `gis_tasks.py:79` says they "must match the API layer". So an entry is right for
at most its time to live (`StaleAtMostTtl`), unless a request that read before a write stored after it
(`torn`). The order of the answer is not modelled: the nearby endpoint is described as ordered by similarity,
the code orders by creation.

### Matching, Geocoding and DuplicateScore

A form asks for the buildings near its fix, through a cache whose key is the place alone; the reporter picks one, or
none, or says that theirs is missing; the worker's decision is `gis_tasks._match_building_impl`: the pick
if it is near enough, the building that contains the fix, the nearest, or the landmark geocoded. Imports of footprints
run beside it, a batch per transaction, and fail half way. Places lie on a line and a footprint is an
interval; the queries of one match are one step. An offer's key is the fix; in the code it is the fix rounded to 5
decimals (`gis.py:71`), so two fixes within a metre of each other count as one here. Imports follow one another
(`StartImport`): `_run` takes no lock, so two operators who import at once are outside the model, and with the same ids
each of the two would overwrite rows of the other. `Geocoding` is the cached provider with the slot that
is given out at most once a second; `burst` is history, the most by which requests that own a slot were ahead of the seconds
of slots that have run out, over all periods. `DuplicateScore` is the composite score as a pure function; after
each match `MergeIsSamePlace` scores the report against every other report of a grid.

What the properties leave out, because the code does it: an offer cached for a poor fix is given for a good one at
the same place, whose worker then looks less far and rejects the pick (`ReporterDecides` speaks of offers for
this fix and accuracy); a second run that finds nothing writes confidence 0 and keeps the building; two GIS tasks
of one building at once may lose the severity of one; an over-quota answer of Google is cached as no
result, though the docstring says errors are not (`OnlyAnswersCached` is about Nominatim); candidates for
scoring include rejected reports, and the best one by score may be a report without coordinates that hides one
strong enough for merge review. Fixes are whole metres, so `MergeIsSamePlace` says 16 m; with the floats of the code a pair
16.5 m apart scores 0.901 and is held, and the bound is 16 2/3 m.

## 4. Runs

| Run | Instance | Shows |
|---|---|---|
| `pipeline_uploads` | 1 report, 2 tasks, 1 photo, 1 retry, 1 fault, provider may refuse, past the window | the gate never counts steps that will not report; scoring has seen the last write |
| `pipeline_recovers` | 1 report, 2 tasks, 1 photo, 1 fault, no retry, fair | the report is scored, decided, or past the window, whatever the fault; work drains |
| `review` | 2 reports, 2 sessions, two worlds | a report in review has a primary; a recompute nobody overlapped is right; one at a time, rejected reports do not pin the building and the tier moves by at most one |
| `photo_retention` | 2 reports, 2 keys, 2 sweeps, LIMIT 1, 1 fault, fair | no object goes before its last report is past retention (but for a merge that overlaps the sweep), rows are cleared after their object, every photo goes |
| `photo_assessment` | 2 photos, 2 tasks, 1 retry, 1 redelivery, 3 questions, photos and questions at most 3 together | the priority fits what is known; what can overwrite newer results: a task of an older photo or, for the hash, a second task whose hash failed; a reply fits its question unless the two were under way at once, and then does not |
| `otp_login` | 3 requests, 2 attempts, 2 codes, 1 crash | bounded guesses, counters that end, no code that nobody can have |
| `sessions` | 2 requests, 2 token pairs, 2 seconds | the refinement of `SingleUse`; a revoked token stays revoked; deactivation dies out |
| `exports` | 2 requests, 2 tasks, 1 retry, 1 redelivery, threshold 1 | what is handed out is audited and as asked; a record outlives its link; a job is worked on |
| `calibration` | 3 requests, 5 feedback rows, 3 calibrations, history of 2, 1 fault | the history tells the threshold, also the overlapping ones as long as they are no more than its entries; the threshold fits the feedback |
| `cached_reads` | 2 requests, 3 views, 2 reports, 3 writes, lifetime 2 | answers are stale for one lifetime, counters add up, nearby is near |
| `matching` | 1 report, 3 forms, 2 workers, 3 tasks, 2 imports, tasks and imports at most 4 together, both providers | links are near, the reporter decides, imports converge, errors are not cached, the geocoder is asked no faster than slots and workers allow |
| `finding_retries_exhausted` | the provider is down, Celery's `retry(exc=...)`, fair | ends with a counterexample, see below |

*Bounds.* The reports of the pipeline share nothing but the workers, so one report shows all of its
behaviours; that holds for any number is proved. Two slots hold a job and a second one of any kind: a duplicate
from a redelivery, the sweep or an upload, which is the smallest number where a stale job meets a reseeded gate.
One fault is enough for every single failure; two that combine are outside the runs and inside the proofs.
Two transactions, two tasks or two requests are the smallest number that overlaps, and the guess bound needs a third
request to show that it is one extra for each. Three questions are the least that show a reply that was cleared after a
crossing, three calibrations the least that are more than a history of two, and three tasks the least that reach the bound of
`RequestsKeepPace` with two workers. `MaxUpdates` and `MaxWork` keep these from being multiplied with everything else: a second
photo is met by one question or two, a third question by no photo, and three tasks by one import. A limit of 2 attempts, a history of 2, a threshold of 1 record
and a LIMIT of 1 are reached and passed. In `photo_retention` two keys make one wait behind the LIMIT. In
`exports` two reports differ in every filter and one changes its status while it is exported. In `cached_reads` two
points share a cell and two radii a key, and a report lies at the edge. In `matching` the fix lies between two houses and the
second import moves one of them under it. Lifetimes are 1 or 2 ticks: an entry is fresh, older, or gone.

`CHECK_DEADLOCK FALSE` stands where the bounds on photos, sends, tokens or writes run out or the system
may rest with all work done. Only the review run checks deadlock, as its transactions can always start again.

*Fairness* (`FairSpec`): weak fairness of the steps of a task, of the steps of a request handler
and of the sweep, and of the end of the grace period. Workers take tasks as long as they
run, a handler runs on, and beat starts the sweep every five minutes. Nothing is asked of reporters,
analysts, `TooOld` or faults. In `PhotoRetention`: a sweep takes its next step, a request or merge that
has loaded commits unless it fails, and time goes on; nothing makes reporters or analysts begin. The other
modules state no fairness: their properties are safety.

### Disagreements found

`finding_retries_exhausted` has a run: with Celery's `retry(exc=...)` the give-up branches never run, and a
report whose photo no provider accepts is sent to the AI worker by every sweep and never scored, where
`ai_tasks.py:828-831` says it must not "sit forever waiting".

Others, met while modelling, as the sequence that shows them. The models contain these behaviours and the
properties say what holds in spite of them.

- *Scoring early* (`reports.py:485` against `duplicate_dispatch.py:10-12`). A photo attached while GIS is queued reseeds
  the gate to 1; whichever of GIS and AI ends first starts scoring, which may then read a report without a building.
- *A review overwrites a decision* (`duplicate_tasks.py:358` against `:504-508`). Scoring loads a pending report, an analyst
  decides it, and the unconditional UPDATE puts it back into merge review.
- *Severity after a merge* (`analyst_service.py:768` against `:678-683`). A manual merge turns a rejected report
  into a duplicate, which counts for the building again, and nothing recomputes the severity.
- *A cycle of merges* (`duplicate_tasks.py:188` against `docs/frontend-integration-guide.md:997`). Two reports are each held as
  a duplicate of the other; when both merges are confirmed no report survives.
- *Overlapping decisions* (`analyst_service.py:688`). Two transitions that overlap each recompute the severity without the
  other's uncommitted row, and each bases its tier change on the tier it loaded, so `RejectedDoNotPin` and
  `TierMovesAtMostOne` fail for two transactions at once.
- *Two calibrations at once* (`analyst_service.py:1245`, "Atomically write threshold + timestamp"). The two SETs of
  one calibration can fall between those of another, which leaves one's threshold with the other's timestamp.
- *A threshold without its entry* (`analyst_service.py:1263`). More calibrations at once than the history has entries can push
  out the entry of the threshold in force. `docs/deployment.md:164` recommends nine processes, which admit 135.
- *A question and a late reply* (`submission_service.py:740` against `analyst_service.py:860-862`, "so the report waits for an
  answer to the new question"). The reply to a first question and a second question load the report before either commits.
  In both orders the row ends with the reply to the first beside the second: the question counts as answered, and the
  reporter who tries to answer it is refused.
- *A redelivery loses the hash* (`ai_tasks.py:666` against `:545`, "Retries recompute the same value, so the write is idempotent").
  A task stores the hash and its worker dies; the task that follows cannot compute it, and its last UPDATE writes NULL over the
  hash that is there, which duplicate scoring then lacks.
- *Bunched requests to the geocoder* (`geocoding_service.py:17-20`, "At most 1 request per second"). The slot is a second of
  the key, not of the request: a worker that owns a slot and is slow sends beside the owners of later slots.
  `RequestsKeepPace` is what remains. Without Redis each process sleeps for itself and several send in one second.
- *A reply lowers the priority* (`submission_service.py:747`). A reply that loaded the report before an AI task
  made it critical writes "high" over "critical".

### Mutants

Every property of a passing run has a definition in its module, marked *Mutant of*, that replaces
one definition by a plausible bug; under it TLC refutes the property. They are not part of any specification.

## 5. Proofs

Eight modules, named for the module they are about; `Assessment_proofs` and `MapData_proofs` hold two independent
parts each, of two modules that share no variable. They assume the named assumption of the module they are
about and nothing else; what they prove holds for every value of the constants. Each defines an inductive
invariant, shows it for `Init`, then for every action, and derives the theorems. The type invariants `TypeOK` are
proved and not run, except in `Matching`, where `MatchingTypeOK` is part of its run, and in `Calibration`, where
`CalibrationTypes` is a conjunct of the invariant. Every invariant and every action property that a run checks
is proved.

`ReportPipeline_proofs` proves, under `PipelineAssumption` only, for every `Reports`, `Slots`, `MaxPhotos`,
`MaxRetries` and `MaxFaults`:

- `TypeCorrect`: `Spec => []TypeOK`
- `GateSound`: `Spec => []GateNeverOvercounts`
- `ScoringSeesEverything`: `Spec => []NoStepUnseen`

Neither of the last two is inductive. The invariant is `IInv == Shape /\ GateNeverOvercounts /\ Cover`:

- `Shape` adds to `TypeOK` which steps a driver can hold at which pc (a gate is only seeded with GIS or AI
  steps, a scoring job is published alone) and which pc each kind of task can have;
- `GateNeverOvercounts` bounds the gate by the decrements still to come. A step that moves a
  task keeps that count or lowers it by one together with the gate (`MarkDecrStep`); seeding sets
  the gate to a number of steps that are all still to be published (`SeedStep`); publishing moves one
  from the driver to a slot (`PublishStep`). The lemmas `Replace`, `Moves`, `Ends` and `Starts` say how
  the count changes when one slot changes;
- `Cover` explains every unseen write: unless it is lossy, a step that will still mark, a queued
  scoring job or an unpublished step is there to bring a later scoring run. The last mark
  finds the gate at or below zero because of `GateNeverOvercounts`, so it sends one.

Then `IInv /\ [Next]_vars => IInv'` has one step per action.

`PhotoRetention_proofs` proves, under `RetentionAssumption` only (a finite set of keys, a LIMIT of at least 1):

- `TypeCorrect`: `Spec => []TypeOK`
- `RetentionSound`: `Spec => []GoneMeansExpired`
- `DeleteBeforeClear`: `Spec => ClearedOnlyWhenGone`

The invariant adds to the type and to `GoneMeansExpired`: a key that a sweep has is named by expired reports
only, unless it is late (`WorkExpired`); the object of a key that is about to be cleared is gone
(`ClearingGone`), and stays gone because keys in use are never given out again (`HeldUsed`); a key
between upload and commit is known to its request alone (`RequestPrivate`), so no sweep can take it; and only
reports that exist name photos (`Existing`). `DeleteBeforeClear` is `ClearingGone` at the one step that sets
`photo_url` to NULL.

`AnalystReview_proofs` (for any reports, sessions and worlds) proves `TypeCorrect`, `HeldHavePrimary`, `SoloRecomputes`,
`RejectedNeverPin` and `TierStaysNear`. Three invariants:

- `RowsInv`: the columns `status` and `possible` of a row agree, and so do the two in every UPDATE that is
  on its way. `ReviewHasPrimary` alone is not inductive, since a row is the sum of what several overlapping
  transactions wrote: each UPDATE that sets or clears one column must do the like to the other;
- `SoloInv`: what a solo transaction has seen as the worst damage is still the worst, as nobody else
  has written since;
- `SerialInv`: with one transaction at a time the severity is at most the worst damage of the rows
  whenever nothing is open, and a tier is within one of the first, in the direction the last decision took it.

`OtpLogin_proofs` proves `TypeCorrect`, `GuessesStayBounded`, `CountersEnd`, `LiveCodesReachable`, `SpentCodesStayGone`. The bound on guesses
counts the requests that have passed the check of the counter and not yet incremented it: counter plus these
never exceeds the limit minus one plus the number of requests, which needs lemmas on the cardinality of a
set of clients that one enters or leaves. A counter without a TTL has the request that made it at its EXPIRE; a stored
code without a reader has a sender that will deliver or delete it.

`Sessions_proofs` proves `TypeCorrect`, `RevokedForGood`, `RefreshTokensAreSingleUse` (the refinement of `SingleUse`: initial states map to initial
states, every step to a step or a stutter) and `DeactivationHolds`. `Histories` is what the refinement needs: a token that
is still stored, or not yet issued, has paid for nothing.

`ExportJobs_proofs` proves `TypeCorrect`, `DeliveriesAreAudited`, `DeliveriesAreAsAsked`, `LinksHaveRecords` and `ProcessingHasWorker`. `Delivery` follows
the content from the query through the task to the file: wherever it is, it is audited before it can be seen, and it
satisfies the filters of its request. Two lemmas carry the data: `DictRoundTrip` (the filters survive the message) and
`CoordOnGrid` (rounding lands on the grid, for all integers). `Linked` ties the lifetimes of record and link.

`Assessment_proofs` proves, of `PhotoAssessment`, `TypeCorrect` and the five properties of the run: `PrioritySound`,
`AcceptedAreAssessed`, `RepliesStayHigh`, `NewerResultsStay` and `RepliesAnswer`. `TaskFits` says that
what a task holds is of a photo the report has had, `RequestsFit` that a reply to an urgent report has loaded "critical" (otherwise the reply's
"high" would lower it), and `Assessed` is `AcceptedIsAssessed` without waiting for the tasks, which makes it inductive.
`RepliesFit` is what `ReplyFitsQuestion` needs between the steps: until a reply and a question cross, the reply under way is for
the row's question and an analyst who loaded the report unanswered finds it so; after it, the reply to an older
question is in the row, or on its way there, or the question that will be newer than the row's reply is.
The lemmas `ComputedFits`, `FloorFits` and `ResultFits` are about `_compute_review_priority` under the floor.

Of `Calibration` it proves `HistoryTellsTheThreshold`, `AppliedThresholdsAreRecorded` and `ThresholdsFitTheFeedback`.
None of the three properties is inductive: they speak of what holds between calibrations, or of what a reader
finds, and the steps of a calibration come in between. `CalibrationInv` adds

- `Alone`: calibrations that did not overlap were never two at a time, so of each step only its own request matters
  (`HistoryOfOne`, `CurrentOfOne`);
- `HistoryFits`: what the history lacks at each of the five points of a calibration: behind SET the newest entry is
  the threshold *before*, and between LPUSH and LTRIM the list may be one too long;
- `CurrentFits`: a calibration that saw all the feedback carries the threshold for it until it is written;
- `RecordedFits`, for overlapping ones: the entry of the threshold in force is at a position `i` with
  `i + Cardinality(Pending) <= busiest`, where `Pending` are the requests that have set the threshold
  and not appended it. An LPUSH moves the entry one back and takes one request out of `Pending`, so the entry is
  never further back than there were calibrations at once (`Busy`), and LTRIM keeps it while these are no more than
  the history has entries.

The last condition is in the property (`busiest <= HistoryMax`), not an assumption, and `AppliedIsRecorded` is false without it: with
three requests and a history of two TLC finds three overlapping calibrations after which the applied threshold is in no
entry. The code does not ensure it either. `get_ai_accuracy` holds the database session of its request
(`dependencies.get_db`) while it writes, and `create_async_engine` is called without pool arguments, which is SQLAlchemy's
default of 5 connections and 10 more for each process. The image's four processes (`Dockerfile:50`) admit 60 calibrations
against a history of 100 (`_AI_CALIBRATION_HISTORY_MAX`), but `docs/deployment.md:164` and `:220` and `docker-compose.prod.yml:20` tell
operators to set `WEB_CONCURRENCY` to 9 on the smallest server, which admits 135.

`MapData_proofs` proves, of `CachedReads`, `TypeCorrect`, `StaleNoLonger`, `CountsOfASummaryAddUp` and `NearbyReportsAreNear`.
An entry is torn, or current, or at least as old as the last write: at `quiet = Ttl` the third is impossible. For nearby, an answer is within reach of some question with the
same key; `SameCell` and `SameReach` bound how far two such questions are apart, for all points and radii
on a line; on the map the width of a cell becomes its diagonal, about 15.7 m.

For the counters, `CountsFit` says that the reports of the table are those of one severity and those of the
other, and `Consistent` that an answer adds up unless a write fell between two of its statements (`torn`); an entry
keeps the mark of the answer it was stored from.

Of `Matching` it proves `MatchingTypeCorrect`, `ErrorsAreNotCached`, `RequestsKeepThePace`, `LinksAreNear`,
`TheReporterDecides`, `ImportsConverge` and `MergesAreOnePlace`, from `MatchingAssumption`: forms, sources and places are
what their names say (a footprint has a lower end below its upper end), and a building is not called `None` or
"missing". `MatchingInv` has a part per actor, and what each actor carries must be right before it is written:

- `GeoInv`: an answer on its way from the service to the cache (a call at `store` or `answered`), and every entry, is what
  the service says, or the "nowhere" that Google's quota makes of it;
- `PaceInv`: `burst` and the workers that own a slot and have not sent yet are together at most the workers, and one more
  while the slot is set: taking the slot adds an owner, sending turns an owner into one of `burst`, and a slot that runs
  out takes one off `burst`;
- `OfferFits`: every building of a fresh offer is within the offer's radius. A form whose own radius is the
  offer's is `live`, and `RowFits` keeps that until an import ends it; so a pick is one `confirm_building` accepts
  (`DecidedFits`), and `Obeys` holds of the task's decision and, later, of the row;
- `LinkFits` is `LinkIsNear` of a match instead of a row, so that it can be said of a task's match before it is written.
  `MatchesFit` derives it from the choice of the nearest by `CHOOSE`, `ByLandmarkFits` from the geocoder's answer, and
  `WrittenFits` keeps it for a second run that finds nothing and changes only the confidence;
- `ImportFits`: the batches that an import has left, and the footprints of its source that are in place already;
- `TaskFits`: a task at the geocoder waits for the answer to its own report's landmark (`CallsKeepQueries`).

An import changes the geometry that all links were made from; `ImportedRow` shows that what remains of a row is what the
properties ask of it. `MergeNeedsOnePlace` is arithmetic over the weights, for all fixes and hashes and any
categories: a pair with fixes that reaches 90 percent has one building, and fixes within 16 whole
metres even with full marks for photo and category.

*Only model-checked.* What needs fairness: `EventuallyScored`, `WorkDrains` and `PhotosGo`; liveness is outside the prover.
And the disagreement of `finding_retries_exhausted`, which is a counterexample.

## 6. Not modelled

The components of `PROJECT.json` with status `not_modelled` or `partly` have their reason there. In short:

- *Notifications*: nothing in `src/` dispatches the two tasks, and they could not do their work if it did:
  `analyst_account` has no column with an address, no migration creates `reporter_session` or `phone_lookup`, and
  `NotificationType` has no `photo_replacement_request`. There is no behaviour over time to state.
- *Middleware, rate limits, moderation, translation, i18n, logging, metrics, health, configuration*: filters over one
  request, text, or calls with a fallback; the limits' counters are in the slowapi library.
- *Facilities, offline areas, the reporters' directory*: reads of tables that operators fill.
- *Read endpoints* of analysts and reporters, apart from the cached ones: they change nothing.
- *Notes, severity overrides and label updates*: one column each, which no decision reads (the feedback
  row of an override is in `Calibration`).
- *Parsing and formats*: a model's text, image transforms, the files of an import, the bytes of an export.
- *Simulation harness and migrations*: not the running system.
