# A TLA+ model of speech-jobs-backend

The backend accepts audio uploads over HTTP, queues them as rows of a
PostgreSQL table, and transcribes and diarizes them in separate worker
processes that claim rows, keep them fresh with heartbeats and recover what
dead workers left behind. This directory holds TLA+ modules of that system,
the configurations with which TLC checks them on small instances, and proofs
that TLAPS checks for every instance. `PROJECT.json` links every definition to
the lines it models and every property to the hazard it is about.

Source paths below are relative to `src/src/app/` of the repository.

## Inventory

| Component | State it keeps | Operations | Interacts with |
|---|---|---|---|
| Upload (`services/uploads.py`, `upload_job` of `api/routes/jobs.py`) | `.part` files, input files named by content hash, the new `jobs` row | receive, probe, place or reuse the file, insert the row, roll back | cleanup (files), workers (rows) |
| Job rows (`db/models.py`) | status, timestamps, error code; at most one `job_results` row | written by upload, workers, recovery | everybody |
| Worker loop (`worker/service.py`, `worker/main.py`) | job id in a local variable, time of the last recovery, jobs since the last cleanup | claim, load, silence, ASR, diarization, persist, fail, poll | rows, other workers |
| Heartbeat thread (`worker/service.py`) | stop event | beat while RUNNING | rows, recovery |
| Recovery (`worker/service.py`) | an open transaction with row locks | settle stale RUNNING rows | rows, heartbeats, live workers |
| Input retention cleanup (`worker/cleanup.py`) | a snapshot of all rows | delete inputs whose jobs have all expired | uploads, workers |
| Artifact retention cleanup (`worker/cleanup.py`) | the entries listed at the start of a pass | delete files not modified for long, then empty directories | other cleaners, whoever writes artifacts |
| Silence precheck (`worker/silence.py`) | none | classify a file from ffprobe and ffmpeg output | worker |
| ASR and diarization adapters (`worker/asr.py`, `worker/diarization.py`) | models and pipeline cached in the process, with their device | check readiness, load, run, normalize | worker, GPU, model hub |
| Runtime checks, preflight (`worker/runtime_checks.py`, `worker/main.py`) | none | inspect both runtimes | adapters, operator |
| Results and read API (`worker/service.py`, `api/routes/jobs.py`) | the persisted result | build, project, answer | clients |
| Settings, database configuration, migrations, health | none at run time | | |

What is hard here, and to which component it belongs:

* **Interleaving.** Workers, heartbeat threads and recovery transactions of
  several processes write the same rows. Locks exist only while a transaction
  is open; `_persist_completed_job` and `_mark_job_failed` take none before
  they write.
* **Crashes and restarts.** A worker may die at any step. The only trace is a
  RUNNING row with an ageing timestamp.
* **Time.** A row is stale when its timestamp is older than
  `WORKER_STALE_AFTER_SECONDS`; the heartbeat must win that race whenever its
  worker is alive, and it runs for some stages only. The clocks of hosts differ.
* **Lost acknowledgements.** A commit that reached the database may raise.
* **Shared files.** Uploads of the same content share one file, in one API
  process or several, and cleanup decides from a snapshot.
* **Shared trees.** Several workers list, stat and delete entries of one
  artifact directory in separate system calls.
* **External tools.** ffmpeg may leave out parts of its output, engines fail
  lazily, the GPU comes and goes between two jobs of one process.

## Modules

| Module | What it is |
|---|---|
| `JobContract` | what a client of the API may rely on: the life of one row and its result, without workers |
| `JobLifecycle` | the queue, the worker loop, heartbeats, recovery, crashes and time |
| `JobLifecycleProofs` | theorems about `JobLifecycle` |
| `InputStorage` | uploads, shared input files, retention cleanup of inputs |
| `Backend` | `JobLifecycle` and `InputStorage` together: workers that process, recover and clean |
| `ArtifactCleanup` | concurrent retention cleanup of the artifact tree |
| `SilencePrecheck` | the classification that may skip transcription |
| `Transcripts` | pure operators: normalization and order of segments and turns |
| `JobResults` | the content of a result and its projection by the API (EXTENDS `Transcripts`) |
| `WorkerRuntime` | readiness, devices, model caches, classification of failures |
| `InputStorageProofs`, `BackendProofs`, `ArtifactCleanupProofs`, `SilencePrecheckProofs`, `TranscriptsProofs`, `JobResultsProofs`, `WorkerRuntimeProofs` | theorems about the module of that name |
| `MC*` | instances for TLC: symmetry sets and sets of values |

Each module defines, ahead of the code's operators, mutated forms of some of
them (`IsStale_AtThreshold`, `AfterRollback_Always`, ...). They are not part of
any specification. Each is a plausible bug that one property is known to catch:
`PROJECT.json` lists the pairs under `mutants`.

### JobLifecycle

State: `job` (status, result kind, error code and age of each row), and per
worker `pc`, `cur` (the claimed id), `verdict` (what it will persist or fail
with), `seen` (the error code `_persist_completed_job` loaded), `beat` (is the
heartbeat thread alive), `locked` and `stale` (open transaction), `due` (ticks
since the last recovery).

| Action | Code (`worker/service.py` unless noted) |
|---|---|
| `Submit` | `upload_job`, `api/routes/jobs.py:186-205` |
| `StartWorker` | `worker/main.py:29-67` |
| `ScanStaleRunningJobs`, `ReconcileStaleRunningJobs` | the SELECT and the commit of `reconcile_stale_running_jobs` |
| `SkipReconcile` | the cadence test of `run_worker_forever` |
| `SelectPendingJob`, `FindNothing`, `ClaimNextPendingJob` | the SELECT and the commit of `claim_next_pending_job` |
| `LoadClaimedJobContext` | `_load_claimed_job_context` and the start of the heartbeat |
| `InspectAudioSilence`, `TranscribeAudio`, `DiarizeAudio`, `StageFails` | the stages of `process_claimed_job` and its `except` clauses |
| `ReadForPersist`, `PersistCompletedJob`, `PersistRollsBack` | the two halves of `_persist_completed_job`, and its failure |
| `MarkJobFailed` | `_mark_job_failed` |
| `UpdateJobHeartbeat`, `HeartbeatDies` | `_JobHeartbeat._run`, `_update_job_heartbeat` |
| `Crash`, `Tick` | process death; time |

Modelling decisions a reader should know:

* A transaction is one action, except where code reads, decides and writes
  later without holding a lock, or holds a lock in between: those are two.
* `FOR UPDATE SKIP LOCKED` skips rows in `locked`; plain UPDATEs wait for them.
* The unit of work of SQLAlchemy leaves unchanged attributes out of an UPDATE.
  That matters once: `Completed` clears `error_code` only if the row that was
  *loaded* had one.
* Ages stand for timestamps, by the clock that wrote them. A scan reads the
  clock of its own host, which may be up to `MaxSkew` ticks ahead or behind: it
  compares `age + skew` with `StaleAfter`, for any such skew. Ages are reset to 0
  on rows that are not RUNNING, where nothing reads them, and saturate at
  `TooOld`, the first age that is stale by any clock. A RUNNING row without
  timestamps is stale at once and therefore has that age. `stale_before` is
  computed immediately before the SELECT; the model takes both at the same
  instant.
* `--once` and any exception the loop does not catch end the process: they are
  `Crash`, after which `StartWorker` may follow.
* `Init` allows rows that earlier runs left open (`Legacy`): PENDING, or RUNNING
  with any age, and with a result ("legacy") or without, the states that
  `tests/test_worker_lifecycle.py` and `tests/test_worker_recovery.py` set up. A
  worker that claims a row with a result fails it and keeps the result
  (`LoadOutcomes`, `worker/service.py:390-395`); recovery that finds such a row
  stale completes it. `JobContract` allows both, and both for one row: nothing
  replaces an old result, but COMPLETED is final only for a result that this
  deployment stored.
* A beat that is blocked on a lock when its thread is stopped may still be
  written after `stop()` gave up waiting. It would only make the row fresher
  while RUNNING; it is not modelled.
* The cleanup that the loop runs every N jobs touches files only; `Backend`
  adds it.

### InputStorage

State: per request `rpc`, `content`, `api` (the process that serves it),
`created`; the `.part` files, the final files, the status of each request's
row; `held`, the jobs that some worker is processing; per cleaning worker
whether a pass is `due`, the files it has `doomed` and the rows it read.
`snapshot`, `raced` and `withdrawn` are history variables: they change no
behaviour and let a property say *why* a file was lost.

| Action | Code |
|---|---|
| `Receive`, `Refuse`, `ProbeAudioDuration` | validation, the `.part` file and ffprobe (`services/uploads.py:44-161`, `api/routes/jobs.py:165-184`) |
| `CheckFinalPath`, `PlaceFile` | reuse or creation of the final file (`services/uploads.py:163-179`) |
| `CommitJob`, `CommitRaises` | the commit of `upload_job` (205) |
| `RollBack`, `RollBackRaises` | its `except` clause (206-210), which may itself raise and then leaves the file |
| `CrashApi` | death of an API process with all its requests |
| `Claim`, `LoadInput`, `LoadFails`, `Settle`, `Recover`, `SettleAgain`, `Abandon` | what workers do to rows, `JobLifecycle` in short |
| `Expire` | the retention period of a terminal row passes |
| `CleanupDue`, `RestartCleaner` | when `_cleanup_expired_input_files` is called |
| `ScanJobs`, `CleanupQueryFails` | its query and the choice of files (`Candidates`), or a query that raises (160-162) and ends the pass |
| `UnlinkExpired`, `UnlinkFails` | one deletion, or one that is skipped or fails (201-211) and leaves the file to a later pass |

`upload_job` is a coroutine: between its last `await` (in
`store_uploaded_audio`) and its return it does not give up the event loop, so
requests of the same API process never interleave there (`Section`). Requests
of other processes and workers do.

Two ways to lose an input are the code's own, and the properties name them
instead of excluding them: cleanup that decides from a snapshot without the job
(`raced`), and a rollback that removes a file somebody else relies on
(`withdrawn`): an upload in another API process that found the file, or the
request's own job, when its commit arrived although it raised. `Unaware` and
`Unseen` say exactly whom these may hit. The README and the Dockerfile of the
repository run one API process; the model has two.

`created` is dropped when its request ends, as nothing reads it afterwards.

### Backend

`Backend` extends `JobLifecycle` with the variables of `InputStorage` and
instantiates that module with two of its variables computed: `row` from `job`
(and, to tell a job whose input has not been looked for from the rest, from
where its worker is), and `held` from `cur` and `pc`. Upload `j` inserts row `j`.

| Action | Steps it joins |
|---|---|
| `UploadStep`, `CrashApi` | steps of an upload that leave rows alone |
| `InsertJob` | `Submit` and `CommitJob`, or `CommitRaises` with a row |
| `RunWorker` | any step of the worker's loop, if its input allows it (`InputAllows`) and it is not cleaning |
| `LaunchWorker` | `StartWorker`, with the startup cleanup ahead of it |
| `CadenceCleanup`, `CleanupStep` | the cleanup of `run_worker_forever` (`worker/service.py:745-763`), `processed` being `processed_jobs_since_cleanup` |
| `OutsideTheLoop`, `PassTime` | heartbeats, death, time |
| `ExpireJob` | the retention period of a settled row passes |

A worker is one thread: while a pass is under way it neither claims nor
recovers, and the startup pass comes after the startup recovery and before the
first claim. Settling a row again renews its `completed_at` and with it its
retention (`Refreshed`). `Init` is an empty database. Without its input,
loading fails the job, the precheck is inconclusive, transcription fails and
diarization degrades the result.

`ImplementsStorage` is the refinement `BackendSpec => Storage!Spec`: what
`InputStorage` assumes of workers, and when cleanup may run, is what the workers
of `JobLifecycle` do. Retention may pass at any moment after a row was settled,
even while the worker that lost the job to recovery still reads the input:
with retention periods of days this is far-fetched, with
`INPUT_RETENTION_DAYS=0` it is immediate, and `ReadersKeepInput` has it as its
one exception besides the two races.

### ArtifactCleanup

State: the tree (`mtime` of files, existing `dirs`), what each link resolves to,
directories without write permission (`locked`), the workers that run with
`store_intermediate_artifacts` (`storing`), the clock `now`, and per cleaner
its place `pc`, its `cutoff`, the listed entries its two loops have left
(`files`, `folders`) and the path that it has found expired or empty and is about
to remove (`checked`). `rewritten` and `alone` are history variables.

| Action | Code (`worker/cleanup.py`) |
|---|---|
| `CleanupDue`, `StartPass` | when `run_storage_cleanup` is called; its early returns (225-235) and `_build_cutoff` |
| `ListTree`, `TraversalFails` | `rglob` (237-241) |
| `InspectFile`, `UnlinkArtifact` | the two halves of the loop over files (247-283) |
| `InspectDir`, `RemoveDir` | the two halves of the loop over directories (285-317) |
| `EndPass`, `RestartCleaner` | return, death of the worker |
| `WriteArtifact`, `MakeDir` | whoever produces artifacts (external; nothing in the repository does yet) |

A path is the sequence of its parts, which is what `len(path.parts)` and
`is_relative_to` look at. The listing is one step: an entry that comes or goes
while the tree is walked is listed as if it had come or gone before or after.
(`rglob` of the Python 3.12 that `pyproject.toml` requires ignores directories
that vanish under it.) The setting `store_intermediate_artifacts` is
off by default (`core/settings.py:53`), and a worker whose setting is off leaves
the tree alone: `Init` chooses any set of workers that have it on. The root
exists all along: cleanup never removes it, and without a root there is nothing
to prune. A link is judged and acted on by what it resolves to;
`rglob` does not descend into it, and a link that dangles is neither file nor
directory and stays.

### SilencePrecheck, Transcripts, JobResults, WorkerRuntime

`SilencePrecheck` lets `Init` choose any pattern of sound and silence, models
what silencedetect reports for it (external), including two things it may leave
out: the first start, printed as a negative number that
`_SILENCE_START_PATTERN` does not match, and the end of a silence that reaches
the end of the file. ffprobe's duration is taken to be exact.

`Transcripts` holds the adapters' pure part. Python's `sorted` is modelled as
the stable sort it is, by what it returns and not by how: `Ordered` is the one
increasing enumeration of a finite set, `SortedBy` enumerates the positions of a
list by key and then by position, and `Kept`, a comprehension with an `if`,
enumerates the positions it keeps. Stated like this they can be reasoned about
without induction on lists. A text is the sequence of its parts; speakers are
numbered in the order of their names. The sort keys of `asr.py` have no text, so
segments that agree in id, start and end keep the order in which the engine
emitted them; `EmissionOrderShowsInTiesOnly` says that this is all that shows of
that order. Times are integers: a NaN passes the adapters' tests
(`worker/asr.py:96`, `worker/diarization.py:172`) and is not modelled.

`JobResults` follows one result from the engines' raw output through the
builders of `service.py` to the row and to the answer of
`GET /jobs/{id}/result`, which clients may ask for at any moment. Rows of
earlier versions without metadata are initial states, as in
`tests/test_jobs_api.py`: some have the segments of their text, others a text
(`LegacyTexts`) and no segments, for which the API answers an empty list next to
that text (`PublicSegments`). `raw` and `turns` are history variables.
`ResultsAssumption` says what every element an engine emits is in the model: a
segment whose attributes `int` and `float` accept has numbers, one that they
reject has `ok = FALSE` and numbers that nobody looks at.

`WorkerRuntime` is one worker process over many jobs: `env` is what
ctranslate2, torch and the model hub report, and changes between any two steps;
`models` and `pipeline` are the caches of the process. The chains of early
returns of `runtime_checks.py` are lists of checks (`AsrIssue`,
`DiarizationIssue`) whose first failing one is the issue.

## What the runs check

Bounds are chosen so that every action fires and every race the properties
speak of happens.

| Run | Instance | Checks |
|---|---|---|
| `lifecycle_safety` | 2 jobs, new or inherited in any open state, 3 workers (symmetric), beat 1, gap 2, skew 1, stale 3 | `SingleOwner`, `NoFalseInterruption`, `CompletedHasResult`, `EitherResultOrFailure`, `ReturnsSettled`, `ImplementsContract` |
| `lifecycle_liveness` | 2 jobs, 2 workers, skew 1, lost acknowledgements | `EverySettles` |
| `storage` | 2 uploads, 2 contents, 2 APIs, 1 cleaner, lost acknowledgements | `LossHasCause`, `NoOrphanInput`, `AnsweredLeavesNoPart`, `ExpiredInputsGo` |
| `backend` | 2 uploads, 2 workers that also clean, 1 API, all timing constants 1 | `ImplementsStorage`, `MissingInputHasCause`, `ReadersKeepInput` |
| `artifacts` | 2 cleaners, each with the setting on or off, 2 nested directories, 2 files, one link to any of 4 targets, 3 choices of locked directories | `RootAndOutsideStay`, `OnePassPrunes`, `NothingFreshGoes`, `TreeGetsPruned` |
| `silence_safety` | all files of up to 10 ticks, the thresholds of the code | `NoSpeechDiscarded`, `RealSilenceIsCaught` |
| `results_safety` | all transcripts of up to 3 of 8 segments, up to 2 of 4 turns, rows of earlier versions with and without segments | `TranscriptIsComplete`, `EmissionOrderShowsInTiesOnly`, `TranscriptFollowsTheClock`, `AnswerIsCoherent`, `SpeakersAreExplained` |
| `runtime_safety` | all profiles and devices, 3 installations, any environment | `RunsWhereReported`, `LoadsModelsOnce`, `PreflightPredicts` |

Two jobs and three workers are enough for a worker that lost its job, one that
recovers it and one that claims the next; the theorems remove the bound.
`HeartbeatInterval = 1`, `MaxBeatGap = 2`, `MaxSkew = 1`, `StaleAfter = 3` is the
tightest timing `LifecycleAssumption` allows with a gap longer than the interval,
so the late beat that arrives at exactly the limit of the fastest clock happens.
Two uploads are one that creates a file and one that reuses it, in the same
process or another; two contents let a worker die between two deletions of one
pass; one cleaner is enough for a snapshot older than an upload. In `backend` two
jobs and two workers are enough for a worker whose job was settled by the other
one, which then cleans; jobs grow stale at the first missed beat. There
acknowledgements are not lost and heartbeat threads do not die, for the size of
the instance; `storage` and the lifecycle runs have these faults. Nor is there
a second API process: of the two races, `backend` has that of cleanup, `storage`
has both, and `MissingInputIsExplained` is proved for both. In `artifacts`
the clock takes two values: a file of the first is expired at the second and one
written then is not, and two passes may have different cutoffs. The nested
directories make the order of removal matter, and the locked ones hold one file,
the other or neither.
Ten ticks hold two silences of the minimum length with sound between them.
Three segments are enough for two that collide and one between them; two of the
eight differ in their text only. The cache of ASR models has its real capacity
(12), which its six keys never fill: `LoadsModelsOnce` says that the size is
enough, and the mutant `Keep_One` shows a size that is not.

Four runs are expected to find a violation. Each checks a sentence of the
repository's documentation or tests that the code does not keep:

| Run | Statement | What happens |
|---|---|---|
| `lifecycle_untouched` | "healthy in-flight jobs remain untouched" (`ARCHITECTURE.md:97`) | diarization runs after the heartbeat stopped; a long one is interrupted by recovery |
| `lifecycle_clean` | a completed job has no error code (`tests/test_worker_recovery.py:189`) | recovery between read and write of the completion leaves its code |
| `storage_shared` | "shared input files must survive if any referencing job is still active" (`tests/test_worker_cleanup.py:272`) | cleanup deletes a file an upload has reused since the snapshot |
| `runtime_engine` | "should surface as the adapter's controlled error" (`tests/test_worker_asr.py:147`) | lazy engine failures become `processing_error` |

Three more things the code does were met on the way and have no run of their own.
A worker that lost its job to recovery still completes the FAILED row
(`worker/service.py:443` does not look at the status it replaces), which is why
`JobContract` has a step from `failed` to `completed`. And with
`LostAcks = TRUE` `EitherResultOrFailure` does not hold: a commit of the result
that reached the database but raised is followed by `_mark_job_failed`
(`worker/service.py:658`), so the job is FAILED and has a result. And the silence
precheck, documented as fail-open, lets the exception of diagnostics that do not
decode escape (`worker/silence.py:109`): the verdict `raised` of
`RunSilencedetect`.

### Fairness

`JobLifecycle`: a running worker keeps taking steps (weak fairness; the models
are assumed to return, as the code puts no timeout around them), a statement
that waits for a row lock is served in the end (strong fairness; PostgreSQL
queues the waiters of a row), time passes, a stopped worker is restarted by its
operator, and workers do not crash for ever. Nothing is assumed of uploads, of
stages succeeding, or of heartbeat threads staying alive.

`InputStorage`: a cleanup is best effort, and what fails once is left to a later
pass. So the query and the deletion of each file may fail at any time but not
every time (strong fairness of `ScanJobs` and of `UnlinkExpired` for each file;
a file that can never be deleted stays), and a worker does not die in its passes
for ever. That a cleanup becomes due is *not* assumed: the code triggers
it at startup and after every N processed jobs, so an idle worker never cleans.
`ExpiredInputsGo` has as its premise that some worker comes to clean again and
again.

`ArtifactCleanup`: `TreeGetsPruned` is about workers that keep processing jobs,
so that passes keep coming (weak fairness of `CleanUp`, which includes
`CleanupDue`); that is an assumption on the load, not a promise of the code.
Workers do not die in their passes and traversals do not fail for ever, and the
writers stop in the end: without the last the tree need never be pruned. Single
deletions may fail always (`locked`). The property is about deployments in which
one worker at least has `store_intermediate_artifacts` on (`storing # {}`); with
the default nobody ever prunes.

## What is proved

The proofs hold for every value of the constants that the named assumptions
allow: any number of jobs, workers, uploads, processes and files, any intervals,
any tree, files and lists of any length. Every safety property that a passing run
checks has a theorem.

### The queue (`JobLifecycleProofs`)

From `LifecycleAssumption` (the heartbeat interval is at most the longest gap
between two commits of a live heartbeat, and that gap and the clock skew together
are at most `StaleAfter`):

| Theorem | States |
|---|---|
| `Invariance` | `Spec => []IInv`, the inductive invariant |
| `TypeCorrectness` | `Spec => []TypeOK` |
| `ExclusiveOwnership` | `Spec => []SingleOwner` |
| `FreshJobsSurvive` | `Spec => []NoFalseInterruption` |
| `CompletionHasResult` | `Spec => []CompletedHasResult` |
| `SettledOneWay` | `Spec => []EitherResultOrFailure`, if `LostAcks = FALSE`: a FAILED row has no result but one that was there when the job was claimed |
| `ReturnsSettledRows` | `Spec => ReturnsSettled` |
| `Refinement` | `Spec => ImplementsContract`, if `LostAcks = FALSE` |

None of the properties is inductive. `IInv` adds what they rest on:

* `StageOK`: a worker holds a job exactly from the claim to the return, and its
  heartbeat lives only in the stages that have one;
* `LocksOK`: who holds which locks, that the rows in a recovery's hands are
  RUNNING, and that no row is locked twice;
* `OwnersOK`: a job some worker processes is not in the queue, which keeps
  everybody else from claiming it: recovery never puts a job back;
* `ResultsOK`: rows in the queue or RUNNING have no result that this deployment
  stored;
* `FreshOK`: the row of a protected worker is no older than `MaxBeatGap`,
  so no scan, whatever its clock, finds it stale, and none has. This is where the
  strictness of the staleness test, the skew and the timing assumption enter.

`AckOK` (the row a worker holds has no result of this deployment, and none at all
once loading has looked at it, unless the job is to be failed) needs
acknowledged commits and is a second invariant on top. Rows change only through
the operators `Claimed`, `Beaten`, `Failed`, `Completed`, `Reconciled`, `Older`;
lemmas on these operators state their effect once, and the refinement maps each of them to a step of the
contract.

### Input files (`InputStorageProofs`)

| Theorem | States |
|---|---|
| `StorageInvariance` | `Spec => []StorageInv`, the inductive invariant |
| `TypeCorrect` | `Spec => []TypeOK` |
| `LossIsExplained` | `Spec => []LossHasCause` |
| `FilesAreOwned` | `Spec => []NoOrphanInput` |
| `PartsAreRemoved` | `Spec => []AnsweredLeavesNoPart` |
| `CleanupTakesExpiredOnly` | `raced` stays empty as long as no job has expired |
| `RollBackTakesOwnFile` | `withdrawn` stays empty with one API process and acknowledged commits |
| `InputsSurviveWithoutRaces` | under both conditions, `[]ActiveInputSurvives` |

`StorageInv` says who relies on a file at every moment: requests of one process
are never in `Section` together (`OneInSection`), a request knows that it
created its file until its commit is settled (`UploadOK`), every stored file has
somebody responsible for it (`FileHasOwner`), whoever relies on a file has it or
is in `raced` or `withdrawn` (`ReliedOn`), a request that creates a file does so
in the face of an active job of its own process only if that job had lost it
(`CreatorIsFirst`), and what a pass saw expired stays settled (`PassOK`).

The last three theorems say that the run `storage_shared`, which finds the
sentence of `tests/test_worker_cleanup.py` violated, finds all there is: without
an expired job there is no race of cleanup, and with one API process whose
commits are acknowledged there is none of rollbacks. Their conditions are those
of the deployment the repository describes on a day on which nothing expires.

### The system (`BackendProofs`)

| Theorem | States |
|---|---|
| `QueueRuns` | `BackendSpec => Spec`, the queue's |
| `QueueInvariance` | `BackendSpec => []IInv` |
| `SystemKeepsContract` | `BackendSpec => ImplementsContract`, if `LostAcks = FALSE` |
| `RefinesStorage` | `BackendSpec => ImplementsStorage` |
| `SystemStorageInvariance` | `BackendSpec => []StorageInv`, of the storage it implements |
| `InputsStayForReaders` | `BackendSpec => []ReadersKeepInput` |
| `MissingInputIsExplained` | `BackendSpec => []MissingInputHasCause` |
| `NoInputIsMissing` | no job fails for want of its input with one API process and acknowledged commits, as long as none has expired |

Every step of the system is a step of the queue or leaves it alone, so `IInv`
carries over from `JobLifecycleProofs`. With it, each step maps to one of
`InputStorage` or to a stutter: `SingleOwner` and `OwnersOK` make the steps of
one worker steps on its own job, `StageOK` tells which of `Settle`,
`SettleAgain`, `LoadFails` and `Abandon` each is, and `ExpiredOK` (only settled
rows expire) is the one invariant to add. What is proved about
`InputStorage` then holds of the system, and the last three theorems combine it
with the queue's invariant. `Proved` is an instance of `InputStorageProofs` with
the same substitution as `Storage`; `SameStorage` says that they agree.

### Cleanup of artifacts (`ArtifactCleanupProofs`)

| Theorem | States |
|---|---|
| `CleanupInvariance` | `Spec => []CleanupInv` |
| `OutsideIsSafe` | `Spec => []RootAndOutsideStay` |
| `FreshFilesStay` | `Spec => NothingFreshGoes` |
| `AloneInvariance` | `Spec => []AloneOK`, for a pass nobody interferes with |
| `OnePassIsEnough` | `Spec => []OnePassPrunes` |

From `ArtifactAssumption`: paths are sequences of parts, an entry's parent is a
directory of the tree, and files, directories and links are distinct.
`CleanupInv` says that what a pass is about to remove lies below the root and is
expired, gone or written since it was looked at. `AloneOK` is about the order:
every file and directory that is still there is one the pass has yet to look at,
is about to remove, or has a reason to stay (`FilesLeft`, `DirsLeft`), and no
directory is looked at before the last file (`FilesFirst`). For a directory the
reason lies below it, and what lies below it has been dealt with only because
the code goes deepest first.

### Precheck, runtime, results

| Theorem | States |
|---|---|
| `SilencePrecheckProofs!PrecheckInvariance` | the verdict is that of marks that ffmpeg may print for the file |
| `SpeechIsKept` | `Spec => []NoSpeechDiscarded`, if `Tolerance < MinSilence` |
| `SilenceIsCaught` | `Spec => []RealSilenceIsCaught` |
| `WorkerRuntimeProofs!RuntimeInvariance` | the state of the stages, caches and devices |
| `StagesRunWhereReported` | `Spec => []RunsWhereReported` |
| `ReadyPredicts` | `Spec => PreflightPredicts` |
| `ModelsAreLoadedOnce` | `Spec => LoadsModelsOnce`, if `CacheSize >= 2 * Cardinality(Profiles)` |
| `JobResultsProofs!ResultsInvariance` | every result is one that a builder made of the engine's output |
| `NothingIsLostOrInvented` | `Spec => []TranscriptIsComplete` |
| `EngineOrderShowsInTiesOnly` | `Spec => []EmissionOrderShowsInTiesOnly` |
| `TheClockIsFollowed` | `Spec => []TranscriptFollowsTheClock` |
| `AnswersAreCoherent` | `Spec => []AnswerIsCoherent` |
| `MissingSpeakersAreExplained` | `Spec => []SpeakersAreExplained` |

`Tolerance < MinSilence` holds in the code (0.05 s against 0.2 s), and so does the
condition on the cache (12 against three profiles on two devices). Both are
hypotheses of the theorems and not of the modules, as nothing else needs them.
That the precheck is safe for files of any length rests on one fact: a gap of
at most the tolerance is shorter than any silence that ffmpeg reports.

`TranscriptsProofs` has the lemmas on lists. The place of an element in a sorted
list lies between the number of the smaller ones and the number of those that are
not larger (`PlaceInSort`), and these numbers do not depend on the order of the
list; so two sorts of rearranged lists have the same keys at every place
(`SortKeepsTheKeys`) and are equal if no two elements that differ share a key
(`SortForgetsTheOrder`). A comprehension of a rearranged list is a
rearrangement of the comprehension (`KeptOfRearranged`), and counts are the same
(`SameCounts`). Lemmas cannot take an operator such as `ById` as a parameter, so
they speak of keys given by functions, and `SortIsOnAKey` connects the two.

### Model-checked only

Liveness, which is out of the prover's reach: `EverySettles`, `ExpiredInputsGo`
and `TreeGetsPruned`. The four statements that the code does not keep are
refuted by TLC and have no theorem.

## Not modelled

* Settings, migrations, database configuration, application shell, health:
  without behaviour of their own.
* Names, extensions and content types of uploads, and path safety of
  `stored_path`, which the code writes itself; wording, logging and durations.
* A heartbeat interval, or a clock skew, above what the stale limit leaves room
  for. The settings allow both; they are excluded by assumption and listed as
  hazards.
* A model call that never returns: its heartbeat keeps the job RUNNING for ever.
* Times that are NaN, which the adapters let pass, and an artifact root that
  does not exist.
* Links into directories that may not be searched: `is_file()` raises outside of
  the `try` statements of `_cleanup_expired_artifacts` and ends the worker.
* Reads of a row by `GET /jobs` and `GET /jobs/{id}`, and the decoding of audio
  for diarization beyond the fact that it may fail.

## Plan

Done in this order: `JobContract`, `JobLifecycle` with its runs, its proofs,
`InputStorage`, `SilencePrecheck`, `Transcripts`, `JobResults`, `WorkerRuntime`;
then clock skew in `JobLifecycle` and its proofs, several API processes, lost
acknowledgements and re-settled jobs in `InputStorage`, `Backend`, and
`ArtifactCleanup`.

Then the proofs of `InputStorage`, `SilencePrecheck`, `WorkerRuntime`,
`ArtifactCleanup`, `Backend` (the refinement of `InputStorage` first), and
`JobResults`, for which sorting and comprehensions were restated in
`Transcripts` so that they can be reasoned about.

Next, proofs:

1. `JobLifecycle` under the contract when acknowledgements get lost: which part
   of `JobContract` is left then, and a theorem that it holds.
2. `JobLifecycle`: the safety half of `EverySettles`, that the remaining work of a
   row never grows, as the measure a liveness argument would use.
