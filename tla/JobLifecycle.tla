---------------------------- MODULE JobLifecycle ----------------------------
(***************************************************************************)
(* The life of a job in the PostgreSQL queue shared by the API and the     *)
(* workers (src/app/worker/service.py, src/app/worker/main.py): claiming,  *)
(* processing, heartbeats, persistence, and recovery of stale RUNNING      *)
(* rows, with workers that crash and restart at any step.                  *)
(*                                                                         *)
(* One action is one database transaction, one half of a transaction that  *)
(* reads before it writes, or one stage of the pipeline.  Row locks are    *)
(* modelled: FOR UPDATE SKIP LOCKED holds a lock from its SELECT to its    *)
(* commit, and any other UPDATE of a locked row waits.                     *)
(*                                                                         *)
(* Time: a RUNNING row carries the AGE of its liveness timestamp by the    *)
(* clock that wrote it, counted in ticks and saturated at TooOld.  The     *)
(* clock of a host that runs recovery may be MaxSkew ticks off.            *)
(***************************************************************************)
EXTENDS Integers

CONSTANTS
    NumJobs,            \* rows the table may ever hold
    Workers,            \* worker processes
    HeartbeatInterval,  \* WORKER_HEARTBEAT_INTERVAL_SECONDS, in ticks
    StaleAfter,         \* WORKER_STALE_AFTER_SECONDS, in ticks
    MaxBeatGap,         \* a live heartbeat thread commits at least this often
    MaxSkew,            \* the clocks of two hosts differ by at most this
    HeartbeatFaults,    \* may a heartbeat thread die of a database error?
    LostAcks            \* may a commit succeed and yet raise in the worker?

ASSUME LifecycleAssumption ==
    /\ NumJobs \in Nat
    /\ HeartbeatInterval \in Nat \ {0}
    /\ StaleAfter \in Nat \ {0}
    /\ MaxBeatGap \in Nat /\ MaxSkew \in Nat
    /\ HeartbeatInterval <= MaxBeatGap /\ MaxBeatGap + MaxSkew <= StaleAfter
    /\ HeartbeatFaults \in BOOLEAN
    /\ LostAcks \in BOOLEAN

Jobs  == 1..NumJobs     \* in claim order: (created_at, id)
NoJob == 0
\* Stale by any clock.
TooOld == StaleAfter + MaxSkew + 1

\* _get_reconciliation_interval_seconds
ReconcileInterval ==
    LET half == StaleAfter \div 2
    IN  IF HeartbeatInterval >= half THEN HeartbeatInterval ELSE half

VARIABLES
    job,        \* the rows of `jobs` joined with `job_results`
    pc,         \* where each worker is
    cur,        \* the job the worker holds in a local variable
    verdict,    \* result kind to persist, or the error code to fail with
    seen,       \* error code that _persist_completed_job loaded with the row
    beat,       \* is the worker's heartbeat thread alive?
    locked,     \* rows locked by the worker's open transaction
    stale,      \* rows the worker's open recovery transaction will settle
    due         \* ticks since the worker last reconciled, saturated

vars == <<job, pc, cur, verdict, seen, beat, locked, stale, due>>

Statuses    == {"absent", "pending", "running", "completed", "failed"}
\* Results this deployment stores, and one that an earlier deployment stored.
ResultKinds == {"silence", "diarized", "degraded", "legacy"}
ErrorCodes  == {"processing_interrupted", "processing_error",
                "missing_input_file", "asr_error"}
Rows == [status : Statuses, result : ResultKinds \cup {"none"},
         error : ErrorCodes \cup {"none"}, age : 0..TooOld]

Row(status, result, error, age) ==
    [status |-> status, result |-> result, error |-> error, age |-> age]

Idle    == {"down", "startup", "reconcile", "poll", "loop"}
\* process_claimed_job is on the stack.
Working == {"load", "inspect", "transcribe", "diarize", "persist", "flush",
            "fail"}
Locations == Idle \cup Working \cup {"claim"}

Pending(j) == job[j].status = "pending"
Running(j) == job[j].status = "running"
Settled(j) == job[j].status \in {"completed", "failed"}

-----------------------------------------------------------------------------
(* Bugs that the properties below would catch: each is a mutated form of   *)
(* the definition its name starts with.                                    *)

\* The staleness test is one tick too strict.
IsStale_AtThreshold(r, skew) == r.age + skew >= StaleAfter

\* The message is stored where the error code belongs.
Failed_Message(r, code) == Row("failed", r.result, "message", 0)

\* The result is stored and the terminal status forgotten.
Completed_NoStatus(r, kind, loaded) == [r EXCEPT !.result = kind]

\* A worker whose job recovery has failed stores its result and leaves the row
\* FAILED.
Completed_KeepsFailed(r, kind, loaded) ==
    IF r.status = "failed" THEN [r EXCEPT !.result = kind]
    ELSE Row("completed", kind, "none", 0)

\* Recovery completes the row whether or not it has a result.
Reconciled_AlwaysCompletes(r) == Row("completed", r.result, "none", 0)

\* Recovery puts an interrupted job back into the queue.
Reconciled_Requeues(r) == Row("pending", r.result, "none", 0)

\* Recovery leaves a row that already has a result alone.
Reconciled_SkipsResults(r) ==
    IF r.result = "none" THEN Row("failed", "none", "processing_interrupted", 0)
    ELSE r

\* The claim does not lock the row it selects, or does not skip locked rows.
Unlocked_Ignored(j) == j \in Jobs

-----------------------------------------------------------------------------
(* What each transaction does to a row.                                    *)

\* The liveness timestamp gets one tick older.  Only RUNNING rows have one
\* that anything reads.
Older(r) == IF r.status = "running" /\ r.age < TooOld
            THEN [r EXCEPT !.age = @ + 1] ELSE r

\* liveness_timestamp < stale_before, by a clock that is skew ahead; a row
\* without a timestamp is stale (TooOld).
IsStale(r, skew) == r.age + skew > StaleAfter

Claimed(r) == Row("running", r.result, "none", 0)

\* UPDATE ... WHERE status = 'running'
Beaten(r) == IF r.status = "running" THEN [r EXCEPT !.age = 0] ELSE r

Failed(r, code) == Row("failed", r.result, code, 0)

\* The unit of work writes only attributes that differ from what was loaded:
\* error_code is part of the UPDATE only if the row loaded had one.
Completed(r, kind, loaded) ==
    Row("completed", kind, IF loaded # "none" THEN "none" ELSE r.error, 0)

\* Recovery: a stale row with a result completes, one without fails.
Reconciled(r) ==
    IF r.result = "none"
    THEN Failed(r, "processing_interrupted")
    ELSE Row("completed", r.result, "none", 0)

\* How loading the claimed job may end: with its context ("none"), or with
\* the error it is failed with on the spot.  A job that has a result is failed
\* and keeps the result.
LoadOutcomes(r) == IF r.result # "none" THEN {"processing_error"}
                   ELSE {"none", "missing_input_file"}

Absent   == Row("absent", "none", "none", 0)
Inserted == Row("pending", "none", "none", 0)

-----------------------------------------------------------------------------
(* Row locks.                                                              *)

Unlocked(j) == \A w \in Workers : j \notin locked[w]

Claimable == {j \in Jobs : Pending(j) /\ Unlocked(j)}

-----------------------------------------------------------------------------
\* The worker moves on without its job: process_claimed_job returned.
Return(w) ==
    /\ pc' = [pc EXCEPT ![w] = "loop"]
    /\ cur' = [cur EXCEPT ![w] = NoJob]
    /\ verdict' = [verdict EXCEPT ![w] = "none"]
    /\ seen' = [seen EXCEPT ![w] = "none"]
    /\ beat' = [beat EXCEPT ![w] = FALSE]

Goto(w, loc, v) ==
    /\ pc' = [pc EXCEPT ![w] = loc]
    /\ verdict' = [verdict EXCEPT ![w] = v]

\* Rows an earlier deployment left open, PENDING or RUNNING, with a result or
\* without.  A RUNNING row may be of any age or have lost its timestamps
\* (TooOld).
LegacyResults == {"none", "legacy"}
Legacy ==
    [status : {"pending"}, result : LegacyResults, error : {"none"}, age : {0}]
    \cup [status : {"running"}, result : LegacyResults, error : {"none"},
          age : 0..TooOld]

Init ==
    /\ job \in [Jobs -> Legacy \cup {Absent}]
    /\ pc = [w \in Workers |-> "down"]
    /\ cur = [w \in Workers |-> NoJob]
    /\ verdict = [w \in Workers |-> "none"]
    /\ seen = [w \in Workers |-> "none"]
    /\ beat = [w \in Workers |-> FALSE]
    /\ locked = [w \in Workers |-> {}]
    /\ stale = [w \in Workers |-> {}]
    /\ due = [w \in Workers |-> 0]

\* upload_job commits a new PENDING row.
Submit(j) ==
    /\ job[j].status = "absent"
    /\ job' = [job EXCEPT ![j] = Inserted]
    /\ UNCHANGED <<pc, cur, verdict, seen, beat, locked, stale, due>>

StartWorker(w) ==
    /\ pc[w] = "down"
    /\ pc' = [pc EXCEPT ![w] = "startup"]
    /\ due' = [due EXCEPT ![w] = 0]
    /\ UNCHANGED <<job, cur, verdict, seen, beat, locked, stale>>

-----------------------------------------------------------------------------
(* Recovery: at startup, and from the loop when its interval has elapsed.  *)

ReconcileDue(w) ==
    \/ pc[w] = "startup"
    \/ pc[w] = "loop" /\ due[w] >= ReconcileInterval

\* SELECT ... WHERE status = 'running' FOR UPDATE SKIP LOCKED, and the
\* staleness test of each row it returned.
ScanStaleRunningJobs(w) ==
    /\ ReconcileDue(w)
    /\ pc' = [pc EXCEPT ![w] = "reconcile"]
    /\ locked' = [locked EXCEPT ![w] = {j \in Jobs : Running(j) /\ Unlocked(j)}]
    /\ \E skew \in (-MaxSkew)..MaxSkew :
        stale' = [stale EXCEPT ![w] = {j \in locked'[w] : IsStale(job[j], skew)}]
    /\ UNCHANGED <<job, cur, verdict, seen, beat, due>>

\* ... and its commit, after which the worker looks for work.
ReconcileStaleRunningJobs(w) ==
    /\ pc[w] = "reconcile"
    /\ job' = [j \in Jobs |-> IF j \in stale[w] THEN Reconciled(job[j]) ELSE job[j]]
    /\ pc' = [pc EXCEPT ![w] = "poll"]
    /\ locked' = [locked EXCEPT ![w] = {}]
    /\ stale' = [stale EXCEPT ![w] = {}]
    /\ due' = [due EXCEPT ![w] = 0]
    /\ UNCHANGED <<cur, verdict, seen, beat>>

SkipReconcile(w) ==
    /\ pc[w] = "loop"
    /\ due[w] < ReconcileInterval
    /\ pc' = [pc EXCEPT ![w] = "poll"]
    /\ UNCHANGED <<job, cur, verdict, seen, beat, locked, stale, due>>

-----------------------------------------------------------------------------
(* Claiming.                                                               *)

\* SELECT the oldest PENDING row FOR UPDATE SKIP LOCKED LIMIT 1.
SelectPendingJob(w) ==
    /\ pc[w] = "poll"
    /\ \E j \in Claimable :
        /\ \A k \in Claimable : j <= k
        /\ cur' = [cur EXCEPT ![w] = j]
        /\ locked' = [locked EXCEPT ![w] = {j}]
    /\ pc' = [pc EXCEPT ![w] = "claim"]
    /\ UNCHANGED <<job, verdict, seen, beat, stale, due>>

\* Nothing to claim: the worker sleeps for its poll interval.
FindNothing(w) ==
    /\ pc[w] = "poll"
    /\ Claimable = {}
    /\ pc' = [pc EXCEPT ![w] = "loop"]
    /\ UNCHANGED <<job, cur, verdict, seen, beat, locked, stale, due>>

ClaimNextPendingJob(w) ==
    /\ pc[w] = "claim"
    /\ job' = [job EXCEPT ![cur[w]] = Claimed(@)]
    /\ locked' = [locked EXCEPT ![w] = {}]
    /\ pc' = [pc EXCEPT ![w] = "load"]
    /\ UNCHANGED <<cur, verdict, seen, beat, stale, due>>

-----------------------------------------------------------------------------
(* Processing.  Any exception of a stage ends in _mark_job_failed.         *)

\* The context is loaded and the heartbeat starts, or the job is failed in
\* the loading transaction, which then waits for the row like any UPDATE.
LoadClaimedJobContext(w) ==
    /\ pc[w] = "load"
    /\ \E outcome \in LoadOutcomes(job[cur[w]]) :
        IF outcome = "none"
        THEN /\ pc' = [pc EXCEPT ![w] = "inspect"]
             /\ beat' = [beat EXCEPT ![w] = TRUE]
             /\ UNCHANGED <<job, cur, verdict, seen>>
        ELSE /\ Unlocked(cur[w])
             /\ job' = [job EXCEPT ![cur[w]] = Failed(@, outcome)]
             /\ Return(w)
    /\ UNCHANGED <<locked, stale, due>>

\* A silent input is persisted with the heartbeat still running; any other
\* classification continues with transcription.
InspectAudioSilence(w) ==
    /\ pc[w] = "inspect"
    /\ Goto(w, "persist", "silence") \/ Goto(w, "transcribe", "none")
    /\ UNCHANGED <<job, cur, seen, beat, locked, stale, due>>

\* The heartbeat context ends with transcription.
TranscribeAudio(w) ==
    /\ pc[w] = "transcribe"
    /\ Goto(w, "diarize", "none")
    /\ beat' = [beat EXCEPT ![w] = FALSE]
    /\ UNCHANGED <<job, cur, seen, locked, stale, due>>

\* DiarizationExecutionError degrades the result and does not fail the job.
DiarizeAudio(w) ==
    /\ pc[w] = "diarize"
    /\ \E kind \in {"diarized", "degraded"} : Goto(w, "persist", kind)
    /\ UNCHANGED <<job, cur, seen, beat, locked, stale, due>>

\* An exception of a stage: AsrExecutionError keeps its own code.  Leaving
\* the heartbeat context stops the thread first.
StageFails(w) ==
    /\ \/ pc[w] \in {"load", "inspect", "diarize"} /\ Goto(w, "fail", "processing_error")
       \/ pc[w] = "transcribe"
          /\ \E code \in {"asr_error", "processing_error"} : Goto(w, "fail", code)
    /\ beat' = [beat EXCEPT ![w] = FALSE]
    /\ UNCHANGED <<job, cur, seen, locked, stale, due>>

-----------------------------------------------------------------------------
(* _persist_completed_job reads the row, then writes it at its commit.  A  *)
(* row that has a result is failed instead of completed.                   *)

ReadForPersist(w) ==
    /\ pc[w] = "persist"
    /\ seen' = [seen EXCEPT ![w] = job[cur[w]].error]
    /\ IF job[cur[w]].result = "none" THEN Goto(w, "flush", verdict[w])
       ELSE Goto(w, "fail", "processing_error")
    /\ UNCHANGED <<job, cur, beat, locked, stale, due>>

\* The UPDATE waits for the row lock.  The commit succeeds and the worker
\* knows; or it succeeds and the acknowledgement is lost; or it rolls back.
PersistCompletedJob(w) ==
    /\ pc[w] = "flush"
    /\ Unlocked(cur[w])
    /\ job' = [job EXCEPT ![cur[w]] = Completed(@, verdict[w], seen[w])]
    /\ \/ Return(w)
       \/ /\ LostAcks
          /\ Goto(w, "fail", "processing_error")
          /\ UNCHANGED <<cur, seen, beat>>
    /\ UNCHANGED <<locked, stale, due>>

PersistRollsBack(w) ==
    /\ pc[w] \in {"persist", "flush"}
    /\ Goto(w, "fail", "processing_error")
    /\ UNCHANGED <<job, cur, seen, beat, locked, stale, due>>

\* _mark_job_failed: unconditional, whatever state the row is in by now.
MarkJobFailed(w) ==
    /\ pc[w] = "fail"
    /\ Unlocked(cur[w])
    /\ job' = [job EXCEPT ![cur[w]] = Failed(@, verdict[w])]
    /\ Return(w)
    /\ UNCHANGED <<locked, stale, due>>

-----------------------------------------------------------------------------
(* The heartbeat thread, crashes and time.                                 *)

\* One beat, at least an interval after the last; the thread ends when the
\* row is no longer RUNNING.
UpdateJobHeartbeat(w) ==
    /\ beat[w]
    /\ Unlocked(cur[w])
    /\ Running(cur[w]) => job[cur[w]].age >= HeartbeatInterval
    /\ job' = [job EXCEPT ![cur[w]] = Beaten(@)]
    /\ beat' = [beat EXCEPT ![w] = Running(cur[w])]
    /\ UNCHANGED <<pc, cur, verdict, seen, locked, stale, due>>

\* A database error in the thread ends it; the worker does not notice.
HeartbeatDies(w) ==
    /\ HeartbeatFaults
    /\ beat[w]
    /\ beat' = [beat EXCEPT ![w] = FALSE]
    /\ UNCHANGED <<job, pc, cur, verdict, seen, locked, stale, due>>

\* The process dies, or leaves on an exception its loop does not catch.  Its
\* open transaction rolls back and its row locks are released.
Crash(w) ==
    /\ pc[w] # "down"
    /\ pc' = [pc EXCEPT ![w] = "down"]
    /\ cur' = [cur EXCEPT ![w] = NoJob]
    /\ verdict' = [verdict EXCEPT ![w] = "none"]
    /\ seen' = [seen EXCEPT ![w] = "none"]
    /\ beat' = [beat EXCEPT ![w] = FALSE]
    /\ locked' = [locked EXCEPT ![w] = {}]
    /\ stale' = [stale EXCEPT ![w] = {}]
    /\ due' = [due EXCEPT ![w] = 0]
    /\ UNCHANGED job

\* The job the worker holds is being kept fresh: it was claimed a moment ago,
\* or its heartbeat thread is alive in a stage that ends with the job RUNNING.
Protected(w) ==
    \/ pc[w] = "load"
    \/ pc[w] \in {"inspect", "transcribe", "persist", "flush"} /\ beat[w]

\* A tick passes.  MaxBeatGap is the timing assumption: loading a claimed job
\* and committing one beat take less than it.
Tick ==
    /\ \A w \in Workers : Protected(w) => job[cur[w]].age < MaxBeatGap
    /\ job' = [j \in Jobs |-> Older(job[j])]
    /\ due' = [w \in Workers |-> IF pc[w] \notin {"down", "startup"}
                                    /\ due[w] < ReconcileInterval
                                 THEN due[w] + 1 ELSE due[w]]
    /\ UNCHANGED <<pc, cur, verdict, seen, beat, locked, stale>>

-----------------------------------------------------------------------------
WorkerStep(w) ==
    \/ ScanStaleRunningJobs(w) \/ ReconcileStaleRunningJobs(w) \/ SkipReconcile(w)
    \/ SelectPendingJob(w) \/ FindNothing(w) \/ ClaimNextPendingJob(w)
    \/ LoadClaimedJobContext(w) \/ InspectAudioSilence(w)
    \/ TranscribeAudio(w) \/ DiarizeAudio(w) \/ StageFails(w)
    \/ ReadForPersist(w) \/ PersistCompletedJob(w) \/ PersistRollsBack(w)
    \/ MarkJobFailed(w)

Next ==
    \/ \E j \in Jobs : Submit(j)
    \/ \E w \in Workers :
        \/ StartWorker(w) \/ WorkerStep(w) \/ Crash(w)
        \/ UpdateJobHeartbeat(w) \/ HeartbeatDies(w)
    \/ Tick

Spec == Init /\ [][Next]_vars

(***************************************************************************)
(* Fairness.  A worker that runs keeps taking steps (the models terminate),*)
(* and PostgreSQL serves the waiters of a row lock in turn, so a step that *)
(* waits for a row is only strongly fair.  Time passes.  Somebody restarts *)
(* a stopped worker, and workers do not crash for ever.                    *)
(***************************************************************************)
Fairness ==
    /\ WF_vars(Tick)
    /\ \A w \in Workers :
        /\ WF_vars(StartWorker(w))
        /\ WF_vars(WorkerStep(w))
        /\ SF_vars(LoadClaimedJobContext(w) \/ PersistCompletedJob(w) \/ MarkJobFailed(w))
        /\ SF_vars(UpdateJobHeartbeat(w))
        /\ <>[][~ Crash(w)]_vars

FairSpec == Spec /\ Fairness

-----------------------------------------------------------------------------
(* Type correctness.                                                       *)
TypeOK ==
    /\ job \in [Jobs -> Rows]
    /\ pc \in [Workers -> Locations]
    /\ cur \in [Workers -> Jobs \cup {NoJob}]
    /\ verdict \in [Workers -> ResultKinds \cup ErrorCodes \cup {"none"}]
    /\ seen \in [Workers -> ErrorCodes \cup {"none"}]
    /\ beat \in [Workers -> BOOLEAN]
    /\ locked \in [Workers -> SUBSET Jobs]
    /\ stale \in [Workers -> SUBSET Jobs]
    /\ due \in [Workers -> 0..ReconcileInterval]

\* No two workers ever hold the same job, from the SELECT of the claim to the
\* return of process_claimed_job, whatever crashed or was recovered meanwhile
\* (claim_next_pending_job: FOR UPDATE SKIP LOCKED).
SingleOwner ==
    \A v, w \in Workers : v # w /\ cur[v] # NoJob => cur[v] # cur[w]

\* A job that is kept fresh is RUNNING and no recovery transaction has decided
\* to settle it, although recovery compares timestamps of another clock:
\* heartbeats and the locks of the scan exclude the race between a late beat
\* and a worker that reads an old timestamp (_JobHeartbeat,
\* reconcile_stale_running_jobs).
NoFalseInterruption ==
    \A w \in Workers : Protected(w) =>
        /\ Running(cur[w])
        /\ \A v \in Workers : cur[w] \notin stale[v]

\* A COMPLETED row has its result, however it got there: by its worker, by
\* recovery of a row with a stored result, or by a worker whose job had been
\* failed under it (_persist_completed_job, reconcile_stale_running_jobs).
CompletedHasResult ==
    \A j \in Jobs : job[j].status = "completed" => job[j].result # "none"

\* A job settles with either a result or a terminal failure, never with both
\* (ARCHITECTURE.md: "persisting either a final result or a terminal failure"):
\* a FAILED row says why, and this deployment has stored no result for it, in
\* whatever order its worker, recovery and an earlier worker of the same row
\* came.  A result that was there when the job was claimed is kept
\* (_load_claimed_job_context; test_worker_lifecycle.py,
\* test_run_worker_once_fails_when_job_already_has_a_result).
EitherResultOrFailure ==
    \A j \in Jobs : job[j].status = "failed" =>
        job[j].result \in LegacyResults /\ job[j].error # "none"

\* process_claimed_job never returns with its job still open: on every path
\* out of it, the error paths and the lost races included, the row is settled.
ReturnsSettled ==
    [][\A w \in Workers : pc[w] \in Working /\ pc'[w] = "loop"
        => job'[cur[w]].status \in {"completed", "failed"}]_vars

\* The rows, seen by a client of the API, live the life of the contract.
Contract == INSTANCE JobContract WITH
    status <- [j \in Jobs |-> job[j].status],
    result <- [j \in Jobs |-> job[j].result]

\* Every step is a step of the contract: no row returns to the queue, no
\* result is replaced, a legacy one included, and no row fails whose result
\* this deployment has stored.
ImplementsContract == Contract!ContractSpec

\* Every accepted or RUNNING job is settled in the end, although workers
\* crash with it and rows are found with any timestamp.
EverySettles ==
    \A j \in Jobs : (Pending(j) \/ Running(j)) ~> Settled(j)

-----------------------------------------------------------------------------
(* Statements of the documentation and the tests that the code does not    *)
(* keep.                                                                   *)

\* "Healthy in-flight jobs remain untouched" (ARCHITECTURE.md), "keep one
\* claimed job fresh while it is actively being processed" (service.py): the
\* job of a live worker stays RUNNING until that worker settles it.
HealthyJobsUntouched ==
    \A w \in Workers :
        pc[w] \in {"load", "inspect", "transcribe", "diarize"} => Running(cur[w])

\* "assert job.error_code is None" of a completed job (test_worker_recovery.py).
CompletedIsClean ==
    \A j \in Jobs : job[j].status = "completed" => job[j].error = "none"

=============================================================================
