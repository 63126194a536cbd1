---------------------------- MODULE BackendProofs ----------------------------
(***************************************************************************)
(* Proofs about Backend: the queue and its workers do to rows and files    *)
(* what InputStorage assumes of them, step by step, so that everything     *)
(* proved of InputStorage holds of the whole system.                       *)
(***************************************************************************)
EXTENDS Backend, JobLifecycleProofs

\* Storage, with what is proved of it.
Proved == INSTANCE InputStorageProofs WITH
    Requests <- Jobs, Cleaners <- Workers,
    LostAcks <- UploadLostAcks, due <- cleaning,
    row <- [j \in Jobs |-> StorageRow(j)],
    held <- {j \in Jobs : HeldAt(j, Working \ {"load"})}

\* The step of InputStorage, or none, that a step of the system is.
StorageStep == Storage!Next \/ UNCHANGED Storage!vars

-----------------------------------------------------------------------------
(* The queue.                                                              *)

\* Only settled jobs are older than the retention period.
ExpiredOK == expired \subseteq {j \in Jobs : Settled(j)}

\* Without its uploads and files, the system is the queue.
LEMMA StepsOfTheQueue == [BackendNext]_allVars => [Next]_vars
<1> SUFFICES ASSUME [BackendNext]_allVars  PROVE [Next]_vars
  OBVIOUS
<1>1. ASSUME NEW j \in Jobs, UploadStep(j) \/ InsertJob(j) \/ ExpireJob(j)
      PROVE  [Next]_vars
  BY <1>1 DEF UploadStep, InsertJob, ExpireJob, Next
<1>2. ASSUME NEW p \in Apis, CrashApi(p)  PROVE [Next]_vars
  BY <1>2 DEF CrashApi
<1>3. ASSUME NEW w \in Workers,
             \/ RunWorker(w) \/ LaunchWorker(w) \/ OutsideTheLoop(w)
             \/ CadenceCleanup(w) \/ CleanupStep(w)
      PROVE  [Next]_vars
  BY <1>3
  DEF RunWorker, LaunchWorker, OutsideTheLoop, CadenceCleanup, CleanupStep, Next
<1>4. CASE PassTime  BY <1>4 DEF PassTime, Next
<1>5. CASE UNCHANGED allVars  BY <1>5 DEF allVars
<1>. QED  BY <1>1, <1>2, <1>3, <1>4, <1>5 DEF BackendNext

\* With uploads, cleanup and retention beside it, the queue does nothing that
\* it does not do alone (run_worker_forever).
THEOREM QueueRuns == BackendSpec => Spec
<1>1. BackendInit => Init  BY DEF BackendInit
<1>. QED  BY <1>1, StepsOfTheQueue, PTL DEF BackendSpec, Spec

\* So it keeps its inductive invariant (process_claimed_job).
THEOREM QueueInvariance == BackendSpec => []IInv
BY QueueRuns, Invariance, PTL

\* What a client may rely on holds of the whole system: rows and results live as
\* the contract says (api/routes/jobs.py, worker/service.py).
THEOREM SystemKeepsContract ==
    ASSUME LostAcks = FALSE
    PROVE  BackendSpec => ImplementsContract
<1>1. Spec => ImplementsContract  BY Refinement
<1>. QED  BY <1>1, QueueRuns, PTL

\* What is neither settled nor touched by a worker's step keeps its status.
LEMMA StepExpiredOK ==
    ASSUME IInv, ExpiredOK, [BackendNext]_allVars
    PROVE  ExpiredOK'
<1> USE DEF ExpiredOK, Settled
<1>0. job \in [Jobs -> Rows]
  BY DEF IInv, TypeOK
<1>1. ASSUME NEW j \in Jobs, UploadStep(j)  PROVE ExpiredOK'
  BY <1>1 DEF UploadStep, vars
<1>2. ASSUME NEW j \in Jobs, InsertJob(j)  PROVE ExpiredOK'
  <2>1. j \notin expired
    BY <1>2 DEF InsertJob, Submit
  <2>. QED  BY <1>0, <1>2, <2>1 DEF InsertJob, Submit
<1>3. ASSUME NEW j \in Jobs, ExpireJob(j)  PROVE ExpiredOK'
  BY <1>3 DEF ExpireJob, vars
<1>4. ASSUME NEW p \in Apis, CrashApi(p)  PROVE ExpiredOK'
  BY <1>4 DEF CrashApi, vars
<1>5. ASSUME NEW w \in Workers, RunWorker(w)  PROVE ExpiredOK'
  BY <1>5 DEF RunWorker, Refreshed
<1>6. ASSUME NEW w \in Workers, LaunchWorker(w)  PROVE ExpiredOK'
  BY <1>6 DEF LaunchWorker, StartWorker
<1>7. ASSUME NEW w \in Workers, OutsideTheLoop(w)  PROVE ExpiredOK'
  <2>1. CASE UpdateJobHeartbeat(w)
    <3>1. \A j \in Jobs : job'[j].status = job[j].status
      BY <1>0, <2>1, RowEffects DEF UpdateJobHeartbeat
    <3>. QED  BY <1>7, <3>1 DEF OutsideTheLoop
  <2>2. CASE HeartbeatDies(w) \/ Crash(w)
    BY <1>7, <2>2 DEF OutsideTheLoop, HeartbeatDies, Crash
  <2>. QED  BY <1>7, <2>1, <2>2 DEF OutsideTheLoop
<1>8. ASSUME NEW w \in Workers, CadenceCleanup(w) \/ CleanupStep(w)
      PROVE  ExpiredOK'
  BY <1>8 DEF CadenceCleanup, CleanupStep, vars
<1>9. CASE PassTime
  <2>1. \A j \in Jobs : job'[j].status = job[j].status
    BY <1>0, <1>9, RowEffects DEF PassTime, Tick
  <2>. QED  BY <1>9, <2>1 DEF PassTime
<1>10. CASE UNCHANGED allVars  BY <1>10 DEF allVars, vars
<1>. QED
  BY <1>1, <1>2, <1>3, <1>4, <1>5, <1>6, <1>7, <1>8, <1>9, <1>10 DEF BackendNext

-----------------------------------------------------------------------------
(* What InputStorage sees of a step: rows and the jobs that are held.      *)

Holds(j) == HeldAt(j, Working \ {"load"})
HeldJobs == {j \in Jobs : Holds(j)}

\* Worker w is the only one to move, and j the only job to change.
OnlyWorker(w) == \A v \in Workers \ {w} : pc'[v] = pc[v] /\ cur'[v] = cur[v]
OnlyJob(j) ==
    \A k \in Jobs \ {j} : job'[k] = job[k] /\ (k \in expired' <=> k \in expired)

\* A step that changes nothing InputStorage sees.
LEMMA StutterStep ==
    ASSUME UNCHANGED storageVars,
           \A j \in Jobs : StorageRow(j)' = StorageRow(j),
           \A j \in Jobs : Holds(j)' <=> Holds(j)
    PROVE  UNCHANGED Storage!vars
<1>1. [j \in Jobs |-> StorageRow(j)]' = [j \in Jobs |-> StorageRow(j)]
  OBVIOUS
<1>2. HeldJobs' = HeldJobs
  BY DEF HeldJobs
<1>. QED
  BY <1>1, <1>2
  DEF Storage!vars, Storage!requestVars, Storage!cleanupVars, storageVars,
      uploadVars, HeldJobs, Holds

\* A step that gives the rows of R the status that InputStorage calls `to'.
LEMMA MoveStep ==
    ASSUME NEW R \in SUBSET Jobs, NEW from, NEW to,
           UNCHANGED storageVars,
           \A j \in R : StorageRow(j) \in from /\ StorageRow(j)' = to,
           \A j \in Jobs \ R : StorageRow(j)' = StorageRow(j)
    PROVE  Storage!MoveRows(R, from, to)
<1>1. [j \in Jobs |-> StorageRow(j)]' =
        [r \in Jobs |-> IF r \in R THEN to ELSE [j \in Jobs |-> StorageRow(j)][r]]
  OBVIOUS
<1>2. \A r \in R : [j \in Jobs |-> StorageRow(j)][r] \in from
  OBVIOUS
<1>. QED
  BY <1>1, <1>2
  DEF Storage!MoveRows, Storage!requestVars, Storage!cleanupVars, storageVars,
      uploadVars

\* A worker that is not processing a job before or after its step is not seen.
LEMMA IdleStep ==
    ASSUME NEW w \in Workers, OnlyWorker(w), pc[w] \notin Working, pc'[w] \notin Working
    PROVE  \A j \in Jobs : /\ Holds(j)' <=> Holds(j)
                           /\ HeldAt(j, {"load"})' <=> HeldAt(j, {"load"})
BY DEF OnlyWorker, Holds, HeldAt, Working

\* A step of the worker that holds job j.
LEMMA OwnStep ==
    ASSUME IInv, NEW w \in Workers, NEW j \in Jobs, j = cur[w],
           cur'[w] \in {j, NoJob}, OnlyWorker(w)
    PROVE  /\ \A k \in Jobs \ {j} :
                /\ Holds(k)' <=> Holds(k)
                /\ HeldAt(k, {"load"})' <=> HeldAt(k, {"load"})
           /\ Holds(j) <=> pc[w] \in Working \ {"load"}
           /\ Holds(j)' <=> cur'[w] = j /\ pc'[w] \in Working \ {"load"}
           /\ HeldAt(j, {"load"}) <=> pc[w] = "load"
           /\ HeldAt(j, {"load"})' <=> cur'[w] = j /\ pc'[w] = "load"
<1>1. \A v \in Workers \ {w} : cur[v] # j /\ cur'[v] # j
  BY DEF IInv, OwnersOK, SingleOwner, OnlyWorker, Jobs, NoJob
<1>2. \A k \in Jobs \ {j} : cur[w] # k /\ cur'[w] # k
  BY DEF Jobs, NoJob
<1>. QED  BY <1>1, <1>2 DEF OnlyWorker, Holds, HeldAt

\* ... that leaves every other row alone.
LEMMA OwnRowStep ==
    ASSUME IInv, NEW w \in Workers, NEW j \in Jobs, j = cur[w],
           cur'[w] \in {j, NoJob}, OnlyWorker(w), OnlyJob(j)
    PROVE  /\ \A k \in Jobs \ {j} : StorageRow(k)' = StorageRow(k)
           /\ Holds(j)' => HeldJobs' = HeldJobs \cup {j}
           /\ ~ Holds(j)' => HeldJobs' = HeldJobs \ {j}
           /\ (Holds(j)' <=> Holds(j)) => HeldJobs' = HeldJobs
<1>1. \A k \in Jobs \ {j} : /\ Holds(k)' <=> Holds(k)
                            /\ HeldAt(k, {"load"})' <=> HeldAt(k, {"load"})
  BY OwnStep
<1>2. \A k \in Jobs \ {j} : StorageRow(k)' = StorageRow(k)
  BY <1>1 DEF OnlyJob, StorageRow, Pending, Running, Settled
<1>. QED  BY <1>1, <1>2 DEF HeldJobs

-----------------------------------------------------------------------------
(* The steps of a worker.                                                  *)

\* What the status of an open or settled row is to InputStorage.
LEMMA StatusSeen ==
    ASSUME NEW j \in Jobs
    PROVE  /\ Pending(j) => StorageRow(j) = "pending"
           /\ Running(j) /\ HeldAt(j, {"load"}) => StorageRow(j) = "claimed"
           /\ Running(j) /\ ~ HeldAt(j, {"load"}) => StorageRow(j) = "running"
           /\ Settled(j) /\ j \in expired => StorageRow(j) = "expired"
           /\ Settled(j) /\ j \notin expired => StorageRow(j) = "terminal"
BY DEF StorageRow, Pending, Running, Settled

\* A worker between two jobs, that changes no row.
LEMMA IdleWorkerStep ==
    ASSUME NEW w \in Workers, OnlyWorker(w),
           pc[w] \notin Working, pc'[w] \notin Working,
           UNCHANGED <<job, expired, storageVars>>
    PROVE  StorageStep
<1>1. \A j \in Jobs : /\ Holds(j)' <=> Holds(j)
                      /\ HeldAt(j, {"load"})' <=> HeldAt(j, {"load"})
  BY IdleStep
<1>2. \A j \in Jobs : StorageRow(j)' = StorageRow(j)
  BY <1>1 DEF StorageRow, Pending, Running, Settled
<1>. QED  BY <1>1, <1>2, StutterStep DEF StorageStep

\* The commit of a recovery.
LEMMA ReconcileStep ==
    ASSUME IInv, ExpiredOK, NEW w \in Workers, ReconcileStaleRunningJobs(w),
           Refreshed, UNCHANGED storageVars
    PROVE  StorageStep
<1>0. PICK R \in SUBSET Jobs : R = stale[w]
  BY DEF IInv, TypeOK
<1>1. \A j \in R : Running(j)
  BY <1>0 DEF IInv, LocksOK, ReconcileStaleRunningJobs
<1>2. OnlyWorker(w) /\ pc[w] \notin Working /\ pc'[w] \notin Working
  BY DEF ReconcileStaleRunningJobs, OnlyWorker, IInv, TypeOK, Working
<1>3. \A j \in Jobs : /\ Holds(j)' <=> Holds(j)
                      /\ HeldAt(j, {"load"})' <=> HeldAt(j, {"load"})
  BY <1>2, IdleStep
<1>4. \A j \in Jobs \ R : job'[j] = job[j]
  BY <1>0 DEF ReconcileStaleRunningJobs
<1>5. \A j \in Jobs \ R : StorageRow(j)' = StorageRow(j)
  BY <1>3, <1>4 DEF StorageRow, Pending, Running, Settled, Refreshed
<1>6. CASE R = {}
  BY <1>3, <1>5, <1>6, StutterStep DEF StorageStep
<1>7. CASE R # {}
  <2>1. ASSUME NEW j \in R
        PROVE  StorageRow(j) \in {"claimed", "running"} /\ StorageRow(j)' = "terminal"
    <3>1. Running(j)
      BY <1>1
    <3>2. job'[j].status \in {"completed", "failed"}
      BY <1>0, <1>1, RowEffects DEF ReconcileStaleRunningJobs, IInv, TypeOK
    <3>3. j \notin expired'
      BY <3>1 DEF ExpiredOK, Refreshed, Running, Settled
    <3>. QED
      BY <3>1, <3>2, <3>3 DEF StorageRow, Running, Pending, Settled
  <2>2. Storage!MoveRows(R, {"claimed", "running"}, "terminal")
    BY <1>1, <1>5, <2>1, MoveStep
  <2>3. HeldJobs' = HeldJobs
    BY <1>3 DEF HeldJobs
  <2>4. Storage!Recover(R)
    BY <2>2, <2>3 DEF Storage!Recover, HeldJobs, Holds
  <2>5. R \in (SUBSET Jobs) \ {{}}
    BY <1>7
  <2>6. \E Q \in (SUBSET Jobs) \ {{}} : Storage!Recover(Q)
    BY <2>4, <2>5
  <2>. QED  BY <2>6 DEF StorageStep, Storage!Next
<1>. QED  BY <1>6, <1>7

\* The worker that holds j changes the row of j.
LEMMA OwnMoveStep ==
    ASSUME IInv, NEW w \in Workers, NEW j \in Jobs, j = cur[w],
           cur'[w] \in {j, NoJob}, OnlyWorker(w), OnlyJob(j), UNCHANGED storageVars,
           NEW from, NEW to, StorageRow(j) \in from, StorageRow(j)' = to
    PROVE  Storage!MoveRows({j}, from, to)
<1>1. \A k \in Jobs \ {j} : StorageRow(k)' = StorageRow(k)
  BY OwnRowStep
<1>. QED  BY <1>1, MoveStep

\* ... or nothing that InputStorage sees.
LEMMA OwnStutterStep ==
    ASSUME IInv, NEW w \in Workers, NEW j \in Jobs, j = cur[w],
           cur'[w] \in {j, NoJob}, OnlyWorker(w), OnlyJob(j), UNCHANGED storageVars,
           StorageRow(j)' = StorageRow(j), Holds(j)' <=> Holds(j)
    PROVE  StorageStep
<1>1. \A k \in Jobs : StorageRow(k)' = StorageRow(k) /\ (Holds(k)' <=> Holds(k))
  BY OwnRowStep, OwnStep
<1>. QED  BY <1>1, StutterStep DEF StorageStep

\* Claiming a row is the Claim of InputStorage.
LEMMA ClaimStep ==
    ASSUME IInv, NEW w \in Workers, ClaimNextPendingJob(w), Refreshed,
           UNCHANGED storageVars
    PROVE  StorageStep
<1>0. PICK j \in Jobs : j = cur[w]
  BY DEF ClaimNextPendingJob, IInv, TypeOK, StageOK, Busy
<1>1. /\ OnlyWorker(w) /\ OnlyJob(j) /\ pc[w] = "claim" /\ pc'[w] = "load"
      /\ cur'[w] = j /\ Pending(j) /\ job'[j].status = "running"
  BY <1>0, RowEffects
  DEF ClaimNextPendingJob, OnlyWorker, OnlyJob, Refreshed, IInv, TypeOK, LocksOK
<1>2. ~ Holds(j) /\ ~ Holds(j)' /\ HeldAt(j, {"load"})'
  BY <1>0, <1>1, OwnStep DEF Working
<1>3. StorageRow(j) = "pending" /\ StorageRow(j)' = "claimed"
  BY <1>1, <1>2 DEF StorageRow, Pending, Running, Settled
<1>4. Storage!MoveRows({j}, {"pending"}, "claimed") /\ HeldJobs' = HeldJobs
  BY <1>0, <1>1, <1>2, <1>3, OwnMoveStep, OwnRowStep
<1>5. Storage!Claim(j)
  BY <1>4 DEF Storage!Claim, HeldJobs, Holds
<1>. QED  BY <1>5 DEF StorageStep, Storage!Next

\* What InputStorage knows of the row of a worker that is processing it.
LEMMA OwnStatus ==
    ASSUME IInv, NEW w \in Workers, NEW j \in Jobs, j = cur[w], pc[w] \in Working
    PROVE  /\ pc[w] = "load" => Running(j) /\ StorageRow(j) = "claimed"
           /\ pc[w] # "load" =>
                \/ Running(j) /\ StorageRow(j) = "running"
                \/ Settled(j) /\ StorageRow(j) \in {"terminal", "expired"}
<1>1. HeldAt(j, {"load"}) <=> pc[w] = "load"
  BY DEF IInv, OwnersOK, SingleOwner, HeldAt, Jobs, NoJob
<1>2. Running(j) \/ Settled(j)
  BY DEF IInv, TypeOK, OwnersOK, Running, Settled, Rows, Statuses
<1>3. pc[w] = "load" => Running(j)
  BY DEF IInv, FreshOK, Protected
<1>. QED  BY <1>1, <1>2, <1>3, StatusSeen

\* A worker that settles its row, perhaps not the first to do so.
LEMMA SettleStep ==
    ASSUME IInv, ExpiredOK, NEW w \in Workers, NEW j \in Jobs, j = cur[w],
           pc[w] \in Working \ {"load"}, OnlyWorker(w),
           cur'[w] = NoJob \/ (cur'[w] = j /\ pc'[w] \in Working \ {"load"}),
           \A k \in Jobs \ {j} : job'[k] = job[k],
           job'[j].status \in {"completed", "failed"},
           Refreshed, UNCHANGED storageVars
    PROVE  StorageStep
<1>1. OnlyJob(j) /\ j # NoJob
  BY DEF OnlyJob, Refreshed, Jobs, NoJob
<1>2. Holds(j) /\ (Holds(j)' <=> cur'[w] = j)
  BY <1>1, OwnStep
<1>3. /\ ~ Holds(j)' => HeldJobs' = HeldJobs \ {j}
      /\ Holds(j)' => HeldJobs' = HeldJobs
  BY <1>1, <1>2, OwnRowStep
<1>4. StorageRow(j)' = IF j \in expired' THEN "expired" ELSE "terminal"
  BY DEF StorageRow, Pending, Running, Settled
<1>5. CASE Running(j)
  <2>1. StorageRow(j) = "running" /\ StorageRow(j)' = "terminal"
    BY <1>4, <1>5, OwnStatus DEF ExpiredOK, Refreshed, Running, Settled
  <2>2. Storage!MoveRows({j}, {"claimed", "running"}, "terminal")
    BY <1>1, <2>1, OwnMoveStep
  <2>3. CASE Holds(j)'
    <3>1. Storage!Recover({j})
      BY <1>3, <2>2, <2>3 DEF Storage!Recover, HeldJobs, Holds
    <3>2. \E Q \in (SUBSET Jobs) \ {{}} : Storage!Recover(Q)
      BY <3>1
    <3>. QED  BY <3>2 DEF StorageStep, Storage!Next
  <2>4. CASE ~ Holds(j)'
    <3>1. Storage!Settle(j)
      BY <1>3, <2>2, <2>4 DEF Storage!Settle, HeldJobs, Holds
    <3>. QED  BY <3>1 DEF StorageStep, Storage!Next
  <2>. QED  BY <2>3, <2>4
<1>6. CASE Settled(j) /\ j \notin expired'
  <2>1. StorageRow(j) \in {"terminal", "expired"} /\ StorageRow(j)' = "terminal"
    BY <1>4, <1>6, OwnStatus DEF Running, Settled
  <2>2. Storage!MoveRows({j}, {"terminal", "expired"}, "terminal")
    BY <1>1, <2>1, OwnMoveStep
  <2>3. HeldJobs' \in {HeldJobs, HeldJobs \ {j}} /\ j \in HeldJobs
    BY <1>2, <1>3 DEF HeldJobs
  <2>4. Storage!SettleAgain(j)
    BY <2>2, <2>3 DEF Storage!SettleAgain, HeldJobs, Holds
  <2>. QED  BY <2>4 DEF StorageStep, Storage!Next
<1>7. CASE Settled(j) /\ j \in expired'
  <2>1. StorageRow(j)' = StorageRow(j)
    BY <1>4, <1>7, StatusSeen DEF Refreshed
  <2>2. CASE Holds(j)'
    BY <1>1, <1>2, <2>1, <2>2, OwnStutterStep
  <2>3. CASE ~ Holds(j)'
    <3>1. \A k \in Jobs : StorageRow(k)' = StorageRow(k)
      BY <1>1, <2>1, OwnRowStep
    <3>2. Storage!MoveRows({}, {}, "running")
      BY <3>1, MoveStep
    <3>3. j \in HeldJobs /\ HeldJobs' = HeldJobs \ {j}
      BY <1>2, <1>3, <2>3 DEF HeldJobs
    <3>4. Storage!Abandon(j)
      BY <3>2, <3>3 DEF Storage!Abandon, HeldJobs, Holds
    <3>. QED  BY <3>4 DEF StorageStep, Storage!Next
  <2>. QED  BY <2>2, <2>3
<1>. QED  BY <1>5, <1>6, <1>7, OwnStatus

\* Loading a job finds its file or fails the job on the spot.
LEMMA LoadStep ==
    ASSUME IInv, ExpiredOK, NEW w \in Workers, LoadClaimedJobContext(w),
           InputAllows(w), Refreshed, UNCHANGED storageVars
    PROVE  StorageStep
<1>0. PICK j \in Jobs : j = cur[w]
  BY DEF LoadClaimedJobContext, IInv, TypeOK, StageOK, Busy, Working
<1>1. /\ pc[w] = "load" /\ OnlyWorker(w) /\ cur'[w] \in {j, NoJob} /\ OnlyJob(j)
      /\ Running(j) /\ StorageRow(j) = "claimed" /\ j \notin expired
  <2>1. pc[w] = "load"
    BY DEF LoadClaimedJobContext
  <2>2. OnlyWorker(w) /\ cur'[w] \in {j, NoJob}
    BY <1>0 DEF LoadClaimedJobContext, Return, OnlyWorker, IInv, TypeOK
  <2>3. \A k \in Jobs \ {j} : job'[k] = job[k]
    BY <1>0 DEF LoadClaimedJobContext, IInv, TypeOK
  <2>4. Running(j) /\ StorageRow(j) = "claimed"
    BY <1>0, <2>1, OwnStatus DEF Working
  <2>. QED
    BY <2>1, <2>2, <2>3, <2>4
    DEF OnlyJob, Refreshed, ExpiredOK, Running, Settled
<1>2. PICK outcome \in LoadOutcomes(job[j]) :
        IF outcome = "none"
        THEN /\ pc' = [pc EXCEPT ![w] = "inspect"] /\ UNCHANGED <<job, cur>>
        ELSE job' = [job EXCEPT ![j] = Failed(@, outcome)] /\ Return(w)
  BY <1>0 DEF LoadClaimedJobContext
<1>3. CASE outcome = "none"
  <2>1. pc'[w] = "inspect" /\ cur'[w] = j /\ job' = job
    BY <1>0, <1>2, <1>3 DEF IInv, TypeOK
  <2>2. Holds(j)' /\ ~ HeldAt(j, {"load"})'
    BY <1>0, <1>1, <2>1, OwnStep DEF Working
  <2>3. StorageRow(j)' = "running"
    BY <1>1, <2>1, <2>2 DEF StorageRow, Pending, Running, Settled
  <2>4. Storage!MoveRows({j}, {"claimed"}, "running") /\ HeldJobs' = HeldJobs \cup {j}
    BY <1>0, <1>1, <2>2, <2>3, OwnMoveStep, OwnRowStep
  <2>5. content[j] \in files
    BY <1>0, <1>1, <2>1 DEF InputAllows, InputPresent
  <2>6. Storage!LoadInput(j)
    BY <2>4, <2>5 DEF Storage!LoadInput, HeldJobs, Holds
  <2>. QED  BY <2>6 DEF StorageStep, Storage!Next
<1>4. CASE outcome # "none"
  <2>1. cur'[w] = NoJob /\ NoJob # j
    BY <1>2, <1>4 DEF Return, IInv, TypeOK, Jobs, NoJob
  <2>2. job'[j] = Failed(job[j], outcome)
    BY <1>2, <1>4 DEF IInv, TypeOK
  <2>3. job'[j].status = "failed" /\ job'[j].error = outcome
    BY <2>2, RowEffects DEF IInv, TypeOK
  <2>4. ~ Holds(j) /\ ~ Holds(j)'
    BY <1>0, <1>1, <2>1, OwnStep
  <2>5. StorageRow(j)' = "terminal"
    BY <1>1, <2>3 DEF StorageRow, Pending, Running, Settled, Refreshed
  <2>6. HeldJobs' = HeldJobs /\ HeldJobs' = HeldJobs \ {j}
    BY <1>0, <1>1, <2>4, OwnRowStep
  <2>7. CASE outcome = "missing_input_file"
    <3>1. content[j] \notin files
      BY <1>0, <1>1, <2>3, <2>7 DEF InputAllows, InputPresent
    <3>2. Storage!MoveRows({j}, {"claimed"}, "terminal")
      BY <1>0, <1>1, <2>5, OwnMoveStep
    <3>3. Storage!LoadInput(j)
      BY <2>6, <3>1, <3>2 DEF Storage!LoadInput, HeldJobs, Holds
    <3>. QED  BY <3>3 DEF StorageStep, Storage!Next
  <2>8. CASE outcome # "missing_input_file"
    <3>1. Storage!MoveRows({j}, {"claimed", "running"}, "terminal")
      BY <1>0, <1>1, <2>5, OwnMoveStep
    <3>2. Storage!Settle(j)
      BY <2>6, <3>1 DEF Storage!Settle, HeldJobs, Holds
    <3>. QED  BY <3>2 DEF StorageStep, Storage!Next
  <2>. QED  BY <2>7, <2>8
<1>. QED  BY <1>3, <1>4

\* A stage after loading leaves the job, with its row, to the next.
LEMMA StageStep ==
    ASSUME IInv, NEW w \in Workers, OnlyWorker(w), cur' = cur,
           pc[w] \in Working \ {"load"}, pc'[w] \in Working \ {"load"},
           UNCHANGED <<job, expired, storageVars>>
    PROVE  StorageStep
<1>0. PICK j \in Jobs : j = cur[w]
  BY DEF IInv, TypeOK, StageOK, Busy
<1>1. OnlyJob(j) /\ cur'[w] = j
  BY <1>0 DEF OnlyJob
<1>2. (Holds(j)' <=> Holds(j)) /\ ~ HeldAt(j, {"load"})' /\ ~ HeldAt(j, {"load"})
  BY <1>0, <1>1, OwnStep
<1>3. StorageRow(j)' = StorageRow(j)
  BY <1>2 DEF StorageRow, Pending, Running, Settled
<1>. QED  BY <1>0, <1>1, <1>2, <1>3, OwnStutterStep

\* Loading raises, and the worker goes on to fail the job.
LEMMA LoadFailsStep ==
    ASSUME IInv, NEW w \in Workers, OnlyWorker(w), cur' = cur,
           pc[w] = "load", pc'[w] = "fail", UNCHANGED <<job, expired, storageVars>>
    PROVE  StorageStep
<1>0. PICK j \in Jobs : j = cur[w]
  BY DEF IInv, TypeOK, StageOK, Busy, Working
<1>1. /\ OnlyJob(j) /\ cur'[w] = j /\ Running(j) /\ StorageRow(j) = "claimed"
  BY <1>0, OwnStatus DEF OnlyJob, Working
<1>2. Holds(j)' /\ ~ HeldAt(j, {"load"})'
  BY <1>0, <1>1, OwnStep DEF Working
<1>3. StorageRow(j)' = "running"
  BY <1>1, <1>2 DEF StorageRow, Pending, Running, Settled
<1>4. Storage!MoveRows({j}, {"claimed"}, "running") /\ HeldJobs' = HeldJobs \cup {j}
  BY <1>0, <1>1, <1>2, <1>3, OwnMoveStep, OwnRowStep
<1>5. Storage!LoadFails(j)
  BY <1>4 DEF Storage!LoadFails, HeldJobs, Holds
<1>. QED  BY <1>5 DEF StorageStep, Storage!Next

\* The worker dies: before the job is loaded nobody is left to look for its
\* input, and after that nobody reads it any more.
LEMMA CrashStep ==
    ASSUME IInv, NEW w \in Workers, Crash(w), UNCHANGED <<storageVars, expired>>
    PROVE  StorageStep
<1>1. /\ OnlyWorker(w) /\ cur'[w] = NoJob /\ pc'[w] = "down" /\ job' = job
  BY DEF Crash, OnlyWorker, IInv, TypeOK
<1>2. CASE pc[w] \notin Working
  BY <1>1, <1>2, IdleWorkerStep DEF Working
<1>3. CASE pc[w] \in Working
  <2>0. PICK j \in Jobs : j = cur[w]
    BY <1>3 DEF IInv, TypeOK, StageOK, Busy
  <2>1. OnlyJob(j) /\ j # NoJob
    BY <1>1 DEF OnlyJob, Jobs, NoJob
  <2>2. ~ Holds(j)' /\ ~ HeldAt(j, {"load"})' /\ (Holds(j) <=> pc[w] # "load")
    BY <1>1, <1>3, <2>0, <2>1, OwnStep
  <2>3. CASE pc[w] = "load"
    <3>1. Running(j) /\ StorageRow(j) = "claimed"
      BY <1>3, <2>0, <2>3, OwnStatus
    <3>2. StorageRow(j)' = "running"
      BY <1>1, <2>2, <3>1 DEF StorageRow, Pending, Running, Settled
    <3>3. Storage!MoveRows({j}, {"claimed"}, "running") /\ HeldJobs' = HeldJobs
      BY <1>1, <2>0, <2>1, <2>2, <2>3, <3>1, <3>2, OwnMoveStep, OwnRowStep
    <3>4. Storage!Abandon(j)
      BY <3>3 DEF Storage!Abandon, HeldJobs, Holds
    <3>. QED  BY <3>4 DEF StorageStep, Storage!Next
  <2>4. CASE pc[w] # "load"
    <3>1. StorageRow(j)' = StorageRow(j)
      <4>1. ~ HeldAt(j, {"load"})
        BY <1>1, <2>0, <2>1, <2>4, OwnStep
      <4>. QED  BY <1>1, <2>2, <4>1 DEF StorageRow, Pending, Running, Settled
    <3>2. \A k \in Jobs : StorageRow(k)' = StorageRow(k)
      BY <1>1, <2>0, <2>1, <3>1, OwnRowStep
    <3>3. Storage!MoveRows({}, {}, "running")
      BY <3>2, MoveStep
    <3>4. j \in HeldJobs /\ HeldJobs' = HeldJobs \ {j}
      BY <1>1, <2>0, <2>1, <2>2, <2>4, OwnRowStep DEF HeldJobs
    <3>5. Storage!Abandon(j)
      BY <3>3, <3>4 DEF Storage!Abandon, HeldJobs, Holds
    <3>. QED  BY <3>5 DEF StorageStep, Storage!Next
  <2>. QED  BY <2>3, <2>4
<1>. QED  BY <1>2, <1>3

\* Every step of the worker's loop.
LEMMA RunStep ==
    ASSUME IInv, ExpiredOK, NEW w \in Workers, RunWorker(w)
    PROVE  StorageStep
<1>a. InputAllows(w) /\ Refreshed /\ UNCHANGED storageVars /\ WorkerStep(w)
  BY DEF RunWorker
<1>b. job' = job => expired' = expired
  BY <1>a DEF Refreshed
<1> USE DEF IInv, TypeOK
<1>1. CASE ScanStaleRunningJobs(w)
  BY <1>a, <1>b, <1>1, IdleWorkerStep
  DEF ScanStaleRunningJobs, ReconcileDue, OnlyWorker, Working
<1>2. CASE ReconcileStaleRunningJobs(w)  BY <1>a, <1>2, ReconcileStep
<1>3. CASE SkipReconcile(w)
  BY <1>a, <1>b, <1>3, IdleWorkerStep DEF SkipReconcile, OnlyWorker, Working
<1>4. CASE SelectPendingJob(w)
  <2>1. OnlyWorker(w)
    BY <1>4 DEF SelectPendingJob, OnlyWorker
  <2>2. pc[w] = "poll" /\ pc'[w] = "claim" /\ job' = job
    BY <1>4 DEF SelectPendingJob
  <2>. QED  BY <1>a, <1>b, <2>1, <2>2, IdleWorkerStep DEF Working
<1>5. CASE FindNothing(w)
  BY <1>a, <1>b, <1>5, IdleWorkerStep DEF FindNothing, OnlyWorker, Working
<1>6. CASE ClaimNextPendingJob(w)  BY <1>a, <1>6, ClaimStep
<1>7. CASE LoadClaimedJobContext(w)  BY <1>a, <1>7, LoadStep
<1>8. CASE InspectAudioSilence(w)
  BY <1>a, <1>b, <1>8, StageStep DEF InspectAudioSilence, Goto, OnlyWorker, Working
<1>9. CASE TranscribeAudio(w)
  BY <1>a, <1>b, <1>9, StageStep DEF TranscribeAudio, Goto, OnlyWorker, Working
<1>10. CASE DiarizeAudio(w)
  BY <1>a, <1>b, <1>10, StageStep DEF DiarizeAudio, Goto, OnlyWorker, Working
<1>11. CASE StageFails(w)
  <2>1. /\ OnlyWorker(w) /\ cur' = cur /\ job' = job /\ pc'[w] = "fail"
        /\ pc[w] \in {"load", "inspect", "transcribe", "diarize"}
    BY <1>11 DEF StageFails, Goto, OnlyWorker
  <2>. QED  BY <1>a, <1>b, <2>1, LoadFailsStep, StageStep DEF Working
<1>12. CASE ReadForPersist(w)
  BY <1>a, <1>b, <1>12, StageStep DEF ReadForPersist, Goto, OnlyWorker, Working
<1>13. CASE PersistCompletedJob(w)
  <2>0. PICK j \in Jobs : j = cur[w]
    BY <1>13 DEF PersistCompletedJob, StageOK, Busy, Working
  <2>1. /\ pc[w] \in Working \ {"load"} /\ OnlyWorker(w)
        /\ cur'[w] = NoJob \/ (cur'[w] = j /\ pc'[w] \in Working \ {"load"})
    <3>1. CASE Return(w)
      BY <1>13, <3>1 DEF PersistCompletedJob, Return, OnlyWorker, Working
    <3>2. CASE Goto(w, "fail", "processing_error") /\ UNCHANGED cur
      BY <1>13, <2>0, <3>2 DEF PersistCompletedJob, Goto, OnlyWorker, Working
    <3>. QED  BY <1>13, <3>1, <3>2 DEF PersistCompletedJob
  <2>2. job' = [job EXCEPT ![j] = Completed(job[j], verdict[w], seen[w])]
    BY <1>13, <2>0 DEF PersistCompletedJob
  <2>3. /\ \A k \in Jobs \ {j} : job'[k] = job[k]
        /\ job'[j].status = "completed"
    BY <2>2, RowEffects
  <2>4. job'[j].status \in {"completed", "failed"}
    BY <2>3
  <2> HIDE DEF IInv, TypeOK
  <2>. QED  BY <1>a, <2>0, <2>1, <2>3, <2>4, SettleStep
<1>14. CASE PersistRollsBack(w)
  BY <1>a, <1>b, <1>14, StageStep DEF PersistRollsBack, Goto, OnlyWorker, Working
<1>15. CASE MarkJobFailed(w)
  <2>0. PICK j \in Jobs : j = cur[w]
    BY <1>15 DEF MarkJobFailed, StageOK, Busy, Working
  <2>1. pc[w] \in Working \ {"load"} /\ OnlyWorker(w) /\ cur'[w] = NoJob
    BY <1>15 DEF MarkJobFailed, Return, OnlyWorker, Working
  <2>2. job' = [job EXCEPT ![j] = Failed(job[j], verdict[w])]
    BY <1>15, <2>0 DEF MarkJobFailed
  <2>3. /\ \A k \in Jobs \ {j} : job'[k] = job[k]
        /\ job'[j].status = "failed"
    BY <2>2, RowEffects
  <2>4. job'[j].status \in {"completed", "failed"}
    BY <2>3
  <2> HIDE DEF IInv, TypeOK
  <2>. QED  BY <1>a, <2>0, <2>1, <2>3, <2>4, SettleStep
<1>. QED
  BY <1>a, <1>1, <1>2, <1>3, <1>4, <1>5, <1>6, <1>7, <1>8, <1>9, <1>10, <1>11,
     <1>12, <1>13, <1>14, <1>15 DEF WorkerStep

-----------------------------------------------------------------------------
(* Refinement: every step of the system is a step of InputStorage.         *)

\* Every step of the system is a step of InputStorage or leaves its variables
\* alone.
LEMMA StepsOfTheStorage ==
    ASSUME IInv, ExpiredOK, [BackendNext]_allVars
    PROVE  StorageStep
<1> USE DEF StorageStep
<1>1. ASSUME NEW j \in Jobs, UploadStep(j) \/ InsertJob(j)  PROVE StorageStep
  BY <1>1 DEF UploadStep, InsertJob, Storage!Next
<1>2. ASSUME NEW j \in Jobs, ExpireJob(j)  PROVE StorageStep
  <2>1. /\ UNCHANGED <<job, pc, cur, storageVars>>
        /\ Settled(j) /\ j \notin expired /\ expired' = expired \cup {j}
    BY <1>2 DEF ExpireJob, vars
  <2>2. StorageRow(j) = "terminal" /\ StorageRow(j)' = "expired"
    BY <2>1 DEF StorageRow, Pending, Running, Settled
  <2>3. \A k \in Jobs \ {j} : StorageRow(k)' = StorageRow(k)
    BY <2>1 DEF StorageRow, HeldAt, Pending, Running, Settled
  <2>4. Storage!MoveRows({j}, {"terminal"}, "expired")
    BY <2>1, <2>2, <2>3, MoveStep
  <2>5. HeldJobs' = HeldJobs
    BY <2>1 DEF HeldJobs, Holds, HeldAt
  <2>6. Storage!Expire(j)
    BY <2>4, <2>5 DEF Storage!Expire, HeldJobs, Holds
  <2>. QED  BY <2>6 DEF Storage!Next
<1>3. ASSUME NEW p \in Apis, CrashApi(p)  PROVE StorageStep
  BY <1>3 DEF CrashApi, Storage!Next
<1>4. ASSUME NEW w \in Workers, RunWorker(w)  PROVE StorageStep
  BY <1>4, RunStep
<1>5. ASSUME NEW w \in Workers, LaunchWorker(w)  PROVE StorageStep
  <2>1. CASE w \in cleaning
    <3>1. /\ OnlyWorker(w) /\ pc[w] = "down" /\ pc'[w] = "startup"
          /\ UNCHANGED <<job, expired>>
      BY <1>5 DEF LaunchWorker, StartWorker, OnlyWorker, IInv, TypeOK
    <3>2. UNCHANGED storageVars
      BY <1>5, <2>1 DEF LaunchWorker, storageVars
    <3>. QED  BY <3>1, <3>2, IdleWorkerStep DEF Working
  <2>2. CASE w \notin cleaning
    BY <1>5, <2>2 DEF LaunchWorker, Storage!Next
  <2>. QED  BY <2>1, <2>2
<1>6. ASSUME UNCHANGED <<pc, cur, storageVars, expired>>,
             \A j \in Jobs : job'[j].status = job[j].status
      PROVE  StorageStep
  <2>1. \A j \in Jobs : Holds(j)' <=> Holds(j)
    BY <1>6 DEF Holds, HeldAt
  <2>2. \A j \in Jobs : StorageRow(j)' = StorageRow(j)
    BY <1>6 DEF StorageRow, HeldAt, Pending, Running, Settled
  <2>. QED  BY <1>6, <2>1, <2>2, StutterStep
<1>7. ASSUME NEW w \in Workers, OutsideTheLoop(w)  PROVE StorageStep
  <2>1. CASE UpdateJobHeartbeat(w)
    <3>1. \A j \in Jobs : job'[j].status = job[j].status
      BY <2>1, RowEffects DEF UpdateJobHeartbeat, IInv, TypeOK
    <3>. QED  BY <1>6, <1>7, <2>1, <3>1 DEF OutsideTheLoop, UpdateJobHeartbeat
  <2>2. CASE HeartbeatDies(w)
    BY <1>6, <1>7, <2>2 DEF OutsideTheLoop, HeartbeatDies
  <2>3. CASE Crash(w)
    BY <1>7, <2>3, CrashStep DEF OutsideTheLoop
  <2>. QED  BY <1>7, <2>1, <2>2, <2>3 DEF OutsideTheLoop
<1>8. ASSUME NEW w \in Workers, CadenceCleanup(w) \/ CleanupStep(w)
      PROVE  StorageStep
  BY <1>8 DEF CadenceCleanup, CleanupStep, Storage!Next
<1>9. CASE PassTime
  <2>1. \A j \in Jobs : job'[j].status = job[j].status
    BY <1>9, RowEffects DEF PassTime, Tick, IInv, TypeOK
  <2>. QED  BY <1>6, <1>9, <2>1 DEF PassTime, Tick
<1>10. CASE UNCHANGED allVars
  BY <1>6, <1>10 DEF allVars, vars
<1>. QED
  BY <1>1, <1>2, <1>3, <1>4, <1>5, <1>7, <1>8, <1>9, <1>10 DEF BackendNext

\* Uploads, workers, recovery and cleanup together do to rows and files what
\* InputStorage allows, however many of each there are: what that module
\* assumes of the queue is what the queue does (process_claimed_job,
\* reconcile_stale_running_jobs, run_storage_cleanup).
THEOREM RefinesStorage == BackendSpec => ImplementsStorage
<1>1. BackendInit => ExpiredOK /\ Storage!Init
  BY DEF BackendInit, ExpiredOK
<1>2. IInv /\ ExpiredOK /\ [BackendNext]_allVars => ExpiredOK'
  BY StepExpiredOK
<1>3. IInv /\ ExpiredOK /\ [BackendNext]_allVars => [Storage!Next]_(Storage!vars)
  BY StepsOfTheStorage DEF StorageStep
<1>. QED
  BY <1>1, <1>2, <1>3, QueueInvariance, PTL
  DEF BackendSpec, ImplementsStorage, Storage!Spec

-----------------------------------------------------------------------------
(* What is proved of InputStorage, for the system.                         *)

\* The two instances of InputStorage are one.
LEMMA SameStorage ==
    /\ Storage!Init <=> Proved!Init
    /\ Storage!Next <=> Proved!Next
    /\ Storage!vars = Proved!vars
    /\ UNCHANGED Storage!vars <=> UNCHANGED Proved!vars
<1>1. Storage!Init <=> Proved!Init
  BY DEF Storage!Init, Proved!Init
<1>2. Storage!Next <=> Proved!Next
  BY DEF Storage!Next, Storage!Receive, Storage!Refuse, Storage!ProbeAudioDuration,
    Storage!CheckFinalPath, Storage!PlaceFile, Storage!CommitJob,
    Storage!CommitRaises, Storage!RollBack, Storage!RollBackRaises, Storage!Claim, Storage!LoadInput,
    Storage!LoadFails, Storage!Settle, Storage!SettleAgain, Storage!Abandon,
    Storage!Expire, Storage!Recover, Storage!CrashApi, Storage!CleanupDue,
    Storage!ScanJobs, Storage!CleanupQueryFails, Storage!RestartCleaner,
    Storage!UnlinkExpired, Storage!UnlinkFails, Storage!Candidates, Storage!Answer,
    Storage!Forget, Storage!MoveRows, Storage!Served, Storage!Unaware,
    Storage!Unseen, Storage!EndPass, Storage!Section, Storage!AfterRollback,
    Storage!TempAfterCheck, Storage!RowAfterCommit, Storage!Expired,
    Storage!References, Storage!Active, Storage!requestVars, Storage!cleanupVars,
    Proved!Next, Proved!Receive, Proved!Refuse, Proved!ProbeAudioDuration,
    Proved!CheckFinalPath, Proved!PlaceFile, Proved!CommitJob,
    Proved!CommitRaises, Proved!RollBack, Proved!RollBackRaises, Proved!Claim, Proved!LoadInput,
    Proved!LoadFails, Proved!Settle, Proved!SettleAgain, Proved!Abandon,
    Proved!Expire, Proved!Recover, Proved!CrashApi, Proved!CleanupDue,
    Proved!ScanJobs, Proved!CleanupQueryFails, Proved!RestartCleaner,
    Proved!UnlinkExpired, Proved!UnlinkFails, Proved!Candidates, Proved!Answer,
    Proved!Forget, Proved!MoveRows, Proved!Served, Proved!Unaware,
    Proved!Unseen, Proved!EndPass, Proved!Section, Proved!AfterRollback,
    Proved!TempAfterCheck, Proved!RowAfterCommit, Proved!Expired,
    Proved!References, Proved!Active, Proved!requestVars, Proved!cleanupVars
<1>3. /\ Storage!vars = Proved!vars
      /\ UNCHANGED Storage!vars <=> UNCHANGED Proved!vars
  BY DEF Storage!vars, Storage!requestVars, Storage!cleanupVars,
         Proved!vars, Proved!requestVars, Proved!cleanupVars
<1>. QED  BY <1>1, <1>2, <1>3

\* The storage that is shown to be implemented has sound parameters.
LEMMA ProvedAssumption == Proved!StorageAssumption
BY BackendAssumption DEF Proved!StorageAssumption

\* The inductive invariant of InputStorage.
THEOREM SystemStorageInvariance == BackendSpec => []Proved!StorageInv
<1>1. Storage!Init => Proved!StorageInv
  BY SameStorage, ProvedAssumption, Proved!InitStorageInv
<1>2. Proved!StorageInv /\ [Storage!Next]_(Storage!vars) => Proved!StorageInv'
  BY SameStorage, ProvedAssumption, Proved!NextStorageInv
<1>. QED
  BY <1>1, <1>2, RefinesStorage, PTL DEF ImplementsStorage, Storage!Spec

\* A worker whose job is RUNNING and that has yet to read the input finds it,
\* or has lost it to one of the two races: no pass of a cleanup and no rollback
\* takes the file otherwise, whatever crashed or was recovered meanwhile
\* (process_claimed_job, _cleanup_expired_input_files).
THEOREM InputsStayForReaders == BackendSpec => []ReadersKeepInput
<1>1. IInv /\ Proved!StorageInv => ReadersKeepInput
  <2> SUFFICES ASSUME IInv, Proved!StorageInv, NEW w \in Workers,
                      pc[w] \in {"load", "inspect", "transcribe", "diarize"},
                      ~ InputPresent(w)
               PROVE  cur[w] \in raced \cup withdrawn \/ Settled(cur[w])
    BY DEF ReadersKeepInput
  <2>0. PICK j \in Jobs : j = cur[w]
    BY DEF IInv, TypeOK, StageOK, Busy, Working
  <2>1. StorageRow(j) \in {"claimed", "running"} \/ Settled(j)
    BY <2>0, OwnStatus DEF Working
  <2>2. CASE StorageRow(j) \in {"claimed", "running"}
    <3>1. content[j] \in files \/ j \in raced \cup withdrawn
      BY <2>2 DEF Proved!StorageInv, Proved!ReliedOn, Proved!Active, Proved!Lost
    <3>. QED  BY <2>0, <3>1 DEF InputPresent
  <2>. QED  BY <2>0, <2>1, <2>2
<1>. QED  BY <1>1, QueueInvariance, SystemStorageInvariance, PTL

-----------------------------------------------------------------------------
(* Jobs that fail for want of their input.                                 *)

\* Only loading reports a missing input; no later stage does.
VerdictOK == \A w \in Workers : verdict[w] # "missing_input_file"

\* No stage but loading decides on missing_input_file.
LEMMA StepVerdictOK == IInv /\ VerdictOK /\ [Next]_vars => VerdictOK'
<1> SUFFICES ASSUME IInv, VerdictOK, [Next]_vars  PROVE VerdictOK'
  OBVIOUS
<1>. QED
  BY DEF IInv, TypeOK, VerdictOK, Next, vars, Submit, StartWorker, Crash,
    UpdateJobHeartbeat, HeartbeatDies, Tick, WorkerStep, ScanStaleRunningJobs,
    ReconcileStaleRunningJobs, SkipReconcile, SelectPendingJob, FindNothing,
    ClaimNextPendingJob, LoadClaimedJobContext, InspectAudioSilence,
    TranscribeAudio, DiarizeAudio, StageFails, ReadForPersist,
    PersistCompletedJob, PersistRollsBack, MarkJobFailed, Goto, Return, ResultKinds

\* A step of the loop gives no job this error but the one whose file it missed.
LEMMA RunErrors ==
    ASSUME IInv, VerdictOK, NEW w \in Workers, RunWorker(w),
           NEW j \in Jobs, job'[j].error = "missing_input_file"
    PROVE  \/ job[j].error = "missing_input_file"
           \/ pc[w] = "load" /\ j = cur[w] /\ ~ InputPresent(w)
<1> SUFFICES ASSUME job'[j] # job[j]  PROVE job[j].error = "missing_input_file"
                          \/ (pc[w] = "load" /\ j = cur[w] /\ ~ InputPresent(w))
  OBVIOUS
<1>a. WorkerStep(w) /\ InputAllows(w) /\ job[j] \in Rows
  BY DEF RunWorker, IInv, TypeOK
<1>1. CASE ReconcileStaleRunningJobs(w)
  <2>1. job'[j] = Reconciled(job[j])
    BY <1>1 DEF ReconcileStaleRunningJobs
  <2>. QED  BY <2>1 DEF Reconciled, Failed, Row
<1>2. CASE ClaimNextPendingJob(w)
  <2>1. job'[j] = Claimed(job[j])
    BY <1>2 DEF ClaimNextPendingJob, IInv, TypeOK
  <2>. QED  BY <2>1 DEF Claimed, Row
<1>3. CASE LoadClaimedJobContext(w)
  <2>1. pc[w] = "load" /\ (j # cur[w] => job'[j] = job[j])
    BY <1>3 DEF LoadClaimedJobContext, IInv, TypeOK
  <2>. QED  BY <1>a, <2>1 DEF InputAllows
<1>4. CASE PersistCompletedJob(w)
  <2>1. job'[j] = Completed(job[j], verdict[w], seen[w])
    BY <1>4 DEF PersistCompletedJob, IInv, TypeOK
  <2>. QED  BY <2>1 DEF Completed, Row
<1>5. CASE MarkJobFailed(w)
  <2>1. job'[j] = Failed(job[j], verdict[w])
    BY <1>5 DEF MarkJobFailed, IInv, TypeOK
  <2>. QED  BY <2>1 DEF Failed, Row, VerdictOK
<1>6. CASE job' = job
  BY <1>6
<1>. QED
  BY <1>a, <1>1, <1>2, <1>3, <1>4, <1>5, <1>6
  DEF WorkerStep, ScanStaleRunningJobs, SkipReconcile, SelectPendingJob, FindNothing,
      InspectAudioSilence, TranscribeAudio, DiarizeAudio, StageFails,
      ReadForPersist, PersistRollsBack

\* A row gets missing_input_file only from a worker whose input is gone.
LEMMA StepMissing ==
    ASSUME IInv, VerdictOK, Proved!StorageInv, MissingInputHasCause,
           Proved!Lost \subseteq Proved!Lost', [BackendNext]_allVars
    PROVE  MissingInputHasCause'
<1> SUFFICES ASSUME NEW j \in Jobs, job'[j].error = "missing_input_file",
                    job[j].error # "missing_input_file"
             PROVE  j \in Proved!Lost
  BY DEF MissingInputHasCause, Proved!Lost
<1>1. ASSUME NEW w \in Workers, RunWorker(w)  PROVE j \in Proved!Lost
  <2>1. pc[w] = "load" /\ j = cur[w] /\ ~ InputPresent(w)
    BY <1>1, RunErrors
  <2>2. StorageRow(j) = "claimed"
    BY <2>1, OwnStatus DEF Working
  <2>. QED
    BY <2>1, <2>2 DEF Proved!StorageInv, Proved!ReliedOn, Proved!Active, InputPresent
<1>2. ASSUME NEW w \in Workers, OutsideTheLoop(w)  PROVE FALSE
  <2>1. \A k \in Jobs : job'[k].error = job[k].error
    BY <1>2, RowEffects
    DEF OutsideTheLoop, UpdateJobHeartbeat, HeartbeatDies, Crash, IInv, TypeOK
  <2>. QED  BY <2>1
<1>3. ASSUME NEW w \in Workers,
             LaunchWorker(w) \/ CadenceCleanup(w) \/ CleanupStep(w)
      PROVE  FALSE
  BY <1>3 DEF LaunchWorker, StartWorker, CadenceCleanup, CleanupStep, vars
<1>4. ASSUME NEW k \in Jobs, UploadStep(k) \/ InsertJob(k) \/ ExpireJob(k)
      PROVE  FALSE
  BY <1>4 DEF UploadStep, InsertJob, ExpireJob, Submit, Inserted, Row, vars, IInv, TypeOK
<1>5. ASSUME NEW p \in Apis, CrashApi(p)  PROVE FALSE
  BY <1>5 DEF CrashApi, vars
<1>6. CASE PassTime
  <2>1. \A k \in Jobs : job'[k].error = job[k].error
    BY <1>6, RowEffects DEF PassTime, Tick, IInv, TypeOK
  <2>. QED  BY <2>1
<1>7. CASE UNCHANGED allVars  BY <1>7 DEF allVars, vars
<1>. QED  BY <1>1, <1>2, <1>3, <1>4, <1>5, <1>6, <1>7 DEF BackendNext

\* A job fails for want of its input only if one of the two races took the
\* file, however long it waited (_load_claimed_job_context).
THEOREM MissingInputIsExplained == BackendSpec => []MissingInputHasCause
<1>1. BackendInit => VerdictOK /\ MissingInputHasCause
  BY DEF BackendInit, Init, VerdictOK, MissingInputHasCause, Absent, Row
<1>2. IInv /\ VerdictOK /\ [BackendNext]_allVars => VerdictOK'
  BY StepVerdictOK, StepsOfTheQueue
<1>3. Proved!StorageInv /\ [Storage!Next]_(Storage!vars)
      => Proved!Lost \subseteq Proved!Lost'
  BY SameStorage, ProvedAssumption, Proved!LostGrows DEF Proved!StorageInv
<1>4. /\ IInv /\ VerdictOK /\ Proved!StorageInv /\ MissingInputHasCause
      /\ [Storage!Next]_(Storage!vars) /\ [BackendNext]_allVars
      => MissingInputHasCause'
  BY <1>3, StepMissing
<1>. QED
  BY <1>1, <1>2, <1>4, QueueInvariance, SystemStorageInvariance, RefinesStorage, PTL
  DEF BackendSpec, ImplementsStorage, Storage!Spec

\* No job ever fails for want of its input with one API process whose commits
\* are acknowledged, for as long as no job has expired: crashes, recoveries and
\* rollbacks alone do not take an input from a job that needs it.
THEOREM NoInputIsMissing ==
    ASSUME ~ UploadLostAcks, \A p, q \in Apis : p = q
    PROVE  BackendSpec /\ [](expired = {})
             => [](\A j \in Jobs : job[j].error # "missing_input_file")
<1> DEFINE
      NoPass == (\A k \in Workers : doomed[k] = {}) /\ raced = {}
      NoRollback == Proved!NoLostRow /\ withdrawn = {}
      NothingMissing == \A j \in Jobs : job[j].error # "missing_input_file"
<1>1. Storage!Init => NoPass /\ NoRollback
  BY SameStorage, ProvedAssumption, Proved!InitNoLostRow DEF Storage!Init
<1>2. IInv /\ expired = {} => Proved!NothingExpired
  <2> SUFFICES ASSUME IInv, expired = {}, NEW j \in Jobs
               PROVE  StorageRow(j) # "expired"
    BY DEF Proved!NothingExpired
  <2>1. job[j].status \in Statuses
    BY DEF IInv, TypeOK, Rows
  <2>. QED  BY <2>1 DEF StorageRow, Pending, Running, Settled, Statuses
<1>3. /\ IInv /\ Proved!StorageInv /\ expired = {} /\ NoPass
      /\ [Storage!Next]_(Storage!vars)
      => NoPass'
  BY <1>2, SameStorage, ProvedAssumption, Proved!NoPassWithoutExpiry
  DEF Proved!StorageInv
<1>4. Proved!StorageInv /\ NoRollback /\ [Storage!Next]_(Storage!vars) => NoRollback'
  BY SameStorage, ProvedAssumption, Proved!NoLostRowStays, Proved!RollBackTakesNothing
  DEF Proved!StorageInv
<1>5. NoPass /\ NoRollback /\ MissingInputHasCause => NothingMissing
  BY DEF MissingInputHasCause
<1> HIDE DEF NoPass, NoRollback, NothingMissing
<1>6. BackendSpec /\ [](expired = {}) => []NothingMissing
  BY <1>1, <1>3, <1>4, <1>5, RefinesStorage, SystemStorageInvariance,
     QueueInvariance, MissingInputIsExplained, PTL DEF ImplementsStorage, Storage!Spec
<1>. QED  BY <1>6 DEF NothingMissing
=============================================================================
