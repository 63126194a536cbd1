------------------------------ MODULE Backend ------------------------------
(***************************************************************************)
(* The whole system: the job queue and its workers (JobLifecycle) over the *)
(* input files that uploads, workers and cleanup share (InputStorage).     *)
(*                                                                         *)
(* A worker is one thread.  It cleans at startup, between its recovery and *)
(* its first claim (src/app/worker/main.py), and in its loop after every   *)
(* CleanupEveryNJobs processed jobs (run_worker_forever of                 *)
(* src/app/worker/service.py), and it neither claims nor recovers while it *)
(* does.  A stage that reads the input needs the file.                     *)
(*                                                                         *)
(* Upload r inserts row r.  The status of a row, as InputStorage knows it, *)
(* is a function of the state of JobLifecycle.                             *)
(***************************************************************************)
EXTENDS JobLifecycle

CONSTANTS
    Contents, Apis,     \* as in InputStorage
    UploadLostAcks,     \* LostAcks of InputStorage; LostAcks is the workers'
    CleanupEveryNJobs   \* WORKER_CLEANUP_EVERY_N_JOBS

ASSUME BackendAssumption ==
    CleanupEveryNJobs \in Nat \ {0} /\ UploadLostAcks \in BOOLEAN

VARIABLES
    rpc, content, api, created, temp, files,    \* as in InputStorage
    cleaning, doomed, snapshot, raced, withdrawn,
    expired,    \* settled jobs older than the retention period
    processed   \* processed_jobs_since_cleanup of each worker

uploadVars == <<rpc, content, api, created, temp>>
storageVars == <<uploadVars, files, cleaning, doomed, snapshot, raced, withdrawn>>
allVars == <<vars, storageVars, expired, processed>>

\* The worker that holds job j is at one of these places with it.
HeldAt(j, places) == \E w \in Workers : cur[w] = j /\ pc[w] \in places

\* JobStatus as cleanup and uploads see it.
StorageRow(j) ==
    CASE job[j].status = "absent"  -> "none"
      [] Pending(j)                -> "pending"
      [] Running(j)                -> IF HeldAt(j, {"load"}) THEN "claimed" ELSE "running"
      [] Settled(j)                -> IF j \in expired THEN "expired" ELSE "terminal"

Storage == INSTANCE InputStorage WITH
    Requests <- Jobs, Cleaners <- Workers,
    LostAcks <- UploadLostAcks, due <- cleaning,
    row <- [j \in Jobs |-> StorageRow(j)],
    held <- {j \in Jobs : HeldAt(j, Working \ {"load"})}

-----------------------------------------------------------------------------
BackendInit ==
    /\ Init
    /\ job = [j \in Jobs |-> Absent]    \* an empty database
    /\ Storage!Init
    /\ expired = {}
    /\ processed = [w \in Workers |-> 0]

\* The file of the worker's job is there to be read.
InputPresent(w) == content[cur[w]] \in files

\* The worker is inside run_storage_cleanup, or about to call it.
InCleanup(w) ==
    \/ w \in cleaning \/ doomed[w] # {}
    \/ processed[w] >= CleanupEveryNJobs

\* process_claimed_job settled its row and returned.
Counted(w) ==
    processed' = IF pc[w] \in Working /\ pc'[w] = "loop"
                 THEN [processed EXCEPT ![w] = @ + 1] ELSE processed

\* A row that is settled, once more or for the first time, is not expired.
Refreshed == expired' = {j \in expired : job'[j] = job[j]}

-----------------------------------------------------------------------------
(* Uploads: a row appears with the commit of its request.                  *)

UploadStep(j) ==
    /\ UNCHANGED <<vars, expired, processed>>
    /\ \/ Storage!Receive(j) \/ Storage!Refuse(j) \/ Storage!ProbeAudioDuration(j)
       \/ Storage!CheckFinalPath(j) \/ Storage!PlaceFile(j)
       \/ Storage!CommitRaises(j)
       \/ Storage!RollBack(j) \/ Storage!RollBackRaises(j)

InsertJob(j) ==
    /\ Submit(j)
    /\ UNCHANGED <<expired, processed>>
    /\ Storage!CommitJob(j) \/ Storage!CommitRaises(j)

CrashApi(p) ==
    /\ UNCHANGED <<vars, expired, processed>>
    /\ Storage!CrashApi(p)

-----------------------------------------------------------------------------
(* Workers.                                                                *)

\* Loading looks for the file; a silence verdict, a transcript and turns need
\* it.  Without it the precheck is inconclusive, transcription raises, and
\* diarization degrades the result.
InputAllows(w) ==
    /\ pc[w] = "load" /\ pc'[w] = "inspect" => InputPresent(w)
    /\ pc[w] = "load" /\ job'[cur[w]].error = "missing_input_file" => ~ InputPresent(w)
    /\ pc[w] = "inspect" /\ pc'[w] = "persist" => InputPresent(w)
    /\ pc[w] = "transcribe" /\ pc'[w] = "diarize" => InputPresent(w)
    /\ pc[w] = "diarize" /\ verdict'[w] = "diarized" => InputPresent(w)

\* A step of the worker's loop, outside of cleanup.
RunWorker(w) ==
    /\ pc[w] \in {"poll", "loop"} => ~ InCleanup(w)
    /\ WorkerStep(w)
    /\ InputAllows(w)
    /\ Counted(w)
    /\ Refreshed
    /\ UNCHANGED storageVars

\* The process starts with a cleanup ahead of it; its predecessor's pass is over.
LaunchWorker(w) ==
    /\ StartWorker(w)
    /\ UNCHANGED <<uploadVars, files, raced, withdrawn, expired>>
    /\ IF w \in cleaning THEN UNCHANGED <<cleaning, doomed, snapshot>>
       ELSE Storage!RestartCleaner(w)
    /\ processed' = [processed EXCEPT ![w] = 0]

\* Heartbeats, their failure, the death of the process.
OutsideTheLoop(w) ==
    /\ UpdateJobHeartbeat(w) \/ HeartbeatDies(w) \/ Crash(w)
    /\ UNCHANGED <<storageVars, expired, processed>>

PassTime == Tick /\ UNCHANGED <<storageVars, expired, processed>>

-----------------------------------------------------------------------------
(* Cleanup.                                                                *)

\* run_worker_forever has counted enough jobs.
CadenceCleanup(w) ==
    /\ pc[w] = "loop"
    /\ processed[w] >= CleanupEveryNJobs
    /\ UNCHANGED <<vars, expired>>
    /\ Storage!CleanupDue(w)
    /\ processed' = [processed EXCEPT ![w] = 0]

CleanupStep(w) ==
    /\ pc[w] \in {"poll", "loop"}
    /\ UNCHANGED <<vars, expired, processed>>
    /\ \/ Storage!ScanJobs(w) \/ Storage!CleanupQueryFails(w)
       \/ \E c \in Contents : Storage!UnlinkExpired(w, c) \/ Storage!UnlinkFails(w, c)

\* The retention period of a settled job passes.
ExpireJob(j) ==
    /\ Settled(j) /\ j \notin expired
    /\ expired' = expired \cup {j}
    /\ UNCHANGED <<vars, storageVars, processed>>

-----------------------------------------------------------------------------
BackendNext ==
    \/ \E j \in Jobs : UploadStep(j) \/ InsertJob(j) \/ ExpireJob(j)
    \/ \E p \in Apis : CrashApi(p)
    \/ \E w \in Workers :
        \/ RunWorker(w) \/ LaunchWorker(w) \/ OutsideTheLoop(w)
        \/ CadenceCleanup(w) \/ CleanupStep(w)
    \/ PassTime

BackendSpec == BackendInit /\ [][BackendNext]_allVars

-----------------------------------------------------------------------------
\* Everything uploads, workers, recovery and cleanup do together is a behaviour
\* of InputStorage: what that module assumes of workers is what they do.
ImplementsStorage == Storage!Spec

\* A job fails for want of its input only if the file was lost to one of the
\* two races that InputStorage names (_load_claimed_job_context).
MissingInputHasCause ==
    \A j \in Jobs : job[j].error = "missing_input_file" => j \in raced \cup withdrawn

\* Cleanup takes the file from under a worker that is still to read it only if
\* one of these races did, or recovery has settled the job before: a job that
\* is RUNNING keeps its input through every stage (process_claimed_job against
\* _cleanup_expired_input_files).
ReadersKeepInput ==
    \A w \in Workers :
        pc[w] \in {"load", "inspect", "transcribe", "diarize"} /\ ~ InputPresent(w)
            => cur[w] \in raced \cup withdrawn \/ Settled(cur[w])

=============================================================================
