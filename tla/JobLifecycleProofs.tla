------------------------- MODULE JobLifecycleProofs -------------------------
(***************************************************************************)
(* Proofs about JobLifecycle for any number of jobs and workers and any    *)
(* intervals.  The transactions touch rows only through the row operators, *)
(* so their effect is stated once, in the lemmas on rows; the inductive    *)
(* invariant is then a conjunction of parts, each proved on top of the     *)
(* parts before it.                                                        *)
(***************************************************************************)
EXTENDS JobLifecycle, TLAPS

-----------------------------------------------------------------------------
(* Rows.                                                                   *)

\* Every row operator returns a row.
LEMMA RowsClosed ==
    ASSUME NEW r \in Rows
    PROVE  /\ Older(r) \in Rows
           /\ Claimed(r) \in Rows
           /\ Beaten(r) \in Rows
           /\ Reconciled(r) \in Rows
           /\ \A code \in ErrorCodes : Failed(r, code) \in Rows
           /\ \A kind \in ResultKinds, loaded \in ErrorCodes \cup {"none"} :
                Completed(r, kind, loaded) \in Rows
<1>0. StaleAfter \in Nat /\ MaxSkew \in Nat  BY LifecycleAssumption
<1>1. Older(r) \in Rows  BY <1>0 DEF Older, Rows, TooOld
<1>2. Claimed(r) \in Rows  BY <1>0 DEF Claimed, Row, Rows, TooOld, Statuses
<1>3. Beaten(r) \in Rows  BY <1>0 DEF Beaten, Rows, TooOld
<1>4. \A code \in ErrorCodes : Failed(r, code) \in Rows
  BY <1>0 DEF Failed, Row, Rows, TooOld, Statuses
<1>5. \A kind \in ResultKinds, loaded \in ErrorCodes \cup {"none"} :
        Completed(r, kind, loaded) \in Rows
  BY <1>0 DEF Completed, Row, Rows, TooOld, Statuses
<1>6. Reconciled(r) \in Rows
  BY <1>0 DEF Reconciled, Failed, Row, Rows, TooOld, Statuses, ErrorCodes
<1>. QED  BY <1>1, <1>2, <1>3, <1>4, <1>5, <1>6

\* The rows of the initial table and of an upload are rows.
LEMMA FirstRows ==
    /\ Legacy \subseteq Rows
    /\ Absent \in Rows
    /\ Inserted \in Rows
<1>0. StaleAfter \in Nat /\ MaxSkew \in Nat  BY LifecycleAssumption
<1>1. Legacy \subseteq Rows
  BY <1>0 DEF Legacy, LegacyResults, Rows, TooOld, Statuses, ResultKinds
<1>2. Absent \in Rows /\ Inserted \in Rows
  BY <1>0 DEF Absent, Inserted, Row, Rows, TooOld, Statuses
<1>. QED  BY <1>1, <1>2

-----------------------------------------------------------------------------
(* Type correctness, which needs to know what a worker holds where.        *)

Busy == Working \cup {"claim"}

\* A worker holds a job exactly from the claim to the return, it has a result
\* to persist or an error code to fail with where it needs one, and its
\* heartbeat thread lives only while it works on the job, never in diarization.
StageOK ==
    \A w \in Workers :
        /\ cur[w] # NoJob <=> pc[w] \in Busy
        /\ pc[w] \in {"persist", "flush"} => verdict[w] \in ResultKinds \ LegacyResults
        /\ pc[w] = "fail" => verdict[w] \in ErrorCodes
        /\ beat[w] => pc[w] \in Working \ {"load", "diarize"}

LEMMA InitTypeOK == Init => TypeOK
<1>0. /\ ReconcileInterval \in Nat
      /\ \A w \in Workers : "down" \in Locations
  BY LifecycleAssumption DEF ReconcileInterval, Locations, Idle
<1>. QED
  BY <1>0, FirstRows DEF Init, TypeOK, Jobs, NoJob

LEMMA NextTypeOK == TypeOK /\ StageOK /\ [Next]_vars => TypeOK'
<1> SUFFICES ASSUME TypeOK, StageOK, [Next]_vars  PROVE TypeOK'
  OBVIOUS
<1> USE DEF TypeOK
<1>0. ReconcileInterval \in Nat \ {0}
  BY LifecycleAssumption DEF ReconcileInterval
<1>p. /\ Idle \subseteq Locations /\ Working \subseteq Locations
      /\ "claim" \in Locations
  BY DEF Locations
<1>1. ASSUME NEW j \in Jobs, Submit(j)  PROVE TypeOK'
  BY <1>1, FirstRows DEF Submit
<1>2. ASSUME NEW w \in Workers, StartWorker(w)  PROVE TypeOK'
  BY <1>2, <1>0, <1>p DEF StartWorker, Idle
<1>3. ASSUME NEW w \in Workers, ScanStaleRunningJobs(w)  PROVE TypeOK'
  BY <1>3, <1>p DEF ScanStaleRunningJobs, Idle
<1>4. ASSUME NEW w \in Workers, ReconcileStaleRunningJobs(w)  PROVE TypeOK'
  <2>1. job' \in [Jobs -> Rows]
    BY <1>4, RowsClosed DEF ReconcileStaleRunningJobs
  <2>. QED  BY <1>4, <2>1, <1>0, <1>p DEF ReconcileStaleRunningJobs, Idle
<1>5. ASSUME NEW w \in Workers, SkipReconcile(w)  PROVE TypeOK'
  BY <1>5, <1>p DEF SkipReconcile, Idle
<1>6. ASSUME NEW w \in Workers, SelectPendingJob(w)  PROVE TypeOK'
  BY <1>6, <1>p DEF SelectPendingJob, Claimable
<1>7. ASSUME NEW w \in Workers, FindNothing(w)  PROVE TypeOK'
  BY <1>7, <1>p DEF FindNothing, Idle
<1>8. ASSUME NEW w \in Workers, ClaimNextPendingJob(w)  PROVE TypeOK'
  <2>1. job' \in [Jobs -> Rows]
    BY <1>8, RowsClosed DEF ClaimNextPendingJob
  <2>. QED  BY <1>8, <2>1, <1>p DEF ClaimNextPendingJob, Working
<1>9. ASSUME NEW w \in Workers, LoadClaimedJobContext(w)  PROVE TypeOK'
  <2>0. PICK outcome \in LoadOutcomes(job[cur[w]]) :
          IF outcome = "none"
          THEN /\ pc' = [pc EXCEPT ![w] = "inspect"]
               /\ beat' = [beat EXCEPT ![w] = TRUE]
               /\ UNCHANGED <<job, cur, verdict, seen>>
          ELSE /\ Unlocked(cur[w])
               /\ job' = [job EXCEPT ![cur[w]] = Failed(@, outcome)]
               /\ Return(w)
    BY <1>9 DEF LoadClaimedJobContext
  <2>1. CASE outcome = "none"
    BY <1>9, <2>0, <2>1, <1>p DEF LoadClaimedJobContext, Working
  <2>2. CASE outcome # "none"
    <3>1. outcome \in ErrorCodes
      BY <2>0, <2>2 DEF LoadOutcomes, ErrorCodes
    <3>2. job' = [job EXCEPT ![cur[w]] = Failed(job[cur[w]], outcome)]
      BY <2>0, <2>2
    <3>3. job' \in [Jobs -> Rows]
      BY <3>1, <3>2, RowsClosed
    <3>. QED  BY <1>9, <2>0, <2>2, <3>3, <1>p
           DEF LoadClaimedJobContext, Return, Idle, NoJob
  <2>. QED  BY <2>1, <2>2
<1>10. ASSUME NEW w \in Workers, InspectAudioSilence(w)  PROVE TypeOK'
  BY <1>10, <1>p DEF InspectAudioSilence, Goto, Working, ResultKinds
<1>11. ASSUME NEW w \in Workers, TranscribeAudio(w)  PROVE TypeOK'
  BY <1>11, <1>p DEF TranscribeAudio, Goto, Working
<1>12. ASSUME NEW w \in Workers, DiarizeAudio(w)  PROVE TypeOK'
  BY <1>12, <1>p DEF DiarizeAudio, Goto, Working, ResultKinds
<1>13. ASSUME NEW w \in Workers, StageFails(w)  PROVE TypeOK'
  BY <1>13, <1>p DEF StageFails, Goto, Working, ErrorCodes
<1>14. ASSUME NEW w \in Workers, ReadForPersist(w)  PROVE TypeOK'
  <2>1. cur[w] \in Jobs
    BY <1>14 DEF StageOK, ReadForPersist, Busy, Working
  <2>2. job[cur[w]].error \in ErrorCodes \cup {"none"}
    BY <2>1 DEF Rows
  <2>. QED  BY <1>14, <2>2, <1>p DEF ReadForPersist, Goto, Working, ErrorCodes
<1>15. ASSUME NEW w \in Workers, PersistCompletedJob(w)  PROVE TypeOK'
  <2>1. cur[w] \in Jobs /\ verdict[w] \in ResultKinds
    BY <1>15 DEF StageOK, PersistCompletedJob, Busy, Working
  <2>2. job' \in [Jobs -> Rows]
    BY <1>15, <2>1, RowsClosed DEF PersistCompletedJob
  <2>3. CASE Return(w)
    BY <1>15, <2>2, <2>3, <1>p DEF PersistCompletedJob, Return, Idle
  <2>4. CASE Goto(w, "fail", "processing_error") /\ UNCHANGED <<cur, seen, beat>>
    BY <1>15, <2>2, <2>4, <1>p DEF PersistCompletedJob, Goto, Working, ErrorCodes
  <2>. QED  BY <1>15, <2>3, <2>4 DEF PersistCompletedJob
<1>16. ASSUME NEW w \in Workers, PersistRollsBack(w)  PROVE TypeOK'
  BY <1>16, <1>p DEF PersistRollsBack, Goto, Working, ErrorCodes
<1>17. ASSUME NEW w \in Workers, MarkJobFailed(w)  PROVE TypeOK'
  <2>1. cur[w] \in Jobs /\ verdict[w] \in ErrorCodes
    BY <1>17 DEF StageOK, MarkJobFailed, Busy, Working
  <2>2. job' \in [Jobs -> Rows]
    BY <1>17, <2>1, RowsClosed DEF MarkJobFailed
  <2>. QED  BY <1>17, <2>2, <1>p DEF MarkJobFailed, Return, Idle
<1>18. ASSUME NEW w \in Workers, UpdateJobHeartbeat(w)  PROVE TypeOK'
  <2>1. job' \in [Jobs -> Rows]
    BY <1>18, RowsClosed DEF UpdateJobHeartbeat
  <2>. QED  BY <1>18, <2>1 DEF UpdateJobHeartbeat, Running
<1>19. ASSUME NEW w \in Workers, HeartbeatDies(w)  PROVE TypeOK'
  BY <1>19 DEF HeartbeatDies
<1>20. ASSUME NEW w \in Workers, Crash(w)  PROVE TypeOK'
  BY <1>20, <1>0, <1>p DEF Crash, Idle
<1>21. ASSUME Tick  PROVE TypeOK'
  <2>1. job' \in [Jobs -> Rows]
    BY <1>21, RowsClosed DEF Tick
  <2>2. due' \in [Workers -> 0..ReconcileInterval]
    BY <1>21, <1>0 DEF Tick
  <2>. QED  BY <1>21, <2>1, <2>2 DEF Tick
<1>22. CASE UNCHANGED vars
  BY <1>22 DEF vars
<1>. QED
  BY <1>1, <1>2, <1>3, <1>4, <1>5, <1>6, <1>7, <1>8, <1>9, <1>10, <1>11,
     <1>12, <1>13, <1>14, <1>15, <1>16, <1>17, <1>18, <1>19, <1>20, <1>21,
     <1>22 DEF Next, WorkerStep

LEMMA InitStageOK == Init => StageOK
BY DEF Init, StageOK, Busy, Working

LEMMA NextStageOK == TypeOK /\ StageOK /\ [Next]_vars => StageOK'
<1> SUFFICES ASSUME TypeOK, StageOK, [Next]_vars  PROVE StageOK'
  OBVIOUS
<1> USE DEF TypeOK, StageOK, Busy, Working
<1>1. ASSUME NEW j \in Jobs, Submit(j)  PROVE StageOK'
  BY <1>1 DEF Submit
<1>2. ASSUME NEW w \in Workers, StartWorker(w)  PROVE StageOK'
  BY <1>2 DEF StartWorker
<1>3. ASSUME NEW w \in Workers, ScanStaleRunningJobs(w)  PROVE StageOK'
  BY <1>3 DEF ScanStaleRunningJobs, ReconcileDue
<1>4. ASSUME NEW w \in Workers, ReconcileStaleRunningJobs(w)  PROVE StageOK'
  BY <1>4 DEF ReconcileStaleRunningJobs
<1>5. ASSUME NEW w \in Workers, SkipReconcile(w)  PROVE StageOK'
  BY <1>5 DEF SkipReconcile
<1>6. ASSUME NEW w \in Workers, SelectPendingJob(w)  PROVE StageOK'
  BY <1>6 DEF SelectPendingJob, Claimable, Jobs, NoJob
<1>7. ASSUME NEW w \in Workers, FindNothing(w)  PROVE StageOK'
  BY <1>7 DEF FindNothing
<1>8. ASSUME NEW w \in Workers, ClaimNextPendingJob(w)  PROVE StageOK'
  BY <1>8 DEF ClaimNextPendingJob
<1>9. ASSUME NEW w \in Workers, LoadClaimedJobContext(w)  PROVE StageOK'
  BY <1>9 DEF LoadClaimedJobContext, Return
<1>10. ASSUME NEW w \in Workers, InspectAudioSilence(w)  PROVE StageOK'
  BY <1>10 DEF InspectAudioSilence, Goto, ResultKinds, LegacyResults
<1>11. ASSUME NEW w \in Workers, TranscribeAudio(w)  PROVE StageOK'
  BY <1>11 DEF TranscribeAudio, Goto
<1>12. ASSUME NEW w \in Workers, DiarizeAudio(w)  PROVE StageOK'
  BY <1>12 DEF DiarizeAudio, Goto, ResultKinds, LegacyResults
<1>13. ASSUME NEW w \in Workers, StageFails(w)  PROVE StageOK'
  BY <1>13 DEF StageFails, Goto, ErrorCodes
<1>14. ASSUME NEW w \in Workers, ReadForPersist(w)  PROVE StageOK'
  BY <1>14 DEF ReadForPersist, Goto, ErrorCodes
<1>15. ASSUME NEW w \in Workers, PersistCompletedJob(w)  PROVE StageOK'
  BY <1>15 DEF PersistCompletedJob, Return, Goto, ErrorCodes
<1>16. ASSUME NEW w \in Workers, PersistRollsBack(w)  PROVE StageOK'
  BY <1>16 DEF PersistRollsBack, Goto, ErrorCodes
<1>17. ASSUME NEW w \in Workers, MarkJobFailed(w)  PROVE StageOK'
  BY <1>17 DEF MarkJobFailed, Return
<1>18. ASSUME NEW w \in Workers, UpdateJobHeartbeat(w)  PROVE StageOK'
  BY <1>18 DEF UpdateJobHeartbeat
<1>19. ASSUME NEW w \in Workers, HeartbeatDies(w)  PROVE StageOK'
  BY <1>19 DEF HeartbeatDies
<1>20. ASSUME NEW w \in Workers, Crash(w)  PROVE StageOK'
  BY <1>20 DEF Crash
<1>21. ASSUME Tick  PROVE StageOK'
  BY <1>21 DEF Tick
<1>22. CASE UNCHANGED vars
  BY <1>22 DEF vars
<1>. QED
  BY <1>1, <1>2, <1>3, <1>4, <1>5, <1>6, <1>7, <1>8, <1>9, <1>10, <1>11,
     <1>12, <1>13, <1>14, <1>15, <1>16, <1>17, <1>18, <1>19, <1>20, <1>21,
     <1>22 DEF Next, WorkerStep

-----------------------------------------------------------------------------
(* Row locks and owners.                                                   *)

\* What the row operators do to the status and the result.
LEMMA RowEffects ==
    ASSUME NEW r \in Rows
    PROVE  /\ Older(r).status = r.status /\ Older(r).result = r.result
           /\ Older(r).error = r.error
           /\ Beaten(r).status = r.status /\ Beaten(r).result = r.result
           /\ Beaten(r).error = r.error
           /\ Claimed(r).status = "running" /\ Claimed(r).result = r.result
           /\ \A code : /\ Failed(r, code).status = "failed"
                        /\ Failed(r, code).result = r.result
                        /\ Failed(r, code).error = code
           /\ \A kind, loaded :
                /\ Completed(r, kind, loaded).status = "completed"
                /\ Completed(r, kind, loaded).result = kind
           /\ Reconciled(r).result = r.result
           /\ r.result = "none" => /\ Reconciled(r).status = "failed"
                                   /\ Reconciled(r).error = "processing_interrupted"
           /\ r.result # "none" => Reconciled(r).status = "completed"
BY DEF Older, Beaten, Claimed, Failed, Completed, Reconciled, Row, Rows

\* Locks are held in the two transactions that select FOR UPDATE, by one
\* worker at a time, on rows whose status they have read and nobody else can
\* change; recovery settles only rows it has locked.
LocksOK ==
    /\ \A w \in Workers :
        /\ pc[w] \notin {"reconcile", "claim"} => locked[w] = {}
        /\ pc[w] = "claim" => locked[w] = {cur[w]} /\ Pending(cur[w])
        /\ pc[w] # "reconcile" => stale[w] = {}
        /\ pc[w] = "reconcile" => \A j \in locked[w] : Running(j)
        /\ stale[w] \subseteq locked[w]
    /\ \A v, w \in Workers : v # w => locked[v] \cap locked[w] = {}

\* A claimed job has left the queue for good, and has one owner.
OwnersOK ==
    /\ \A w \in Workers :
        pc[w] \in Working => job[cur[w]].status \notin {"absent", "pending"}
    /\ SingleOwner

LEMMA InitLocksOK == Init => LocksOK /\ OwnersOK
BY DEF Init, LocksOK, OwnersOK, SingleOwner, Working

LEMMA NextLocksOK ==
    TypeOK /\ StageOK /\ LocksOK /\ [Next]_vars => LocksOK'
<1> SUFFICES ASSUME TypeOK, StageOK, LocksOK, [Next]_vars  PROVE LocksOK'
  OBVIOUS
<1> USE DEF TypeOK, LocksOK, Pending, Running
<1>1. ASSUME NEW j \in Jobs, Submit(j)  PROVE LocksOK'
  BY <1>1, RowEffects DEF Submit, Inserted, Row, StageOK, Busy, Working
<1>2. ASSUME NEW w \in Workers, StartWorker(w)  PROVE LocksOK'
  BY <1>2 DEF StartWorker, StageOK, Busy, Working
<1>3. ASSUME NEW w \in Workers, ScanStaleRunningJobs(w)  PROVE LocksOK'
  BY <1>3 DEF ScanStaleRunningJobs, ReconcileDue, Unlocked, StageOK, Busy, Working
<1>4. ASSUME NEW w \in Workers, ReconcileStaleRunningJobs(w)  PROVE LocksOK'
  BY <1>4, RowEffects DEF ReconcileStaleRunningJobs, StageOK, Busy, Working
<1>5. ASSUME NEW w \in Workers, SkipReconcile(w)  PROVE LocksOK'
  BY <1>5 DEF SkipReconcile, StageOK, Busy, Working
<1>6. ASSUME NEW w \in Workers, SelectPendingJob(w)  PROVE LocksOK'
  BY <1>6 DEF SelectPendingJob, Claimable, Unlocked, Jobs, NoJob, StageOK, Busy, Working
<1>7. ASSUME NEW w \in Workers, FindNothing(w)  PROVE LocksOK'
  BY <1>7 DEF FindNothing, StageOK, Busy, Working
<1>8. ASSUME NEW w \in Workers, ClaimNextPendingJob(w)  PROVE LocksOK'
  <2>1. cur[w] \in Jobs
    BY <1>8 DEF ClaimNextPendingJob, StageOK, Busy
  <2>2. \A j \in Jobs : j # cur[w] => job'[j] = job[j]
    BY <1>8 DEF ClaimNextPendingJob
  <2>3. \A v \in Workers : v # w => cur[w] \notin locked[v]
    BY <1>8 DEF ClaimNextPendingJob
  <2>4. \A v \in Workers \ {w} : pc[v] = "claim" => cur[v] # cur[w] /\ cur[v] \in Jobs
    BY <2>3 DEF StageOK, Busy
  <2>. QED  BY <1>8, <2>1, <2>2, <2>3, <2>4 DEF ClaimNextPendingJob
<1>9. ASSUME NEW w \in Workers, LoadClaimedJobContext(w)  PROVE LocksOK'
  <2>1. job' = job \/ \A v \in Workers : cur[w] \notin locked[v]
    BY <1>9 DEF LoadClaimedJobContext, Unlocked
  <2>2. \A j \in Jobs : j # cur[w] => job'[j] = job[j]
    BY <1>9 DEF LoadClaimedJobContext
  <2>3. pc[w] = "load" /\ pc'[w] \in {"inspect", "loop"} /\ locked' = locked /\ stale' = stale
    BY <1>9 DEF LoadClaimedJobContext, Return
  <2>4. \A v \in Workers : v # w => pc'[v] = pc[v] /\ cur'[v] = cur[v]
    BY <1>9 DEF LoadClaimedJobContext, Return
  <2>5. \A v \in Workers : pc[v] = "claim" => cur[v] \in Jobs
    BY DEF StageOK, Busy
  <2>. QED  BY <2>1, <2>2, <2>3, <2>4, <2>5
<1>10. ASSUME NEW w \in Workers, InspectAudioSilence(w)  PROVE LocksOK'
  BY <1>10 DEF InspectAudioSilence, Goto, StageOK, Busy, Working
<1>11. ASSUME NEW w \in Workers, TranscribeAudio(w)  PROVE LocksOK'
  BY <1>11 DEF TranscribeAudio, Goto, StageOK, Busy, Working
<1>12. ASSUME NEW w \in Workers, DiarizeAudio(w)  PROVE LocksOK'
  BY <1>12 DEF DiarizeAudio, Goto, StageOK, Busy, Working
<1>13. ASSUME NEW w \in Workers, StageFails(w)  PROVE LocksOK'
  BY <1>13 DEF StageFails, Goto, StageOK, Busy, Working
<1>14. ASSUME NEW w \in Workers, ReadForPersist(w)  PROVE LocksOK'
  BY <1>14 DEF ReadForPersist, Goto, StageOK, Busy, Working
<1>15. ASSUME NEW w \in Workers, PersistCompletedJob(w)  PROVE LocksOK'
  BY <1>15, RowEffects DEF PersistCompletedJob, Return, Goto, Unlocked, StageOK, Busy, Working
<1>16. ASSUME NEW w \in Workers, PersistRollsBack(w)  PROVE LocksOK'
  BY <1>16 DEF PersistRollsBack, Goto, StageOK, Busy, Working
<1>17. ASSUME NEW w \in Workers, MarkJobFailed(w)  PROVE LocksOK'
  BY <1>17, RowEffects DEF MarkJobFailed, Return, Unlocked, StageOK, Busy, Working
<1>18. ASSUME NEW w \in Workers, UpdateJobHeartbeat(w)  PROVE LocksOK'
  BY <1>18, RowEffects DEF UpdateJobHeartbeat, Unlocked, StageOK, Busy, Working
<1>19. ASSUME NEW w \in Workers, HeartbeatDies(w)  PROVE LocksOK'
  BY <1>19 DEF HeartbeatDies, StageOK, Busy, Working
<1>20. ASSUME NEW w \in Workers, Crash(w)  PROVE LocksOK'
  BY <1>20 DEF Crash, StageOK, Busy, Working
<1>21. ASSUME Tick  PROVE LocksOK'
  <2>1. \A j \in Jobs : job'[j].status = job[j].status
    BY <1>21, RowEffects DEF Tick
  <2>2. \A w \in Workers : pc[w] = "claim" => cur[w] \in Jobs
    BY DEF StageOK, Busy
  <2>. QED  BY <1>21, <2>1, <2>2 DEF Tick
<1>22. CASE UNCHANGED vars
  <2>1. job' = job /\ pc' = pc /\ cur' = cur /\ locked' = locked /\ stale' = stale
    BY <1>22 DEF vars
  <2>. QED  BY <2>1
<1>. QED
  BY <1>1, <1>2, <1>3, <1>4, <1>5, <1>6, <1>7, <1>8, <1>9, <1>10, <1>11,
     <1>12, <1>13, <1>14, <1>15, <1>16, <1>17, <1>18, <1>19, <1>20, <1>21,
     <1>22 DEF Next, WorkerStep

LEMMA NextOwnersOK ==
    TypeOK /\ StageOK /\ LocksOK /\ OwnersOK /\ [Next]_vars => OwnersOK'
<1> SUFFICES ASSUME TypeOK, StageOK, LocksOK, OwnersOK, [Next]_vars
             PROVE  OwnersOK'
  OBVIOUS
<1> USE DEF TypeOK, OwnersOK, SingleOwner, Pending, Running
<1>1. ASSUME NEW j \in Jobs, Submit(j)  PROVE OwnersOK'
  BY <1>1, RowEffects DEF Submit, Inserted, Row, StageOK, Busy, Working
<1>2. ASSUME NEW w \in Workers, StartWorker(w)  PROVE OwnersOK'
  BY <1>2 DEF StartWorker, StageOK, LocksOK, Busy, Working
<1>3. ASSUME NEW w \in Workers, ScanStaleRunningJobs(w)  PROVE OwnersOK'
  BY <1>3 DEF ScanStaleRunningJobs, ReconcileDue, StageOK, LocksOK, Busy, Working
<1>4. ASSUME NEW w \in Workers, ReconcileStaleRunningJobs(w)  PROVE OwnersOK'
  <2>1. \A j \in Jobs : job'[j].status = job[j].status
                       \/ job'[j].status \in {"failed", "completed"}
    <3>1. \A j \in Jobs : Reconciled(job[j]).status \in {"failed", "completed"}
      BY RowEffects
    <3>. QED  BY <1>4, <3>1 DEF ReconcileStaleRunningJobs
  <2>2. \A v \in Workers : pc[v] \in Working => cur[v] \in Jobs
    BY DEF StageOK, Busy
  <2>. QED  BY <1>4, <2>1, <2>2 DEF ReconcileStaleRunningJobs, Working
<1>5. ASSUME NEW w \in Workers, SkipReconcile(w)  PROVE OwnersOK'
  BY <1>5 DEF SkipReconcile, StageOK, LocksOK, Busy, Working
<1>6. ASSUME NEW w \in Workers, SelectPendingJob(w)  PROVE OwnersOK'
  BY <1>6 DEF SelectPendingJob, Claimable, Unlocked, Jobs, NoJob, StageOK, LocksOK, Busy, Working
<1>7. ASSUME NEW w \in Workers, FindNothing(w)  PROVE OwnersOK'
  BY <1>7 DEF FindNothing, StageOK, LocksOK, Busy, Working
<1>8. ASSUME NEW w \in Workers, ClaimNextPendingJob(w)  PROVE OwnersOK'
  <2>1. cur[w] \in Jobs
    BY <1>8 DEF ClaimNextPendingJob, StageOK, Busy
  <2>2. job'[cur[w]].status = "running"
    BY <1>8, <2>1, RowEffects DEF ClaimNextPendingJob
  <2>3. \A j \in Jobs : j # cur[w] => job'[j] = job[j]
    BY <1>8 DEF ClaimNextPendingJob
  <2>4. \A v \in Workers : pc[v] \in Working => cur[v] \in Jobs
    BY DEF StageOK, Busy
  <2>. QED  BY <1>8, <2>1, <2>2, <2>3, <2>4 DEF ClaimNextPendingJob
<1>9. ASSUME NEW w \in Workers, LoadClaimedJobContext(w)  PROVE OwnersOK'
  BY <1>9, RowEffects DEF LoadClaimedJobContext, Return, StageOK, LocksOK, Busy, Working
<1>10. ASSUME NEW w \in Workers, InspectAudioSilence(w)  PROVE OwnersOK'
  BY <1>10 DEF InspectAudioSilence, Goto, StageOK, LocksOK, Busy, Working
<1>11. ASSUME NEW w \in Workers, TranscribeAudio(w)  PROVE OwnersOK'
  BY <1>11 DEF TranscribeAudio, Goto, StageOK, LocksOK, Busy, Working
<1>12. ASSUME NEW w \in Workers, DiarizeAudio(w)  PROVE OwnersOK'
  BY <1>12 DEF DiarizeAudio, Goto, StageOK, LocksOK, Busy, Working
<1>13. ASSUME NEW w \in Workers, StageFails(w)  PROVE OwnersOK'
  BY <1>13 DEF StageFails, Goto, StageOK, LocksOK, Busy, Working
<1>14. ASSUME NEW w \in Workers, ReadForPersist(w)  PROVE OwnersOK'
  BY <1>14 DEF ReadForPersist, Goto, StageOK, LocksOK, Busy, Working
<1>15. ASSUME NEW w \in Workers, PersistCompletedJob(w)  PROVE OwnersOK'
  <2>1. cur[w] \in Jobs
    BY <1>15 DEF PersistCompletedJob, StageOK, Busy, Working
  <2>2. job'[cur[w]].status = "completed"
    BY <1>15, <2>1, RowEffects DEF PersistCompletedJob
  <2>3. \A j \in Jobs : j # cur[w] => job'[j] = job[j]
    BY <1>15 DEF PersistCompletedJob
  <2>4. \A v \in Workers : pc[v] \in Working => cur[v] \in Jobs
    BY DEF StageOK, Busy
  <2>5. CASE Return(w)
    BY <2>1, <2>2, <2>3, <2>4, <2>5 DEF Return, Working
  <2>6. CASE Goto(w, "fail", "processing_error") /\ UNCHANGED <<cur, seen, beat>>
    BY <1>15, <2>1, <2>2, <2>3, <2>4, <2>6 DEF PersistCompletedJob, Goto, Working
  <2>. QED  BY <1>15, <2>5, <2>6 DEF PersistCompletedJob
<1>16. ASSUME NEW w \in Workers, PersistRollsBack(w)  PROVE OwnersOK'
  BY <1>16 DEF PersistRollsBack, Goto, StageOK, LocksOK, Busy, Working
<1>17. ASSUME NEW w \in Workers, MarkJobFailed(w)  PROVE OwnersOK'
  BY <1>17, RowEffects DEF MarkJobFailed, Return, StageOK, LocksOK, Busy, Working
<1>18. ASSUME NEW w \in Workers, UpdateJobHeartbeat(w)  PROVE OwnersOK'
  BY <1>18, RowEffects DEF UpdateJobHeartbeat, StageOK, LocksOK, Busy, Working
<1>19. ASSUME NEW w \in Workers, HeartbeatDies(w)  PROVE OwnersOK'
  BY <1>19 DEF HeartbeatDies, StageOK, LocksOK, Busy, Working
<1>20. ASSUME NEW w \in Workers, Crash(w)  PROVE OwnersOK'
  BY <1>20 DEF Crash, StageOK, LocksOK, Busy, Working
<1>21. ASSUME Tick  PROVE OwnersOK'
  <2>1. \A j \in Jobs : job'[j].status = job[j].status
    BY <1>21, RowEffects DEF Tick
  <2>2. \A w \in Workers : pc[w] \in Working => cur[w] \in Jobs
    BY DEF StageOK, Busy
  <2>. QED  BY <1>21, <2>1, <2>2 DEF Tick
<1>22. CASE UNCHANGED vars
  BY <1>22 DEF vars
<1>. QED
  BY <1>1, <1>2, <1>3, <1>4, <1>5, <1>6, <1>7, <1>8, <1>9, <1>10, <1>11,
     <1>12, <1>13, <1>14, <1>15, <1>16, <1>17, <1>18, <1>19, <1>20, <1>21,
     <1>22 DEF Next, WorkerStep

-----------------------------------------------------------------------------
(* Results: every COMPLETED row has one, an open row has none but a legacy *)
(* one.                                                                    *)

ResultsOK ==
    /\ \A j \in Jobs :
        /\ job[j].status = "absent" => job[j].result = "none"
        /\ job[j].status \in {"pending", "running"} => job[j].result \in LegacyResults
    /\ CompletedHasResult

LEMMA InitResultsOK == Init => ResultsOK
BY DEF Init, ResultsOK, CompletedHasResult, Legacy, LegacyResults, Absent, Row

LEMMA NextResultsOK ==
    TypeOK /\ StageOK /\ LocksOK /\ OwnersOK /\ ResultsOK /\ [Next]_vars => ResultsOK'
<1> SUFFICES ASSUME TypeOK, StageOK, LocksOK, OwnersOK, ResultsOK, [Next]_vars
             PROVE  ResultsOK'
  OBVIOUS
<1> USE DEF TypeOK, ResultsOK, CompletedHasResult
<1>1. ASSUME NEW j \in Jobs, Submit(j)  PROVE ResultsOK'
  BY <1>1 DEF Submit, Inserted, Row, LegacyResults
<1>2. ASSUME NEW w \in Workers, StartWorker(w)  PROVE ResultsOK'
  BY <1>2 DEF StartWorker
<1>3. ASSUME NEW w \in Workers, ScanStaleRunningJobs(w)  PROVE ResultsOK'
  BY <1>3 DEF ScanStaleRunningJobs, ReconcileDue
<1>4. ASSUME NEW w \in Workers, ReconcileStaleRunningJobs(w)  PROVE ResultsOK'
  BY <1>4, RowEffects DEF ReconcileStaleRunningJobs
<1>5. ASSUME NEW w \in Workers, SkipReconcile(w)  PROVE ResultsOK'
  BY <1>5 DEF SkipReconcile
<1>6. ASSUME NEW w \in Workers, SelectPendingJob(w)  PROVE ResultsOK'
  BY <1>6 DEF SelectPendingJob, Claimable, Unlocked, Jobs, NoJob
<1>7. ASSUME NEW w \in Workers, FindNothing(w)  PROVE ResultsOK'
  BY <1>7 DEF FindNothing
<1>8. ASSUME NEW w \in Workers, ClaimNextPendingJob(w)  PROVE ResultsOK'
  <2>1. cur[w] \in Jobs /\ job[cur[w]].result \in LegacyResults
    BY <1>8 DEF ClaimNextPendingJob, StageOK, Busy, LocksOK, Pending
  <2>2. job'[cur[w]] = Claimed(job[cur[w]])
    BY <1>8, <2>1 DEF ClaimNextPendingJob
  <2>3. job'[cur[w]].status = "running" /\ job'[cur[w]].result \in LegacyResults
    BY <2>1, <2>2, RowEffects
  <2>4. \A j \in Jobs : j # cur[w] => job'[j] = job[j]
    BY <1>8 DEF ClaimNextPendingJob
  <2>. QED  BY <2>3, <2>4
<1>9. ASSUME NEW w \in Workers, LoadClaimedJobContext(w)  PROVE ResultsOK'
  <2>1. cur[w] \in Jobs
    BY <1>9 DEF LoadClaimedJobContext, StageOK, Busy, Working
  <2>2. \/ job' = job
        \/ \E code : job'[cur[w]] = Failed(job[cur[w]], code)
    BY <1>9, <2>1 DEF LoadClaimedJobContext
  <2>3. job' = job \/ job'[cur[w]].status = "failed"
    BY <2>1, <2>2, RowEffects
  <2>4. \A j \in Jobs : j # cur[w] => job'[j] = job[j]
    BY <1>9 DEF LoadClaimedJobContext
  <2>. QED  BY <2>3, <2>4
<1>10. ASSUME NEW w \in Workers, InspectAudioSilence(w)  PROVE ResultsOK'
  BY <1>10 DEF InspectAudioSilence, Goto
<1>11. ASSUME NEW w \in Workers, TranscribeAudio(w)  PROVE ResultsOK'
  BY <1>11 DEF TranscribeAudio, Goto
<1>12. ASSUME NEW w \in Workers, DiarizeAudio(w)  PROVE ResultsOK'
  BY <1>12 DEF DiarizeAudio, Goto
<1>13. ASSUME NEW w \in Workers, StageFails(w)  PROVE ResultsOK'
  BY <1>13 DEF StageFails, Goto
<1>14. ASSUME NEW w \in Workers, ReadForPersist(w)  PROVE ResultsOK'
  BY <1>14 DEF ReadForPersist, Goto
<1>15. ASSUME NEW w \in Workers, PersistCompletedJob(w)  PROVE ResultsOK'
  <2>1. cur[w] \in Jobs /\ verdict[w] # "none"
    BY <1>15 DEF PersistCompletedJob, StageOK, Busy, Working, ResultKinds
  <2>2. job'[cur[w]] = Completed(job[cur[w]], verdict[w], seen[w])
    BY <1>15, <2>1 DEF PersistCompletedJob
  <2>3. job'[cur[w]].status = "completed" /\ job'[cur[w]].result # "none"
    BY <2>1, <2>2, RowEffects
  <2>4. \A j \in Jobs : j # cur[w] => job'[j] = job[j]
    BY <1>15 DEF PersistCompletedJob
  <2>. QED  BY <2>3, <2>4
<1>16. ASSUME NEW w \in Workers, PersistRollsBack(w)  PROVE ResultsOK'
  BY <1>16 DEF PersistRollsBack, Goto
<1>17. ASSUME NEW w \in Workers, MarkJobFailed(w)  PROVE ResultsOK'
  BY <1>17, RowEffects DEF MarkJobFailed, Return
<1>18. ASSUME NEW w \in Workers, UpdateJobHeartbeat(w)  PROVE ResultsOK'
  BY <1>18, RowEffects DEF UpdateJobHeartbeat
<1>19. ASSUME NEW w \in Workers, HeartbeatDies(w)  PROVE ResultsOK'
  BY <1>19 DEF HeartbeatDies
<1>20. ASSUME NEW w \in Workers, Crash(w)  PROVE ResultsOK'
  BY <1>20 DEF Crash
<1>21. ASSUME Tick  PROVE ResultsOK'
  BY <1>21, RowEffects DEF Tick
<1>22. CASE UNCHANGED vars
  BY <1>22 DEF vars
<1>. QED
  BY <1>1, <1>2, <1>3, <1>4, <1>5, <1>6, <1>7, <1>8, <1>9, <1>10, <1>11,
     <1>12, <1>13, <1>14, <1>15, <1>16, <1>17, <1>18, <1>19, <1>20, <1>21,
     <1>22 DEF Next, WorkerStep

-----------------------------------------------------------------------------
(* Freshness: heartbeats keep a protected job away from recovery.          *)

LEMMA RowAges ==
    ASSUME NEW r \in Rows
    PROVE  /\ r.age \in Nat
           /\ Older(r).age <= r.age + 1
           /\ Claimed(r).age = 0
           /\ r.status = "running" => Beaten(r).age = 0
<1>0. StaleAfter \in Nat /\ MaxSkew \in Nat  BY LifecycleAssumption
<1>. QED  BY <1>0 DEF Older, Claimed, Beaten, Row, Rows, TooOld

\* The inductive form of NoFalseInterruption also bounds the age.
FreshOK ==
    \A w \in Workers : Protected(w) =>
        /\ Running(cur[w])
        /\ job[cur[w]].age <= MaxBeatGap
        /\ \A v \in Workers : cur[w] \notin stale[v]

LEMMA InitFreshOK == Init => FreshOK
BY DEF Init, FreshOK, Protected

LEMMA NextFreshOK ==
    TypeOK /\ StageOK /\ LocksOK /\ OwnersOK /\ FreshOK /\ [Next]_vars => FreshOK'
<1> SUFFICES ASSUME TypeOK, StageOK, LocksOK, OwnersOK, FreshOK, [Next]_vars
             PROVE  FreshOK'
  OBVIOUS
<1> USE DEF TypeOK, FreshOK, Protected, Running
<1>a. /\ MaxBeatGap \in Nat /\ StaleAfter \in Nat /\ MaxSkew \in Nat
      /\ MaxBeatGap + MaxSkew <= StaleAfter
  BY LifecycleAssumption
<1>b. \A w \in Workers : Protected(w) => cur[w] \in Jobs
  BY DEF StageOK, Busy, Working
<1>c. \A v, w \in Workers : Protected(v) /\ v # w => cur[v] # cur[w]
  BY <1>b DEF OwnersOK, SingleOwner, Jobs, NoJob
<1>1. ASSUME NEW j \in Jobs, Submit(j)  PROVE FreshOK'
  BY <1>1, <1>b DEF Submit
<1>2. ASSUME NEW w \in Workers, StartWorker(w)  PROVE FreshOK'
  BY <1>2, <1>b, <1>c DEF StartWorker
<1>3. ASSUME NEW w \in Workers, ScanStaleRunningJobs(w)  PROVE FreshOK'
  <2>a. PICK skew \in (-MaxSkew)..MaxSkew :
           stale' = [stale EXCEPT ![w] = {j \in locked'[w] : IsStale(job[j], skew)}]
    BY <1>3 DEF ScanStaleRunningJobs
  <2>b. locked'[w] \subseteq Jobs
    BY <1>3 DEF ScanStaleRunningJobs
  <2>1. \A j \in stale'[w] : j \in Jobs /\ job[j].age + skew > StaleAfter
    BY <2>a, <2>b DEF IsStale
  <2>c. skew \in Int /\ skew <= MaxSkew
    BY <1>a, <2>a
  <2>2. \A v \in Workers : v # w => stale'[v] = stale[v]
    BY <1>3 DEF ScanStaleRunningJobs
  <2>3. \A v \in Workers : Protected(v)' => Protected(v)
    BY <1>3 DEF ScanStaleRunningJobs
  <2>4. \A j \in Jobs : job[j].age \in Nat
    BY RowAges
  <2>. QED  BY <1>3, <1>a, <1>b, <2>1, <2>2, <2>3, <2>4, <2>c DEF ScanStaleRunningJobs
<1>4. ASSUME NEW w \in Workers, ReconcileStaleRunningJobs(w)  PROVE FreshOK'
  BY <1>4, <1>b, <1>c DEF ReconcileStaleRunningJobs
<1>5. ASSUME NEW w \in Workers, SkipReconcile(w)  PROVE FreshOK'
  BY <1>5, <1>b, <1>c DEF SkipReconcile
<1>6. ASSUME NEW w \in Workers, SelectPendingJob(w)  PROVE FreshOK'
  BY <1>6, <1>b, <1>c DEF SelectPendingJob, Claimable, Unlocked, Jobs, NoJob
<1>7. ASSUME NEW w \in Workers, FindNothing(w)  PROVE FreshOK'
  BY <1>7, <1>b, <1>c DEF FindNothing
<1>8. ASSUME NEW w \in Workers, ClaimNextPendingJob(w)  PROVE FreshOK'
  <2>1. cur[w] \in Jobs
    BY <1>8 DEF ClaimNextPendingJob, StageOK, Busy
  <2>2. job'[cur[w]] = Claimed(job[cur[w]]) /\ \A j \in Jobs : j # cur[w] => job'[j] = job[j]
    BY <1>8, <2>1 DEF ClaimNextPendingJob
  <2>3. job'[cur[w]].age = 0 /\ job'[cur[w]].status = "running"
    BY <2>1, <2>2, RowEffects, RowAges
  <2>4. \A v \in Workers : cur[w] \notin stale[v]
    BY <1>8 DEF ClaimNextPendingJob, LocksOK
  <2>5. \A v \in Workers : v # w => (Protected(v)' <=> Protected(v))
    BY <1>8 DEF ClaimNextPendingJob
  <2>. QED  BY <1>8, <1>a, <1>b, <1>c, <2>2, <2>3, <2>4, <2>5 DEF ClaimNextPendingJob
<1>9. ASSUME NEW w \in Workers, LoadClaimedJobContext(w)  PROVE FreshOK'
  BY <1>9, <1>b, <1>c DEF LoadClaimedJobContext, Return
<1>10. ASSUME NEW w \in Workers, InspectAudioSilence(w)  PROVE FreshOK'
  BY <1>10, <1>b, <1>c DEF InspectAudioSilence, Goto
<1>11. ASSUME NEW w \in Workers, TranscribeAudio(w)  PROVE FreshOK'
  BY <1>11, <1>b, <1>c DEF TranscribeAudio, Goto
<1>12. ASSUME NEW w \in Workers, DiarizeAudio(w)  PROVE FreshOK'
  BY <1>12, <1>b, <1>c DEF DiarizeAudio, Goto, StageOK
<1>13. ASSUME NEW w \in Workers, StageFails(w)  PROVE FreshOK'
  BY <1>13, <1>b, <1>c DEF StageFails, Goto
<1>14. ASSUME NEW w \in Workers, ReadForPersist(w)  PROVE FreshOK'
  BY <1>14, <1>b, <1>c DEF ReadForPersist, Goto
<1>15. ASSUME NEW w \in Workers, PersistCompletedJob(w)  PROVE FreshOK'
  BY <1>15, <1>b, <1>c DEF PersistCompletedJob, Return, Goto
<1>16. ASSUME NEW w \in Workers, PersistRollsBack(w)  PROVE FreshOK'
  BY <1>16, <1>b, <1>c DEF PersistRollsBack, Goto
<1>17. ASSUME NEW w \in Workers, MarkJobFailed(w)  PROVE FreshOK'
  BY <1>17, <1>b, <1>c DEF MarkJobFailed, Return
<1>18. ASSUME NEW w \in Workers, UpdateJobHeartbeat(w)  PROVE FreshOK'
  <2>1. cur[w] \in Jobs
    BY <1>18 DEF UpdateJobHeartbeat, StageOK, Busy, Working
  <2>2. job'[cur[w]] = Beaten(job[cur[w]]) /\ \A j \in Jobs : j # cur[w] => job'[j] = job[j]
    BY <1>18, <2>1 DEF UpdateJobHeartbeat
  <2>3. Running(cur[w]) => job'[cur[w]].age = 0 /\ job'[cur[w]].status = "running"
    BY <2>1, <2>2, RowEffects, RowAges
  <2>4. \A v \in Workers : Protected(v)' => Protected(v)
    BY <1>18 DEF UpdateJobHeartbeat
  <2>. QED  BY <1>18, <1>a, <1>b, <1>c, <2>2, <2>3, <2>4 DEF UpdateJobHeartbeat
<1>19. ASSUME NEW w \in Workers, HeartbeatDies(w)  PROVE FreshOK'
  BY <1>19, <1>b, <1>c DEF HeartbeatDies
<1>20. ASSUME NEW w \in Workers, Crash(w)  PROVE FreshOK'
  BY <1>20, <1>b, <1>c DEF Crash
<1>21. ASSUME Tick  PROVE FreshOK'
  <2>1. \A j \in Jobs : /\ job'[j].status = job[j].status
                       /\ job[j].age \in Nat /\ job'[j].age \in Nat
                       /\ job'[j].age <= job[j].age + 1
    BY <1>21, RowEffects, RowAges, RowsClosed DEF Tick
  <2>2. \A w \in Workers : Protected(w)' => Protected(w) /\ job[cur[w]].age < MaxBeatGap
    BY <1>21 DEF Tick
  <2>. QED  BY <1>21, <1>a, <1>b, <2>1, <2>2 DEF Tick
<1>22. CASE UNCHANGED vars
  BY <1>22 DEF vars
<1>. QED
  BY <1>1, <1>2, <1>3, <1>4, <1>5, <1>6, <1>7, <1>8, <1>9, <1>10, <1>11,
     <1>12, <1>13, <1>14, <1>15, <1>16, <1>17, <1>18, <1>19, <1>20, <1>21,
     <1>22 DEF Next, WorkerStep

-----------------------------------------------------------------------------
(* With every commit acknowledged, a row has a new result or an error: a   *)
(* worker gets past loading only with a job that has no result, and only   *)
(* that worker stores one.                                                 *)

\* Loading has not looked at the result yet, or the job is to be failed.
MayHaveLegacy == {"load", "fail"}

AckOK ==
    /\ \A w \in Workers : pc[w] \in Working =>
        /\ job[cur[w]].result \in LegacyResults
        /\ pc[w] \notin MayHaveLegacy => job[cur[w]].result = "none"
    /\ EitherResultOrFailure

LEMMA InitAckOK == Init => AckOK
BY DEF Init, AckOK, EitherResultOrFailure, Working, Legacy, Absent, Row

LEMMA NextAckOK ==
    ASSUME LostAcks = FALSE
    PROVE  TypeOK /\ StageOK /\ LocksOK /\ OwnersOK /\ ResultsOK /\ AckOK
             /\ [Next]_vars => AckOK'
<1> SUFFICES ASSUME TypeOK, StageOK, LocksOK, OwnersOK, ResultsOK, AckOK,
                    [Next]_vars
             PROVE  AckOK'
  OBVIOUS
<1> USE DEF TypeOK, AckOK, EitherResultOrFailure, MayHaveLegacy
<1>b. \A w \in Workers : pc[w] \in Working => cur[w] \in Jobs
  BY DEF StageOK, Busy
<1>c. \A v, w \in Workers : pc[v] \in Working /\ v # w => cur[v] # cur[w]
  BY <1>b DEF OwnersOK, SingleOwner, Jobs, NoJob
<1>1. ASSUME NEW j \in Jobs, Submit(j)  PROVE AckOK'
  BY <1>1, <1>b DEF Submit, Inserted, Row, LegacyResults
<1>2. ASSUME NEW w \in Workers, StartWorker(w)  PROVE AckOK'
  BY <1>2, RowEffects, <1>b DEF StartWorker, Working
<1>3. ASSUME NEW w \in Workers, ScanStaleRunningJobs(w)  PROVE AckOK'
  BY <1>3, RowEffects, <1>b DEF ScanStaleRunningJobs, ReconcileDue, Working
<1>4. ASSUME NEW w \in Workers, ReconcileStaleRunningJobs(w)  PROVE AckOK'
  <2>1. \A j \in Jobs : j \in stale[w] =>
          /\ job'[j].result = job[j].result
          /\ job'[j].status = "failed" =>
                job'[j].result = "none" /\ job'[j].error # "none"
    BY <1>4, RowEffects DEF ReconcileStaleRunningJobs
  <2>2. \A j \in Jobs : j \notin stale[w] => job'[j] = job[j]
    BY <1>4 DEF ReconcileStaleRunningJobs
  <2>3. cur' = cur /\ \A v \in Workers : pc'[v] \in Working => pc'[v] = pc[v]
    BY <1>4 DEF ReconcileStaleRunningJobs, Working
  <2>4. EitherResultOrFailure'
    BY <2>1, <2>2 DEF LegacyResults
  <2>. QED  BY <1>b, <2>1, <2>2, <2>3, <2>4
<1>5. ASSUME NEW w \in Workers, SkipReconcile(w)  PROVE AckOK'
  BY <1>5, RowEffects, <1>b DEF SkipReconcile, Working
<1>6. ASSUME NEW w \in Workers, SelectPendingJob(w)  PROVE AckOK'
  BY <1>6, RowEffects, <1>b DEF SelectPendingJob, Claimable, Unlocked, Jobs, NoJob, Working
<1>7. ASSUME NEW w \in Workers, FindNothing(w)  PROVE AckOK'
  BY <1>7, RowEffects, <1>b DEF FindNothing, Working
<1>8. ASSUME NEW w \in Workers, ClaimNextPendingJob(w)  PROVE AckOK'
  <2>1. cur[w] \in Jobs /\ job[cur[w]].result \in LegacyResults
    BY <1>8 DEF ClaimNextPendingJob, StageOK, Busy, LocksOK, Pending, ResultsOK
  <2>2. job'[cur[w]] = Claimed(job[cur[w]])
    BY <1>8, <2>1 DEF ClaimNextPendingJob
  <2>3. job'[cur[w]].status = "running" /\ job'[cur[w]].result \in LegacyResults
    BY <2>1, <2>2, RowEffects
  <2>4. \A j \in Jobs : j # cur[w] => job'[j] = job[j]
    BY <1>8 DEF ClaimNextPendingJob
  <2>5. /\ cur' = cur /\ pc'[w] = "load"
        /\ \A v \in Workers : v # w => pc'[v] = pc[v]
    BY <1>8 DEF ClaimNextPendingJob
  <2>6. \A v \in Workers : v # w /\ pc'[v] \in Working => cur[v] # cur[w]
    BY <1>b, <1>c, <2>5
  <2>8. \A v \in Workers : pc'[v] \in Working =>
          /\ job'[cur'[v]].result \in LegacyResults
          /\ pc'[v] \notin MayHaveLegacy => job'[cur'[v]].result = "none"
    BY <1>b, <2>3, <2>4, <2>5, <2>6
  <2>7. EitherResultOrFailure'
    BY <2>3, <2>4
  <2>. QED  BY <2>7, <2>8
<1>9. ASSUME NEW w \in Workers, LoadClaimedJobContext(w)  PROVE AckOK'
  <2>1. cur[w] \in Jobs /\ job[cur[w]].result \in LegacyResults
    BY <1>9, <1>b DEF LoadClaimedJobContext, Working
  <2>2. \/ /\ job' = job /\ cur' = cur /\ pc' = [pc EXCEPT ![w] = "inspect"]
           /\ job[cur[w]].result = "none"
        \/ /\ \E code : code # "none" /\ job'[cur[w]] = Failed(job[cur[w]], code)
           /\ Return(w)
    BY <1>9, <2>1 DEF LoadClaimedJobContext, LoadOutcomes
  <2>3. \/ job' = job
        \/ /\ job'[cur[w]].result = job[cur[w]].result
           /\ job'[cur[w]].error # "none"
    BY <2>1, <2>2, RowEffects
  <2>4. \A j \in Jobs : j # cur[w] => job'[j] = job[j]
    BY <1>9 DEF LoadClaimedJobContext
  <2>5. \A v \in Workers : v # w /\ pc'[v] \in Working =>
          pc'[v] = pc[v] /\ cur'[v] = cur[v] /\ cur[v] # cur[w]
    BY <1>b, <1>c, <2>2 DEF Return
  <2>6. pc'[w] \in Working => job' = job /\ cur' = cur /\ job[cur[w]].result = "none"
    BY <2>2 DEF Return, Working
  <2>7. \A v \in Workers : pc'[v] \in Working =>
          /\ job'[cur'[v]].result \in LegacyResults
          /\ pc'[v] \notin MayHaveLegacy => job'[cur'[v]].result = "none"
    BY <1>b, <2>1, <2>4, <2>5, <2>6
  <2>8. EitherResultOrFailure'
    BY <2>1, <2>3, <2>4
  <2>. QED  BY <2>7, <2>8
<1>10. ASSUME NEW w \in Workers, InspectAudioSilence(w)  PROVE AckOK'
  BY <1>10, RowEffects, <1>b DEF InspectAudioSilence, Goto, Working
<1>11. ASSUME NEW w \in Workers, TranscribeAudio(w)  PROVE AckOK'
  BY <1>11, RowEffects, <1>b DEF TranscribeAudio, Goto, Working
<1>12. ASSUME NEW w \in Workers, DiarizeAudio(w)  PROVE AckOK'
  BY <1>12, RowEffects, <1>b DEF DiarizeAudio, Goto, Working
<1>13. ASSUME NEW w \in Workers, StageFails(w)  PROVE AckOK'
  BY <1>13, RowEffects, <1>b DEF StageFails, Goto, Working
<1>14. ASSUME NEW w \in Workers, ReadForPersist(w)  PROVE AckOK'
  BY <1>14, RowEffects, <1>b DEF ReadForPersist, Goto, Working
<1>15. ASSUME NEW w \in Workers, PersistCompletedJob(w)  PROVE AckOK'
  <2>1. cur[w] \in Jobs
    BY <1>15, <1>b DEF PersistCompletedJob, Working
  <2>2. job'[cur[w]] = Completed(job[cur[w]], verdict[w], seen[w])
    BY <1>15, <2>1 DEF PersistCompletedJob
  <2>3. job'[cur[w]].status = "completed"
    BY <2>1, <2>2, RowEffects
  <2>4. \A j \in Jobs : j # cur[w] => job'[j] = job[j]
    BY <1>15 DEF PersistCompletedJob
  <2>5. \A v \in Workers : pc'[v] \in Working =>
          v # w /\ pc[v] \in Working /\ pc'[v] = pc[v] /\ cur'[v] = cur[v]
    BY <1>15 DEF PersistCompletedJob, Return, Working
  <2>. QED  BY <1>b, <1>c, <2>3, <2>4, <2>5
<1>16. ASSUME NEW w \in Workers, PersistRollsBack(w)  PROVE AckOK'
  BY <1>16, RowEffects, <1>b DEF PersistRollsBack, Goto, Working
<1>17. ASSUME NEW w \in Workers, MarkJobFailed(w)  PROVE AckOK'
  <2>1. /\ cur[w] \in Jobs /\ verdict[w] # "none"
        /\ job[cur[w]].result \in LegacyResults
    BY <1>17, <1>b DEF MarkJobFailed, StageOK, Working, ErrorCodes
  <2>2. job'[cur[w]] = Failed(job[cur[w]], verdict[w])
    BY <1>17, <2>1 DEF MarkJobFailed
  <2>3. /\ job'[cur[w]].result \in LegacyResults
        /\ job'[cur[w]].error # "none"
    BY <2>1, <2>2, RowEffects
  <2>4. \A j \in Jobs : j # cur[w] => job'[j] = job[j]
    BY <1>17 DEF MarkJobFailed
  <2>5. \A v \in Workers : pc'[v] \in Working =>
          v # w /\ pc[v] \in Working /\ pc'[v] = pc[v] /\ cur'[v] = cur[v]
    BY <1>17 DEF MarkJobFailed, Return, Working
  <2>. QED  BY <1>b, <1>c, <2>3, <2>4, <2>5
<1>18. ASSUME NEW w \in Workers, UpdateJobHeartbeat(w)  PROVE AckOK'
  <2>1. \A j \in Jobs : /\ job'[j].status = job[j].status
                       /\ job'[j].result = job[j].result
                       /\ job'[j].error = job[j].error
    BY <1>18, RowEffects DEF UpdateJobHeartbeat
  <2>. QED  BY <1>18, <1>b, <2>1 DEF UpdateJobHeartbeat
<1>19. ASSUME NEW w \in Workers, HeartbeatDies(w)  PROVE AckOK'
  BY <1>19, RowEffects, <1>b DEF HeartbeatDies, Working
<1>20. ASSUME NEW w \in Workers, Crash(w)  PROVE AckOK'
  BY <1>20, RowEffects, <1>b DEF Crash, Working
<1>21. ASSUME Tick  PROVE AckOK'
  <2>1. \A j \in Jobs : /\ job'[j].status = job[j].status
                       /\ job'[j].result = job[j].result
                       /\ job'[j].error = job[j].error
    BY <1>21, RowEffects DEF Tick
  <2>. QED  BY <1>21, <1>b, <2>1 DEF Tick
<1>22. CASE UNCHANGED vars
  BY <1>22 DEF vars
<1>. QED
  BY <1>1, <1>2, <1>3, <1>4, <1>5, <1>6, <1>7, <1>8, <1>9, <1>10, <1>11,
     <1>12, <1>13, <1>14, <1>15, <1>16, <1>17, <1>18, <1>19, <1>20, <1>21,
     <1>22 DEF Next, WorkerStep

-----------------------------------------------------------------------------
(* The invariant, and the properties that follow from it.                  *)

IInv == TypeOK /\ StageOK /\ LocksOK /\ OwnersOK /\ ResultsOK /\ FreshOK

\* The inductive invariant holds in every reachable state.
THEOREM Invariance == Spec => []IInv
<1>1. Init => IInv
  BY InitTypeOK, InitStageOK, InitLocksOK, InitResultsOK, InitFreshOK DEF IInv
<1>2. IInv /\ [Next]_vars => IInv'
  BY NextTypeOK, NextStageOK, NextLocksOK, NextOwnersOK, NextResultsOK,
     NextFreshOK DEF IInv
<1>. QED  BY <1>1, <1>2, PTL DEF Spec

\* Every variable keeps its type.
THEOREM TypeCorrectness == Spec => []TypeOK
<1>1. IInv => TypeOK  BY DEF IInv
<1>. QED  BY <1>1, Invariance, PTL

\* However many workers claim, crash, restart and recover, no two of them ever
\* hold the same job (claim_next_pending_job).
THEOREM ExclusiveOwnership == Spec => []SingleOwner
<1>1. IInv => SingleOwner  BY DEF IInv, OwnersOK
<1>. QED  BY <1>1, Invariance, PTL

\* If heartbeats of a live thread land at most MaxBeatGap apart, and MaxBeatGap
\* plus the skew of two clocks is at most StaleAfter, recovery never decides to settle a job that is being kept fresh
\* (_JobHeartbeat, reconcile_stale_running_jobs).
THEOREM FreshJobsSurvive == Spec => []NoFalseInterruption
<1>1. IInv => NoFalseInterruption  BY DEF IInv, FreshOK, NoFalseInterruption
<1>. QED  BY <1>1, Invariance, PTL

\* A COMPLETED row always has a result (_persist_completed_job,
\* reconcile_stale_running_jobs).
THEOREM CompletionHasResult == Spec => []CompletedHasResult
<1>1. IInv => CompletedHasResult  BY DEF IInv, ResultsOK
<1>. QED  BY <1>1, Invariance, PTL

\* While every commit is acknowledged, a FAILED row has an error code and no
\* result but one it was inherited with, races between a worker and recovery
\* included.
THEOREM SettledOneWay ==
    ASSUME LostAcks = FALSE
    PROVE  Spec => []EitherResultOrFailure
<1>1. Init => AckOK  BY InitAckOK
<1>2. IInv /\ AckOK /\ [Next]_vars => AckOK'
  BY NextAckOK DEF IInv
<1>3. AckOK => EitherResultOrFailure  BY DEF AckOK
<1>. QED  BY <1>1, <1>2, <1>3, Invariance, PTL DEF Spec

-----------------------------------------------------------------------------
(* What a worker leaves behind.                                            *)

\* The action of ReturnsSettled.
Settles == \A w \in Workers : pc[w] \in Working /\ pc'[w] = "loop"
             => job'[cur[w]].status \in {"completed", "failed"}

LEMMA StepSettles == TypeOK /\ StageOK /\ [Next]_vars => Settles
<1> SUFFICES ASSUME TypeOK, StageOK, [Next]_vars  PROVE Settles
  OBVIOUS
<1> USE DEF TypeOK, Settles, Working
<1>b. \A w \in Workers : pc[w] \in Working => cur[w] \in Jobs /\ job[cur[w]] \in Rows
  BY DEF StageOK, Busy
<1>1. ASSUME NEW j \in Jobs, Submit(j)  PROVE Settles
  BY <1>1 DEF Submit
<1>2. ASSUME NEW w \in Workers, StartWorker(w)  PROVE Settles
  BY <1>2 DEF StartWorker
<1>3. ASSUME NEW w \in Workers, ScanStaleRunningJobs(w)  PROVE Settles
  BY <1>3 DEF ScanStaleRunningJobs, ReconcileDue
<1>4. ASSUME NEW w \in Workers, ReconcileStaleRunningJobs(w)  PROVE Settles
  BY <1>4 DEF ReconcileStaleRunningJobs
<1>5. ASSUME NEW w \in Workers, SkipReconcile(w)  PROVE Settles
  BY <1>5 DEF SkipReconcile
<1>6. ASSUME NEW w \in Workers, SelectPendingJob(w)  PROVE Settles
  BY <1>6 DEF SelectPendingJob, Claimable, Unlocked, Jobs, NoJob
<1>7. ASSUME NEW w \in Workers, FindNothing(w)  PROVE Settles
  BY <1>7 DEF FindNothing
<1>8. ASSUME NEW w \in Workers, ClaimNextPendingJob(w)  PROVE Settles
  BY <1>8 DEF ClaimNextPendingJob
<1>9. ASSUME NEW w \in Workers, LoadClaimedJobContext(w)  PROVE Settles
  <2>1. pc'[w] = "loop" =>
          \E code : job' = [job EXCEPT ![cur[w]] = Failed(job[cur[w]], code)]
    BY <1>9 DEF LoadClaimedJobContext
  <2>2. pc'[w] = "loop" => job'[cur[w]].status = "failed"
    BY <1>9, <1>b, <2>1, RowEffects DEF LoadClaimedJobContext
  <2>3. \A v \in Workers : v # w => pc'[v] = pc[v]
    BY <1>9 DEF LoadClaimedJobContext, Return
  <2>. QED  BY <2>2, <2>3
<1>10. ASSUME NEW w \in Workers, InspectAudioSilence(w)  PROVE Settles
  BY <1>10 DEF InspectAudioSilence, Goto
<1>11. ASSUME NEW w \in Workers, TranscribeAudio(w)  PROVE Settles
  BY <1>11 DEF TranscribeAudio, Goto
<1>12. ASSUME NEW w \in Workers, DiarizeAudio(w)  PROVE Settles
  BY <1>12 DEF DiarizeAudio, Goto
<1>13. ASSUME NEW w \in Workers, StageFails(w)  PROVE Settles
  BY <1>13 DEF StageFails, Goto
<1>14. ASSUME NEW w \in Workers, ReadForPersist(w)  PROVE Settles
  BY <1>14 DEF ReadForPersist, Goto
<1>15. ASSUME NEW w \in Workers, PersistCompletedJob(w)  PROVE Settles
  <2>1. job'[cur[w]] = Completed(job[cur[w]], verdict[w], seen[w])
    BY <1>15, <1>b DEF PersistCompletedJob
  <2>2. job'[cur[w]].status = "completed"
    BY <1>15, <1>b, <2>1, RowEffects DEF PersistCompletedJob
  <2>3. \A v \in Workers : v # w => pc'[v] = pc[v]
    BY <1>15 DEF PersistCompletedJob, Return, Goto
  <2>. QED  BY <2>2, <2>3
<1>16. ASSUME NEW w \in Workers, PersistRollsBack(w)  PROVE Settles
  BY <1>16 DEF PersistRollsBack, Goto
<1>17. ASSUME NEW w \in Workers, MarkJobFailed(w)  PROVE Settles
  <2>1. job'[cur[w]] = Failed(job[cur[w]], verdict[w])
    BY <1>17, <1>b DEF MarkJobFailed
  <2>2. job'[cur[w]].status = "failed"
    BY <1>17, <1>b, <2>1, RowEffects DEF MarkJobFailed
  <2>3. \A v \in Workers : v # w => pc'[v] = pc[v]
    BY <1>17 DEF MarkJobFailed, Return
  <2>. QED  BY <2>2, <2>3
<1>18. ASSUME NEW w \in Workers, UpdateJobHeartbeat(w)  PROVE Settles
  BY <1>18 DEF UpdateJobHeartbeat
<1>19. ASSUME NEW w \in Workers, HeartbeatDies(w)  PROVE Settles
  BY <1>19 DEF HeartbeatDies
<1>20. ASSUME NEW w \in Workers, Crash(w)  PROVE Settles
  BY <1>20 DEF Crash
<1>21. ASSUME Tick  PROVE Settles
  BY <1>21 DEF Tick
<1>22. CASE UNCHANGED vars
  BY <1>22 DEF vars
<1>. QED
  BY <1>1, <1>2, <1>3, <1>4, <1>5, <1>6, <1>7, <1>8, <1>9, <1>10, <1>11,
     <1>12, <1>13, <1>14, <1>15, <1>16, <1>17, <1>18, <1>19, <1>20, <1>21,
     <1>22 DEF Next, WorkerStep

\* process_claimed_job settles its row on every path out of it.
THEOREM ReturnsSettledRows == Spec => ReturnsSettled
<1>1. IInv /\ [Next]_vars => Settles
  BY StepSettles DEF IInv
<1>. QED  BY <1>1, Invariance, PTL DEF Spec, ReturnsSettled, Settles

-----------------------------------------------------------------------------
(* Refinement: every step is a step of the contract.                       *)

\* One row under one step of the contract.
RowStep(r, s) ==
    \/ r.status = "absent"  /\ s.status = "pending" /\ s.result = r.result
    \/ r.status = "pending" /\ s.status = "running" /\ s.result = r.result
    \/ /\ r.status \in {"running", "failed"} /\ s.status = "completed"
       /\ r.result = "none" /\ s.result \in ResultKinds \ LegacyResults
    \/ /\ r.status = "running" /\ s.status = "completed"
       /\ r.result = "legacy" /\ s.result = r.result
    \/ /\ \/ r.status = "running" /\ r.result \in LegacyResults
          \/ r.status = "completed" /\ r.result = "legacy"
       /\ s.status = "failed" /\ s.result = r.result
    \/ s.status = r.status /\ s.result = r.result

RowSteps == \A j \in Jobs : RowStep(job[j], job'[j])

\* A worker that has not lost its job holds it RUNNING; one that has finds it
\* settled by recovery, COMPLETED only with a legacy result.
WorkOK ==
    \A w \in Workers : pc[w] \in Working =>
        /\ cur[w] \in Jobs
        /\ job[cur[w]].result \in LegacyResults
        /\ pc[w] \notin MayHaveLegacy => job[cur[w]].result = "none"
        /\ \/ job[cur[w]].status \in {"running", "failed"}
           \/ job[cur[w]].status = "completed" /\ job[cur[w]].result = "legacy"

LEMMA OwnedRows == TypeOK /\ StageOK /\ OwnersOK /\ ResultsOK /\ AckOK => WorkOK
<1> SUFFICES ASSUME TypeOK, StageOK, OwnersOK, ResultsOK, AckOK,
                    NEW w \in Workers, pc[w] \in Working
             PROVE  /\ cur[w] \in Jobs
                    /\ job[cur[w]].result \in LegacyResults
                    /\ pc[w] \notin MayHaveLegacy => job[cur[w]].result = "none"
                    /\ \/ job[cur[w]].status \in {"running", "failed"}
                       \/ /\ job[cur[w]].status = "completed"
                          /\ job[cur[w]].result = "legacy"
  BY DEF WorkOK
<1>1. cur[w] \in Jobs
  BY DEF TypeOK, StageOK, Busy
<1>2. job[cur[w]].status \in Statuses
  BY <1>1 DEF TypeOK, Rows
<1>. QED
  BY <1>1, <1>2
  DEF OwnersOK, ResultsOK, CompletedHasResult, AckOK, Statuses, LegacyResults

LEMMA StepsAreRowSteps ==
    IInv /\ AckOK /\ [Next]_vars => RowSteps
<1> SUFFICES ASSUME IInv, AckOK, [Next]_vars  PROVE RowSteps
  OBVIOUS
<1>a. TypeOK /\ StageOK /\ LocksOK /\ WorkOK
  BY OwnedRows DEF IInv
<1>b. \A j \in Jobs : job[j] \in Rows
  BY <1>a DEF TypeOK
<1>0. ASSUME job' = job  PROVE RowSteps
  BY <1>0 DEF RowSteps, RowStep
<1>1. ASSUME NEW j \in Jobs, Submit(j)  PROVE RowSteps
  <2>1. job[j].result = "none"
    BY <1>1 DEF Submit, IInv, ResultsOK
  <2>. QED  BY <1>1, <1>a, <2>1 DEF Submit, Inserted, Row, RowSteps, RowStep, TypeOK
<1>2. ASSUME NEW w \in Workers, StartWorker(w)  PROVE RowSteps
  BY <1>0, <1>2 DEF StartWorker
<1>3. ASSUME NEW w \in Workers, ScanStaleRunningJobs(w)  PROVE RowSteps
  BY <1>0, <1>3 DEF ScanStaleRunningJobs
<1>4. ASSUME NEW w \in Workers, ReconcileStaleRunningJobs(w)  PROVE RowSteps
  <2> SUFFICES ASSUME NEW j \in Jobs  PROVE RowStep(job[j], job'[j])
    BY DEF RowSteps
  <2>1. CASE j \notin stale[w]
    BY <1>4, <2>1 DEF ReconcileStaleRunningJobs, RowStep
  <2>2. CASE j \in stale[w]
    <3>1. job[j].status = "running"
      BY <1>4, <1>a, <2>2 DEF ReconcileStaleRunningJobs, LocksOK, Running
    <3>2. job'[j] = Reconciled(job[j])
      BY <1>4, <2>2 DEF ReconcileStaleRunningJobs
    <3>3. job[j].result \in LegacyResults
      BY <3>1 DEF IInv, ResultsOK
    <3>. QED  BY <1>b, <3>1, <3>2, <3>3, RowEffects DEF RowStep, LegacyResults
  <2>. QED  BY <2>1, <2>2
<1>5. ASSUME NEW w \in Workers, SkipReconcile(w)  PROVE RowSteps
  BY <1>0, <1>5 DEF SkipReconcile
<1>6. ASSUME NEW w \in Workers, SelectPendingJob(w)  PROVE RowSteps
  BY <1>0, <1>6 DEF SelectPendingJob
<1>7. ASSUME NEW w \in Workers, FindNothing(w)  PROVE RowSteps
  BY <1>0, <1>7 DEF FindNothing
<1>8. ASSUME NEW w \in Workers, ClaimNextPendingJob(w)  PROVE RowSteps
  <2>1. cur[w] \in Jobs /\ job[cur[w]].status = "pending"
    BY <1>8, <1>a DEF ClaimNextPendingJob, LocksOK, Pending, TypeOK, StageOK, Busy
  <2>2. job'[cur[w]] = Claimed(job[cur[w]])
    BY <1>8, <1>a, <2>1 DEF ClaimNextPendingJob, TypeOK
  <2>3. job'[cur[w]].status = "running" /\ job'[cur[w]].result = job[cur[w]].result
    BY <1>b, <2>1, <2>2, RowEffects
  <2>4. \A j \in Jobs : j # cur[w] => job'[j] = job[j]
    BY <1>8, <1>a DEF ClaimNextPendingJob, TypeOK
  <2>. QED  BY <2>1, <2>3, <2>4 DEF RowSteps, RowStep
<1>9. ASSUME NEW w \in Workers, LoadClaimedJobContext(w)  PROVE RowSteps
  <2>1. /\ cur[w] \in Jobs
        /\ job[cur[w]].result \in LegacyResults
        /\ \/ job[cur[w]].status \in {"running", "failed"}
           \/ job[cur[w]].status = "completed" /\ job[cur[w]].result = "legacy"
    BY <1>9, <1>a DEF WorkOK, LoadClaimedJobContext, Working
  <2>2. \/ job' = job
        \/ \E code : job'[cur[w]] = Failed(job[cur[w]], code)
    BY <1>9, <1>a, <2>1 DEF LoadClaimedJobContext, TypeOK
  <2>3. \/ job' = job
        \/ /\ job'[cur[w]].status = "failed"
           /\ job'[cur[w]].result = job[cur[w]].result
    BY <1>b, <2>1, <2>2, RowEffects
  <2>4. \A j \in Jobs : j # cur[w] => job'[j] = job[j]
    BY <1>9, <1>a DEF LoadClaimedJobContext, TypeOK
  <2>. QED  BY <1>0, <2>1, <2>3, <2>4 DEF RowSteps, RowStep
<1>10. ASSUME NEW w \in Workers, InspectAudioSilence(w)  PROVE RowSteps
  BY <1>0, <1>10 DEF InspectAudioSilence
<1>11. ASSUME NEW w \in Workers, TranscribeAudio(w)  PROVE RowSteps
  BY <1>0, <1>11 DEF TranscribeAudio
<1>12. ASSUME NEW w \in Workers, DiarizeAudio(w)  PROVE RowSteps
  BY <1>0, <1>12 DEF DiarizeAudio
<1>13. ASSUME NEW w \in Workers, StageFails(w)  PROVE RowSteps
  BY <1>0, <1>13 DEF StageFails
<1>14. ASSUME NEW w \in Workers, ReadForPersist(w)  PROVE RowSteps
  BY <1>0, <1>14 DEF ReadForPersist
<1>15. ASSUME NEW w \in Workers, PersistCompletedJob(w)  PROVE RowSteps
  <2>1. /\ cur[w] \in Jobs /\ verdict[w] \in ResultKinds
        /\ job[cur[w]].status \in {"running", "failed"}
        /\ job[cur[w]].result = "none"
    BY <1>15, <1>a DEF WorkOK, MayHaveLegacy, PersistCompletedJob, StageOK, Working
  <2>5. verdict[w] \in ResultKinds \ LegacyResults
    BY <1>15, <1>a DEF PersistCompletedJob, StageOK
  <2>2. job'[cur[w]] = Completed(job[cur[w]], verdict[w], seen[w])
    BY <1>15, <1>a, <2>1 DEF PersistCompletedJob, TypeOK
  <2>3. job'[cur[w]].status = "completed" /\ job'[cur[w]].result = verdict[w]
    BY <1>b, <2>1, <2>2, RowEffects
  <2>4. \A j \in Jobs : j # cur[w] => job'[j] = job[j]
    BY <1>15, <1>a DEF PersistCompletedJob, TypeOK
  <2>. QED  BY <2>1, <2>3, <2>4, <2>5 DEF RowSteps, RowStep
<1>16. ASSUME NEW w \in Workers, PersistRollsBack(w)  PROVE RowSteps
  BY <1>0, <1>16 DEF PersistRollsBack
<1>17. ASSUME NEW w \in Workers, MarkJobFailed(w)  PROVE RowSteps
  <2>1. /\ cur[w] \in Jobs
        /\ job[cur[w]].result \in LegacyResults
        /\ \/ job[cur[w]].status \in {"running", "failed"}
           \/ job[cur[w]].status = "completed" /\ job[cur[w]].result = "legacy"
    BY <1>17, <1>a DEF WorkOK, MarkJobFailed, Working
  <2>2. job'[cur[w]] = Failed(job[cur[w]], verdict[w])
    BY <1>17, <1>a, <2>1 DEF MarkJobFailed, TypeOK
  <2>3. job'[cur[w]].status = "failed" /\ job'[cur[w]].result = job[cur[w]].result
    BY <1>b, <2>1, <2>2, RowEffects
  <2>4. \A j \in Jobs : j # cur[w] => job'[j] = job[j]
    BY <1>17, <1>a DEF MarkJobFailed, TypeOK
  <2>. QED  BY <2>1, <2>3, <2>4 DEF RowSteps, RowStep
<1>18. ASSUME NEW w \in Workers, UpdateJobHeartbeat(w)  PROVE RowSteps
  <2>1. \A j \in Jobs : job'[j].status = job[j].status /\ job'[j].result = job[j].result
    BY <1>18, <1>a, <1>b, RowEffects DEF UpdateJobHeartbeat, TypeOK
  <2>. QED  BY <2>1 DEF RowSteps, RowStep
<1>19. ASSUME NEW w \in Workers, HeartbeatDies(w)  PROVE RowSteps
  BY <1>0, <1>19 DEF HeartbeatDies
<1>20. ASSUME NEW w \in Workers, Crash(w)  PROVE RowSteps
  BY <1>0, <1>20 DEF Crash
<1>21. ASSUME Tick  PROVE RowSteps
  BY <1>21, <1>b, RowEffects DEF Tick, RowSteps, RowStep
<1>22. CASE UNCHANGED vars
  BY <1>0, <1>22 DEF vars
<1>. QED
  BY <1>1, <1>2, <1>3, <1>4, <1>5, <1>6, <1>7, <1>8, <1>9, <1>10, <1>11,
     <1>12, <1>13, <1>14, <1>15, <1>16, <1>17, <1>18, <1>19, <1>20, <1>21,
     <1>22 DEF Next, WorkerStep

\* The row steps, read through the refinement mapping.
LEMMA RowStepsMap ==
    ASSUME TypeOK, TypeOK', RowSteps
    PROVE  Contract!ContractNext
<1> USE DEF TypeOK, Rows, Contract!Jobs, Jobs
<1>1. [j \in Jobs |-> job[j].status]' \in [Contract!Jobs -> Contract!Statuses]
  BY DEF Contract!Statuses, Statuses
<1>2. [j \in Jobs |-> job[j].result]' \in [Contract!Jobs -> Contract!Results]
  BY DEF Contract!Results, Contract!NewResults, Contract!LegacyResults, ResultKinds
<1>3. ASSUME NEW j \in Contract!Jobs
      PROVE  \/ Contract!Advances(j) \/ Contract!Completes(j)
             \/ Contract!Adopts(j) \/ Contract!Fails(j) \/ Contract!Stays(j)
  BY DEF RowSteps, RowStep, Contract!Advances, Contract!Completes,
         Contract!Fails, Contract!Stays, Contract!Adopts, Contract!NewResults,
         Contract!LegacyResults, ResultKinds, LegacyResults
<1>. QED  BY <1>1, <1>2, <1>3 DEF Contract!ContractNext

LEMMA InitMap == Init => Contract!ContractInit
BY DEF Init, Legacy, LegacyResults, Absent, Row, Contract!ContractInit,
       Contract!Jobs, Jobs, Contract!Results, Contract!NewResults, Contract!LegacyResults

\* While every commit is acknowledged, the rows of the detailed specification
\* live the life of the contract: no row returns to the queue, a result is
\* written once and never replaced, an inherited one included, and no row fails
\* whose result this deployment wrote.
THEOREM Refinement ==
    ASSUME LostAcks = FALSE
    PROVE  Spec => ImplementsContract
<1>1. Init => AckOK  BY InitAckOK
<1>2. IInv /\ AckOK /\ [Next]_vars => AckOK'
  BY NextAckOK DEF IInv
<1>3. IInv /\ IInv' /\ AckOK /\ [Next]_vars => Contract!ContractNext
  BY StepsAreRowSteps, RowStepsMap DEF IInv
<1>. QED
  BY <1>1, <1>2, <1>3, InitMap, Invariance, PTL
     DEF Spec, ImplementsContract, Contract!ContractSpec

=============================================================================
