---------------------------- MODULE JobContract ----------------------------
(***************************************************************************)
(* What the speech-jobs backend promises about one job, independent of     *)
(* workers, transactions, heartbeats and recovery: the life of the `jobs`  *)
(* row and of its single `job_results` row (src/app/db/models.py), as a    *)
(* client of the API observes them.                                        *)
(*                                                                         *)
(* This is the strongest promise the code keeps while every commit is      *)
(* acknowledged: a row never moves back towards the queue, a result is     *)
(* written once, together with COMPLETED, and a row whose result this      *)
(* deployment wrote is COMPLETED for good.  It does not say that FAILED is *)
(* final: a worker whose job was taken from it still completes the row.    *)
(*                                                                         *)
(* A table may be inherited with open rows that already have a result      *)
(* ("legacy").  Nothing replaces such a result, but recovery completes the *)
(* row while a worker that claims or holds it fails it, so COMPLETED is    *)
(* not final for it.                                                       *)
(***************************************************************************)
EXTENDS Naturals

CONSTANT NumJobs        \* a natural number: the rows the table may ever hold

VARIABLES status, result
cvars == <<status, result>>

Jobs == 1..NumJobs

\* JobStatus, and "absent" for a row that has not been inserted yet.
Statuses == {"absent", "pending", "running", "completed", "failed"}

\* Where a persisted result came from (metadata_json.result_origin and
\* .diarization_status), or "legacy" for one an earlier deployment stored;
\* "none" when there is no job_results row.
NewResults == {"silence", "diarized", "degraded"}
LegacyResults == {"none", "legacy"}
Results == NewResults \cup LegacyResults

ContractTypeOK ==
    /\ status \in [Jobs -> Statuses]
    /\ result \in [Jobs -> Results]

\* A deployment may start on a table with rows an earlier one left in the
\* queue or RUNNING, with a result or without.
ContractInit ==
    /\ status \in [Jobs -> {"absent", "pending", "running"}]
    /\ result \in [Jobs -> LegacyResults]
    /\ \A j \in Jobs : status[j] = "absent" => result[j] = "none"

\* The upload committed the row, or a worker claimed it.
Advances(j) ==
    /\ \/ status[j] = "absent"  /\ status'[j] = "pending"
       \/ status[j] = "pending" /\ status'[j] = "running"
    /\ result'[j] = result[j]

\* A worker stores the result, of a row that recovery may have failed
\* meanwhile.
Completes(j) ==
    /\ status[j] \in {"running", "failed"} /\ result[j] = "none"
    /\ status'[j] = "completed"
    /\ result'[j] \in NewResults

\* Recovery finds a result that was there before.
Adopts(j) ==
    /\ status[j] = "running" /\ result[j] = "legacy"
    /\ status'[j] = "completed"
    /\ result'[j] = result[j]

\* The row settles without a new result.
Fails(j) ==
    /\ \/ status[j] = "running" /\ result[j] \in LegacyResults
       \/ status[j] = "completed" /\ result[j] = "legacy"
    /\ status'[j] = "failed"
    /\ result'[j] = result[j]

Stays(j) == status'[j] = status[j] /\ result'[j] = result[j]

\* One transaction of the program may settle several rows (recovery does).
ContractNext ==
    /\ status' \in [Jobs -> Statuses]
    /\ result' \in [Jobs -> Results]
    /\ \A j \in Jobs :
        Advances(j) \/ Completes(j) \/ Adopts(j) \/ Fails(j) \/ Stays(j)

ContractSpec == ContractInit /\ [][ContractNext]_cvars

=============================================================================
