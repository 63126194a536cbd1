---------------------------- MODULE InputStorage ----------------------------
(***************************************************************************)
(* The shared input directory: uploads that store an audio file under the  *)
(* hash of its content and then insert the job that refers to it           *)
(* (src/app/services/uploads.py, upload_job of src/app/api/routes/jobs.py),*)
(* workers that read it, and retention cleanup, which decides from an      *)
(* unlocked snapshot of the `jobs` table what to delete                    *)
(* (src/app/worker/cleanup.py).                                            *)
(*                                                                         *)
(* Uploads of the same content share one file.  Everything store_uploaded_ *)
(* audio and upload_job do after their last await runs without giving up   *)
(* the event loop, so each API process has at most one request there; the  *)
(* workers' cleanup runs in other processes and interleaves with all of it.*)
(***************************************************************************)
CONSTANTS
    Requests,   \* upload requests; request r inserts job r
    Contents,   \* (sha256, suffix) of the uploads: the final path
    Apis,       \* API processes
    Cleaners,   \* worker processes, as far as they run cleanup
    LostAcks    \* may a commit succeed and yet raise in the API?

ASSUME StorageAssumption == LostAcks \in BOOLEAN

VARIABLES
    rpc,        \* where each request is
    content,    \* what it uploads (fixed)
    api,        \* which process serves it (fixed)
    created,    \* created_new_file, as long as the request is served
    temp,       \* requests whose .part file exists
    files,      \* contents whose final file exists
    row,        \* status of the request's job
    held,       \* jobs that a live worker is processing, its input loaded
    due,        \* workers that are about to run cleanup
    doomed,     \* final files a cleanup pass has decided to delete
    snapshot,   \* jobs that this pass read (history)
    raced,      \* jobs whose file was deleted by a pass that had not read
                \* them (history)
    withdrawn   \* jobs whose file was removed by a rollback that could not
                \* know of them (history)

requestVars == <<rpc, content, api, created, temp>>
cleanupVars == <<due, doomed, snapshot, raced>>
vars == <<requestVars, files, row, held, cleanupVars, withdrawn>>

\* The stretch of upload_job that holds the event loop of its process.
Section == {"check", "link", "commit", "rollback"}
Answered == {"accepted", "rejected", "failed"}
RequestStates == {"new", "receive", "crashed"} \cup Section \cup Answered

\* "claimed" and "running" are RUNNING, before and after the worker has looked
\* for the input.  "expired" is a terminal row older than the retention period.
RowStates == {"none", "pending", "claimed", "running", "terminal", "expired"}

Active(r) == row[r] \in {"pending", "claimed", "running"}

\* The jobs whose stored_path is the final file of c.
References(c) == {r \in Requests : row[r] # "none" /\ content[r] = c}

-----------------------------------------------------------------------------
(* Bugs that the properties below would catch.                             *)

\* The file is deleted although the upload only reused it.
AfterRollback_Always(r) == files \ {content[r]}

\* Cleanup looks for one expired reference and not at every one.
Expired_Any(c) == \E r \in References(c) : row[r] = "expired"

\* The file stays although its job was never inserted.
AfterRollback_Never(r) == files

\* The .part file of an upload whose content is already stored is kept.
TempAfterCheck_Kept(r) == temp

\* The job is inserted with a status that is none of JobStatus.
RowAfterCommit_Unset(r) == [row EXCEPT ![r] = "unset"]

-----------------------------------------------------------------------------
(* What the decisions of the code leave behind.                            *)

\* upload_job removes the file only if this request created it.
AfterRollback(r) == IF created[r] THEN files \ {content[r]} ELSE files

\* _cleanup_expired_input_files: referenced, and every reference is terminal
\* and expired.
Expired(c) == References(c) # {} /\ \A r \in References(c) : row[r] = "expired"

\* The bug of a pass that takes one candidate, as if its query had a limit: the
\* row of a file that is gone shadows all others.
Candidates_One == LET all == {c \in Contents : Expired(c)}
                  IN  {c \in all : c = CHOOSE d \in all : TRUE}

\* The final files that a pass whose query succeeds will try to delete.
Candidates == {c \in Contents : Expired(c)}

\* A final file that exists makes the .part file superfluous.
TempAfterCheck(r) == IF content[r] \in files THEN temp \ {r} ELSE temp

RowAfterCommit(r) == [row EXCEPT ![r] = "pending"]

-----------------------------------------------------------------------------
Init ==
    /\ rpc = [r \in Requests |-> "new"]
    /\ content \in [Requests -> Contents]
    /\ api \in [Requests -> Apis]
    /\ created = [r \in Requests |-> FALSE]
    /\ temp = {}
    /\ files = {}
    /\ row = [r \in Requests |-> "none"]
    /\ held = {}
    /\ due = Cleaners
    /\ doomed = [k \in Cleaners |-> {}]
    /\ snapshot = [k \in Cleaners |-> {}]
    /\ raced = {}
    /\ withdrawn = {}

Answer(r, state) == rpc' = [rpc EXCEPT ![r] = state]
Forget(R) == created' = [r \in Requests |-> created[r] /\ r \notin R]

\* store_uploaded_audio opens the .part file and reads the upload into it.
Receive(r) ==
    /\ rpc[r] = "new"
    /\ Answer(r, "receive")
    /\ temp' = temp \cup {r}
    /\ UNCHANGED <<content, api, created, files, row, held, cleanupVars, withdrawn>>

\* Profile, device, file name, extension and content type are checked before
\* anything is stored.  The size limit removes the .part file, as a failed probe
\* does; any other exception (a full disk, no ffprobe, a failed replace) leaves
\* it.
Refuse(r) ==
    /\ \/ rpc[r] \in {"new", "receive"}
          /\ Answer(r, "rejected") /\ temp' = temp \ {r}
       \/ rpc[r] \in {"receive", "link"}
          /\ Answer(r, "failed") /\ temp' = temp
    /\ UNCHANGED <<content, api, created, files, row, held, cleanupVars, withdrawn>>

\* The last await returned: the request keeps the event loop from here on, for
\* as long as ffprobe takes.
ProbeAudioDuration(r) ==
    /\ rpc[r] = "receive"
    /\ \A q \in Requests : api[q] = api[r] => rpc[q] \notin Section
    /\ Answer(r, "check")
    /\ UNCHANGED <<content, api, created, temp, files, row, held, cleanupVars, withdrawn>>

\* final_path.exists(): the stored file is reused and the .part file removed.
CheckFinalPath(r) ==
    /\ rpc[r] = "check"
    /\ Answer(r, IF content[r] \in files THEN "commit" ELSE "link")
    /\ temp' = TempAfterCheck(r)
    /\ UNCHANGED <<content, api, created, files, row, held, cleanupVars, withdrawn>>

\* temp_path.replace(final_path)
PlaceFile(r) ==
    /\ rpc[r] = "link"
    /\ Answer(r, "commit")
    /\ files' = files \cup {content[r]}
    /\ temp' = temp \ {r}
    /\ created' = [created EXCEPT ![r] = TRUE]
    /\ UNCHANGED <<content, api, row, held, cleanupVars, withdrawn>>

\* session.commit() of the PENDING row.
CommitJob(r) ==
    /\ rpc[r] = "commit"
    /\ Answer(r, "accepted")
    /\ Forget({r})
    /\ row' = RowAfterCommit(r)
    /\ UNCHANGED <<content, api, temp, files, held, cleanupVars, withdrawn>>

\* session.commit() raises, without the row or, when only the acknowledgement
\* was lost, with it.
CommitRaises(r) ==
    /\ rpc[r] = "commit"
    /\ Answer(r, "rollback")
    /\ row' \in {row} \cup (IF LostAcks THEN {RowAfterCommit(r)} ELSE {})
    /\ UNCHANGED <<content, api, created, temp, files, held, cleanupVars, withdrawn>>

\* Jobs that rely on the file of r and that its rollback does not know of: its
\* own, if the commit arrived after all, and those of other processes that
\* found the file meanwhile.
Unaware(r) ==
    {q \in Requests : /\ content[q] = content[r]
                      /\ Active(q) \/ rpc[q] = "commit"
                      /\ q = r \/ api[q] # api[r]}

\* session.rollback() succeeds and so does the removal of the file.
RollBack(r) ==
    /\ rpc[r] = "rollback"
    /\ Answer(r, "failed")
    /\ files' = AfterRollback(r)
    /\ withdrawn' = IF created[r] THEN withdrawn \cup Unaware(r) ELSE withdrawn
    /\ Forget({r})
    /\ UNCHANGED <<content, api, temp, row, held, cleanupVars>>

\* One of the two raises: the handler ends there, and a file stays.
RollBackRaises(r) ==
    /\ rpc[r] = "rollback"
    /\ Answer(r, "crashed")
    /\ Forget({r})
    /\ UNCHANGED <<content, api, temp, files, row, held, cleanupVars, withdrawn>>

\* An API process dies with the requests it is serving.
Served(p) == {r \in Requests : api[r] = p /\ rpc[r] \in Section \cup {"receive"}}

CrashApi(p) ==
    /\ Served(p) # {}
    /\ rpc' = [r \in Requests |-> IF r \in Served(p) THEN "crashed" ELSE rpc[r]]
    /\ Forget(Served(p))
    /\ UNCHANGED <<content, api, temp, files, row, held, cleanupVars, withdrawn>>

-----------------------------------------------------------------------------
(* The workers, as far as they read inputs and age rows.  JobLifecycle has *)
(* the detail, and Backend shows that it fits.                             *)

MoveRows(R, from, to) ==
    /\ \A r \in R : row[r] \in from
    /\ row' = [r \in Requests |-> IF r \in R THEN to ELSE row[r]]
    /\ UNCHANGED <<requestVars, files, cleanupVars, withdrawn>>

Claim(r) == MoveRows({r}, {"pending"}, "claimed") /\ UNCHANGED held

\* input_path.exists(): a job without its input fails (missing_input_file).
LoadInput(r) ==
    IF content[r] \in files
    THEN MoveRows({r}, {"claimed"}, "running") /\ held' = held \cup {r}
    ELSE MoveRows({r}, {"claimed"}, "terminal") /\ UNCHANGED held

\* Loading fails in another way: the worker goes on to _mark_job_failed.
LoadFails(r) == MoveRows({r}, {"claimed"}, "running") /\ held' = held \cup {r}

\* The worker that holds the job completes or fails it.
Settle(r) == MoveRows({r}, {"claimed", "running"}, "terminal") /\ held' = held \ {r}

\* Jobs are settled by somebody else, recovery, or by their worker without its
\* knowing: whoever holds them goes on.
Recover(R) == MoveRows(R, {"claimed", "running"}, "terminal") /\ UNCHANGED held

\* The worker whose job was settled meanwhile completes or fails it once more,
\* with a new completed_at.
SettleAgain(r) ==
    /\ r \in held
    /\ MoveRows({r}, {"terminal", "expired"}, "terminal")
    /\ held' \in {held, held \ {r}}

\* The worker dies: its row stays RUNNING, or as recovery left it.
Abandon(r) ==
    \/ MoveRows({r}, {"claimed"}, "running") /\ UNCHANGED held
    \/ r \in held /\ MoveRows({}, {}, "running") /\ held' = held \ {r}

Expire(r) == MoveRows({r}, {"terminal"}, "expired") /\ UNCHANGED held

-----------------------------------------------------------------------------
(* Cleanup: one snapshot of all rows, then the deletions one by one.       *)

\* WORKER_CLEANUP_EVERY_N_JOBS jobs have been processed since the last pass.
CleanupDue(k) ==
    /\ k \notin due /\ doomed[k] = {}
    /\ \E r \in Requests : row[r] \in {"terminal", "expired"}
    /\ due' = due \cup {k}
    /\ UNCHANGED <<requestVars, files, row, held, doomed, snapshot, raced, withdrawn>>

\* The query returns a snapshot of all jobs.
ScanJobs(k) ==
    /\ k \in due
    /\ due' = due \ {k}
    /\ doomed' = [doomed EXCEPT ![k] = Candidates]
    /\ snapshot' = [snapshot EXCEPT ![k] =
                       IF doomed'[k] = {} THEN {} ELSE {r \in Requests : row[r] # "none"}]
    /\ UNCHANGED <<requestVars, files, row, held, raced, withdrawn>>

\* The query fails: a warning, and the pass is over.
CleanupQueryFails(k) ==
    /\ k \in due
    /\ due' = due \ {k}
    /\ UNCHANGED <<requestVars, files, row, held, doomed, snapshot, raced, withdrawn>>

\* Jobs that rely on the final file of c by now and that k has not read.
Unseen(k, c) ==
    {r \in Requests : /\ content[r] = c
                      /\ Active(r) \/ rpc[r] = "commit"
                      /\ r \notin snapshot[k]}

EndPass(k, left) ==
    /\ doomed' = [doomed EXCEPT ![k] = left]
    /\ snapshot' = IF left = {} THEN [snapshot EXCEPT ![k] = {}] ELSE snapshot

UnlinkExpired(k, c) ==
    /\ c \in doomed[k]
    /\ files' = files \ {c}
    /\ raced' = IF c \in files THEN raced \cup Unseen(k, c) ELSE raced
    /\ EndPass(k, doomed[k] \ {c})
    /\ UNCHANGED <<requestVars, row, held, due, withdrawn>>

\* The path is no file, or the deletion fails: a warning, and the pass goes on
\* with the next file.
UnlinkFails(k, c) ==
    /\ c \in doomed[k]
    /\ EndPass(k, doomed[k] \ {c})
    /\ UNCHANGED <<requestVars, files, row, held, due, raced, withdrawn>>

\* The worker dies, within a pass or not; its successor cleans at startup.
RestartCleaner(k) ==
    /\ k \notin due
    /\ due' = due \cup {k}
    /\ EndPass(k, {})
    /\ UNCHANGED <<requestVars, files, row, held, raced, withdrawn>>

-----------------------------------------------------------------------------
Next ==
    \/ \E r \in Requests :
        \/ Receive(r) \/ Refuse(r) \/ ProbeAudioDuration(r)
        \/ CheckFinalPath(r) \/ PlaceFile(r)
        \/ CommitJob(r) \/ CommitRaises(r) \/ RollBack(r) \/ RollBackRaises(r)
        \/ Claim(r) \/ LoadInput(r) \/ LoadFails(r) \/ Settle(r)
        \/ SettleAgain(r) \/ Abandon(r) \/ Expire(r)
    \/ \E R \in (SUBSET Requests) \ {{}} : Recover(R)
    \/ \E p \in Apis : CrashApi(p)
    \/ \E k \in Cleaners :
        \/ CleanupDue(k) \/ ScanJobs(k) \/ CleanupQueryFails(k) \/ RestartCleaner(k)
        \/ \E c \in Contents : UnlinkExpired(k, c) \/ UnlinkFails(k, c)

Spec == Init /\ [][Next]_vars

\* A worker carries out the cleanup that is due and does not die in it for ever.
\* Cleanup is best effort: what fails once is left to a later pass, so the query
\* and the deletion of a file, which may fail any time, must not fail every
\* time.  Nothing makes a cleanup due while no job is processed.
Fairness ==
    \A k \in Cleaners :
        /\ SF_vars(ScanJobs(k))
        /\ \A c \in Contents : SF_vars(UnlinkExpired(k, c))
        /\ <>[][doomed[k] # {} => ~ RestartCleaner(k)]_vars

FairSpec == Spec /\ Fairness

-----------------------------------------------------------------------------
(* Type correctness.                                                       *)
TypeOK ==
    /\ rpc \in [Requests -> RequestStates]
    /\ content \in [Requests -> Contents]
    /\ api \in [Requests -> Apis]
    /\ created \in [Requests -> BOOLEAN]
    /\ temp \subseteq Requests
    /\ files \subseteq Contents
    /\ row \in [Requests -> RowStates]
    /\ held \subseteq Requests
    /\ due \subseteq Cleaners
    /\ doomed \in [Cleaners -> SUBSET Contents]
    /\ snapshot \in [Cleaners -> SUBSET Requests]
    /\ raced \subseteq Requests
    /\ withdrawn \subseteq Requests

\* An open job loses its input in two ways only: to a cleanup pass that had
\* taken its snapshot before the job was inserted, and to the rollback of an
\* upload whose commit arrived after all or that runs in another API process.
\* Rollbacks of the same process, crashes and deletions decided from rows the
\* pass has read never take it (upload_job, _cleanup_expired_input_files).
LossHasCause ==
    \A r \in Requests : Active(r) => content[r] \in files \/ r \in raced \cup withdrawn

\* A stored file belongs to a job, to an upload that is about to insert its
\* job, or to one that died there or whose rollback raised: a rollback that
\* ends leaves no file behind.
NoOrphanInput ==
    \A c \in files : \E r \in Requests :
        /\ content[r] = c
        /\ row[r] # "none" \/ rpc[r] \in {"commit", "rollback", "crashed"}

\* An upload that was accepted or rejected has removed its .part file, and
\* one that failed in its commit too (store_uploaded_audio).
AnsweredLeavesNoPart ==
    \A r \in temp : rpc[r] \notin {"commit", "rollback", "accepted", "rejected"}

\* As long as some worker comes to clean again and again, a file all of whose
\* jobs have expired is deleted in the end, unless a new upload comes to refer
\* to it, although the query and each deletion may fail and the worker may die
\* between them: a pass leaves nothing behind that would keep a later one from
\* trying again (run_storage_cleanup at startup and from run_worker_forever).
ExpiredInputsGo ==
    (\E k \in Cleaners : []<>(k \in due)) =>
        \A c \in Contents :
            (c \in files /\ Expired(c)) ~> (c \notin files \/ ~ Expired(c))

-----------------------------------------------------------------------------
\* "Shared input files must survive if any referencing job is still active"
\* (tests/test_worker_cleanup.py).  The code does not keep this.
ActiveInputSurvives ==
    \A r \in Requests : Active(r) => content[r] \in files

=============================================================================
