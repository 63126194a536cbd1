------------------------- MODULE InputStorageProofs -------------------------
(***************************************************************************)
(* Proofs about InputStorage for any number of uploads, contents, API      *)
(* processes and cleaning workers.  What the invariants of InputStorage    *)
(* leave unsaid is who relies on a file at which moment: the parts of the  *)
(* inductive invariant say it for the uploads between their check of the   *)
(* final path and their answer, and for the passes between their scan and  *)
(* their last deletion.                                                    *)
(***************************************************************************)
EXTENDS InputStorage, TLAPS

-----------------------------------------------------------------------------
(* The inductive invariant.                                                *)

\* A process has one request in the section: it holds the event loop.
OneInSection ==
    \A q, r \in Requests :
        q # r /\ api[q] = api[r] /\ rpc[q] \in Section => rpc[r] \notin Section

\* A request remembers that it created the file until its commit is settled,
\* and has a row only once its commit was attempted.
UploadOK ==
    \A r \in Requests :
        /\ created[r] => rpc[r] \in {"commit", "rollback"}
        /\ row[r] # "none" => rpc[r] \in {"rollback", "accepted", "failed", "crashed"}

\* A stored file has a job, or an upload that will remove it if its commit
\* fails, or an upload whose process died.
FileHasOwner ==
    \A c \in files : \E r \in Requests :
        /\ content[r] = c
        /\ row[r] # "none" \/ created[r] \/ rpc[r] = "crashed"

\* Whoever relies on a file still has it, or has lost it in a known way.
Lost == raced \cup withdrawn

ReliedOn ==
    \A r \in Requests :
        Active(r) \/ rpc[r] = "commit" => content[r] \in files \/ r \in Lost

\* An upload that found no file and creates it does so in the face of open
\* jobs of the same process only if they had lost theirs before.
CreatorIsFirst ==
    \A q, r \in Requests :
        /\ q # r /\ api[q] = api[r] /\ content[q] = content[r]
        /\ rpc[r] = "link" \/ created[r]
        /\ Active(q)
        => q \in Lost

\* The jobs that a pass has read and on whose expiry it decided stay settled.
PassOK ==
    \A k \in Cleaners : \A r \in snapshot[k] :
        content[r] \in doomed[k] => row[r] \in {"terminal", "expired"}

StorageInv ==
    /\ TypeOK
    /\ OneInSection
    /\ UploadOK
    /\ AnsweredLeavesNoPart
    /\ FileHasOwner
    /\ ReliedOn
    /\ CreatorIsFirst
    /\ PassOK

-----------------------------------------------------------------------------
(* Steps.  The workers' steps differ only in what they do to the rows, and *)
(* the invariant needs no more than that rows age.                         *)

WorkerStep ==
    \/ \E r \in Requests :
        \/ Claim(r) \/ LoadInput(r) \/ LoadFails(r) \/ Settle(r)
        \/ SettleAgain(r) \/ Abandon(r) \/ Expire(r)
    \/ \E R \in (SUBSET Requests) \ {{}} : Recover(R)

\* Rows are never removed, and a settled job never becomes active again.
RowsAge ==
    /\ UNCHANGED <<requestVars, files, cleanupVars, withdrawn>>
    /\ \A r \in Requests :
        /\ row'[r] = "none" <=> row[r] = "none"
        /\ Active(r)' => Active(r)
        /\ row[r] \in {"terminal", "expired"} => row'[r] \in {"terminal", "expired"}

\* Every step of a worker on its job lets the rows age.
LEMMA WorkersAgeRows ==
    ASSUME TypeOK, WorkerStep
    PROVE  TypeOK' /\ RowsAge
<1> USE DEF TypeOK, requestVars, cleanupVars
<1>a. ASSUME NEW R \in SUBSET Requests, NEW from, NEW to \in RowStates \ {"none"},
             MoveRows(R, from, to),
             from \subseteq {"pending", "claimed", "running"}
               \/ /\ from = {"terminal", "expired"} \/ from = {"terminal"}
                  /\ to \in {"terminal", "expired"},
             held' \subseteq Requests
      PROVE  TypeOK' /\ RowsAge
  <2>1. row' = [r \in Requests |-> IF r \in R THEN to ELSE row[r]]
    BY <1>a DEF MoveRows
  <2>2. row' \in [Requests -> RowStates]
    BY <1>a, <2>1
  <2>3. UNCHANGED <<requestVars, files, cleanupVars, withdrawn>>
    BY <1>a DEF MoveRows
  <2>4. \A r \in R : row[r] \in from
    BY <1>a DEF MoveRows
  <2>5. ASSUME NEW r \in Requests
        PROVE  /\ row'[r] = "none" <=> row[r] = "none"
               /\ Active(r)' => Active(r)
               /\ row[r] \in {"terminal", "expired"} => row'[r] \in {"terminal", "expired"}
    BY <1>a, <2>1, <2>4 DEF Active
  <2>6. RowsAge
    BY <2>3, <2>5 DEF RowsAge
  <2>. QED  BY <1>a, <2>2, <2>3, <2>6
<1>t. /\ {"claimed", "running", "terminal", "expired"} \subseteq RowStates \ {"none"}
      /\ \A r \in Requests : {r} \in SUBSET Requests
  BY DEF RowStates
<1>1. ASSUME NEW r \in Requests, Claim(r)  PROVE TypeOK' /\ RowsAge
  BY <1>1, <1>a, <1>t DEF Claim
<1>2. ASSUME NEW r \in Requests, LoadInput(r)  PROVE TypeOK' /\ RowsAge
  <2>1. CASE content[r] \in files
    <3>1. MoveRows({r}, {"claimed"}, "running") /\ held' \subseteq Requests
      BY <1>2, <2>1 DEF LoadInput
    <3>. QED  BY <3>1, <1>a, <1>t
  <2>2. CASE content[r] \notin files
    <3>1. MoveRows({r}, {"claimed"}, "terminal") /\ held' \subseteq Requests
      BY <1>2, <2>2 DEF LoadInput
    <3>. QED  BY <3>1, <1>a, <1>t
  <2>. QED  BY <2>1, <2>2
<1>3. ASSUME NEW r \in Requests, LoadFails(r)  PROVE TypeOK' /\ RowsAge
  <2>1. MoveRows({r}, {"claimed"}, "running") /\ held' \subseteq Requests
    BY <1>3 DEF LoadFails
  <2>. QED  BY <2>1, <1>a, <1>t
<1>4. ASSUME NEW r \in Requests, Settle(r)  PROVE TypeOK' /\ RowsAge
  <2>1. MoveRows({r}, {"claimed", "running"}, "terminal") /\ held' \subseteq Requests
    BY <1>4 DEF Settle
  <2>. QED  BY <2>1, <1>a, <1>t
<1>5. ASSUME NEW r \in Requests, SettleAgain(r)  PROVE TypeOK' /\ RowsAge
  <2>1. MoveRows({r}, {"terminal", "expired"}, "terminal") /\ held' \subseteq Requests
    BY <1>5 DEF SettleAgain
  <2>. QED  BY <2>1, <1>a, <1>t
<1>6. ASSUME NEW r \in Requests, Abandon(r)  PROVE TypeOK' /\ RowsAge
  <2>1. CASE MoveRows({r}, {"claimed"}, "running") /\ UNCHANGED held
    BY <2>1, <1>a, <1>t
  <2>2. CASE MoveRows({}, {}, "running") /\ held' = held \ {r}
    BY <2>2, <1>a, <1>t
  <2>. QED  BY <1>6, <2>1, <2>2 DEF Abandon
<1>7. ASSUME NEW r \in Requests, Expire(r)  PROVE TypeOK' /\ RowsAge
  <2>1. MoveRows({r}, {"terminal"}, "expired") /\ held' \subseteq Requests
    BY <1>7 DEF Expire
  <2>. QED  BY <2>1, <1>a, <1>t
<1>8. ASSUME NEW R \in (SUBSET Requests) \ {{}}, Recover(R)  PROVE TypeOK' /\ RowsAge
  <2>1. MoveRows(R, {"claimed", "running"}, "terminal") /\ held' \subseteq Requests
    BY <1>8 DEF Recover
  <2>. QED  BY <2>1, <1>a, <1>t
<1>. QED
  BY <1>1, <1>2, <1>3, <1>4, <1>5, <1>6, <1>7, <1>8 DEF WorkerStep

\* The other steps, by what they leave alone: uploads never touch the passes,
\* and cleaners never touch the uploads and their rows.
UploadStep(r) ==
    \/ Receive(r) \/ Refuse(r) \/ ProbeAudioDuration(r) \/ CheckFinalPath(r)
    \/ PlaceFile(r) \/ CommitJob(r) \/ CommitRaises(r) \/ RollBack(r)
    \/ RollBackRaises(r)

CleanerStep(k) ==
    \/ CleanupDue(k) \/ ScanJobs(k) \/ CleanupQueryFails(k) \/ RestartCleaner(k)
    \/ \E c \in Contents : UnlinkExpired(k, c) \/ UnlinkFails(k, c)

\* Every step is one of an upload, an API process, a worker or a cleaner.
LEMMA StepCases ==
    ASSUME [Next]_vars
    PROVE  \/ \E r \in Requests : UploadStep(r)
           \/ \E p \in Apis : CrashApi(p)
           \/ WorkerStep
           \/ \E k \in Cleaners : CleanerStep(k)
           \/ UNCHANGED vars
BY DEF Next, UploadStep, WorkerStep, CleanerStep

-----------------------------------------------------------------------------
(* Type correctness.                                                       *)

LEMMA InitTypeOK == Init => TypeOK
BY DEF Init, TypeOK, RequestStates, RowStates

LEMMA NextTypeOK == TypeOK /\ [Next]_vars => TypeOK'
<1> SUFFICES ASSUME TypeOK, [Next]_vars  PROVE TypeOK'
  OBVIOUS
<1> USE DEF TypeOK, requestVars, cleanupVars
<1>0. {"receive", "check", "link", "commit", "rollback", "accepted", "rejected",
       "failed", "crashed"} \subseteq RequestStates
  BY DEF RequestStates, Section, Answered
<1>1. ASSUME NEW r \in Requests, UploadStep(r)  PROVE TypeOK'
  <2>1. CASE Receive(r)  BY <2>1, <1>0 DEF Receive, Answer
  <2>2. CASE Refuse(r)  BY <2>2, <1>0 DEF Refuse, Answer
  <2>3. CASE ProbeAudioDuration(r)  BY <2>3, <1>0 DEF ProbeAudioDuration, Answer
  <2>4. CASE CheckFinalPath(r)
    BY <2>4, <1>0 DEF CheckFinalPath, Answer, TempAfterCheck
  <2>5. CASE PlaceFile(r)  BY <2>5, <1>0 DEF PlaceFile, Answer
  <2>6. RowAfterCommit(r) \in [Requests -> RowStates]
    BY DEF RowAfterCommit, RowStates
  <2>7. CASE CommitJob(r)
    BY <2>6, <2>7, <1>0 DEF CommitJob, Answer, Forget
  <2>8. CASE CommitRaises(r)
    <3>1. row' \in [Requests -> RowStates]
      BY <2>6, <2>8 DEF CommitRaises
    <3>. QED  BY <2>8, <3>1, <1>0 DEF CommitRaises, Answer
  <2>9. CASE RollBack(r)
    BY <2>9, <1>0 DEF RollBack, Answer, Forget, AfterRollback, Unaware
  <2>10. CASE RollBackRaises(r)
    BY <2>10, <1>0 DEF RollBackRaises, Answer, Forget
  <2>. QED
    BY <1>1, <2>1, <2>2, <2>3, <2>4, <2>5, <2>7, <2>8, <2>9, <2>10
    DEF UploadStep
<1>2. ASSUME NEW p \in Apis, CrashApi(p)  PROVE TypeOK'
  BY <1>2, <1>0 DEF CrashApi, Forget
<1>3. ASSUME WorkerStep  PROVE TypeOK'
  BY <1>3, WorkersAgeRows
<1>4. ASSUME NEW k \in Cleaners, CleanerStep(k)  PROVE TypeOK'
  <2>1. CASE CleanupDue(k)  BY <2>1 DEF CleanupDue
  <2>2. CASE ScanJobs(k)
    <3>1. doomed' \in [Cleaners -> SUBSET Contents]
      BY <2>2 DEF ScanJobs, Candidates
    <3>2. snapshot' \in [Cleaners -> SUBSET Requests]
      <4>1. {r \in Requests : row[r] # "none"} \subseteq Requests
        OBVIOUS
      <4>. QED  BY <2>2, <4>1 DEF ScanJobs
    <3>. QED  BY <2>2, <3>1, <3>2 DEF ScanJobs
  <2>3. CASE RestartCleaner(k)  BY <2>3 DEF RestartCleaner, EndPass
  <2>4. ASSUME NEW c \in Contents, UnlinkExpired(k, c)  PROVE TypeOK'
    BY <2>4 DEF UnlinkExpired, EndPass, Unseen
  <2>5. CASE CleanupQueryFails(k)  BY <2>5 DEF CleanupQueryFails
  <2>6. ASSUME NEW c \in Contents, UnlinkFails(k, c)  PROVE TypeOK'
    BY <2>6 DEF UnlinkFails, EndPass
  <2>. QED  BY <1>4, <2>1, <2>2, <2>3, <2>4, <2>5, <2>6 DEF CleanerStep
<1>5. ASSUME UNCHANGED vars  PROVE TypeOK'
  BY <1>5 DEF vars
<1>. QED  BY <1>1, <1>2, <1>3, <1>4, <1>5, StepCases

-----------------------------------------------------------------------------
(* Requests: the section, the rows and the .part files.                    *)

\* Requests of one process are never between check and answer together.
LEMMA InSectionAlone ==
    ASSUME TypeOK, OneInSection, [Next]_vars
    PROVE  OneInSection'
<1> USE DEF TypeOK, OneInSection, requestVars, cleanupVars
<1>1. ASSUME NEW r \in Requests, UploadStep(r)  PROVE OneInSection'
  <2>1. CASE ProbeAudioDuration(r)
    BY <2>1 DEF ProbeAudioDuration, Answer, Section
  <2>2. CASE ~ ProbeAudioDuration(r)
    <3>1. /\ api' = api
          /\ \E state : rpc' = [rpc EXCEPT ![r] = state]
                        /\ (state \in Section => rpc[r] \in Section)
      BY <1>1, <2>2
      DEF UploadStep, Receive, Refuse, CheckFinalPath, PlaceFile, CommitJob,
          CommitRaises, RollBack, RollBackRaises, Answer, Section
    <3>. QED  BY <3>1
  <2>. QED  BY <2>1, <2>2
<1>2. ASSUME NEW p \in Apis, CrashApi(p)  PROVE OneInSection'
  BY <1>2 DEF CrashApi, Section
<1>3. ASSUME WorkerStep  PROVE OneInSection'
  BY <1>3, WorkersAgeRows DEF RowsAge
<1>4. ASSUME NEW k \in Cleaners, CleanerStep(k)  PROVE OneInSection'
  BY <1>4 DEF CleanerStep, CleanupDue, ScanJobs, CleanupQueryFails, RestartCleaner,
      UnlinkExpired, UnlinkFails
<1>5. ASSUME UNCHANGED vars  PROVE OneInSection'
  BY <1>5 DEF vars
<1>. QED  BY <1>1, <1>2, <1>3, <1>4, <1>5, StepCases

\* What an upload created and found is still what it relies on.
LEMMA UploadStays ==
    ASSUME TypeOK, UploadOK, [Next]_vars
    PROVE  UploadOK'
<1> USE DEF TypeOK, UploadOK, requestVars, cleanupVars
<1>1. ASSUME NEW r \in Requests, UploadStep(r)  PROVE UploadOK'
  <2>1. CASE Receive(r)  BY <2>1 DEF Receive, Answer
  <2>2. CASE Refuse(r)  BY <2>2 DEF Refuse, Answer
  <2>3. CASE ProbeAudioDuration(r)  BY <2>3 DEF ProbeAudioDuration, Answer
  <2>4. CASE CheckFinalPath(r)  BY <2>4 DEF CheckFinalPath, Answer
  <2>5. CASE PlaceFile(r)  BY <2>5 DEF PlaceFile, Answer
  <2>6. CASE CommitJob(r)
    BY <2>6 DEF CommitJob, Answer, Forget, RowAfterCommit
  <2>7. CASE CommitRaises(r)
    BY <2>7 DEF CommitRaises, Answer, RowAfterCommit
  <2>8. CASE RollBack(r)  BY <2>8 DEF RollBack, Answer, Forget
  <2>9. CASE RollBackRaises(r)
    BY <2>9 DEF RollBackRaises, Answer, Forget
  <2>. QED
    BY <1>1, <2>1, <2>2, <2>3, <2>4, <2>5, <2>6, <2>7, <2>8, <2>9
    DEF UploadStep
<1>2. ASSUME NEW p \in Apis, CrashApi(p)  PROVE UploadOK'
  BY <1>2 DEF CrashApi, Forget, Served, Section
<1>3. ASSUME WorkerStep  PROVE UploadOK'
  BY <1>3, WorkersAgeRows DEF RowsAge
<1>4. ASSUME NEW k \in Cleaners, CleanerStep(k)  PROVE UploadOK'
  BY <1>4 DEF CleanerStep, CleanupDue, ScanJobs, CleanupQueryFails, RestartCleaner,
      UnlinkExpired, UnlinkFails
<1>5. ASSUME UNCHANGED vars  PROVE UploadOK'
  BY <1>5 DEF vars
<1>. QED  BY <1>1, <1>2, <1>3, <1>4, <1>5, StepCases

\* Whoever answers has removed the .part file.
LEMMA PartsGo ==
    ASSUME TypeOK, AnsweredLeavesNoPart, [Next]_vars
    PROVE  AnsweredLeavesNoPart'
<1> USE DEF TypeOK, AnsweredLeavesNoPart, requestVars, cleanupVars
<1>1. ASSUME NEW r \in Requests, UploadStep(r)  PROVE AnsweredLeavesNoPart'
  BY <1>1
  DEF UploadStep, Receive, Refuse, ProbeAudioDuration, CheckFinalPath, PlaceFile,
      CommitJob, CommitRaises, RollBack, RollBackRaises, Answer, TempAfterCheck
<1>2. ASSUME NEW p \in Apis, CrashApi(p)  PROVE AnsweredLeavesNoPart'
  BY <1>2 DEF CrashApi
<1>3. ASSUME WorkerStep  PROVE AnsweredLeavesNoPart'
  BY <1>3, WorkersAgeRows DEF RowsAge
<1>4. ASSUME NEW k \in Cleaners, CleanerStep(k)  PROVE AnsweredLeavesNoPart'
  BY <1>4 DEF CleanerStep, CleanupDue, ScanJobs, CleanupQueryFails, RestartCleaner,
      UnlinkExpired, UnlinkFails
<1>5. ASSUME UNCHANGED vars  PROVE AnsweredLeavesNoPart'
  BY <1>5 DEF vars
<1>. QED  BY <1>1, <1>2, <1>3, <1>4, <1>5, StepCases

-----------------------------------------------------------------------------
(* Files and who relies on them.                                           *)

\* A rollback removes what its request created, so whatever stays has another
\* owner; a new file belongs to the request that placed it.
LEMMA FilesStayOwned ==
    ASSUME TypeOK, UploadOK, FileHasOwner, [Next]_vars
    PROVE  FileHasOwner'
<1> USE DEF TypeOK, UploadOK, FileHasOwner, requestVars, cleanupVars
<1>1. ASSUME NEW r \in Requests, UploadStep(r)  PROVE FileHasOwner'
  <2>1. CASE Receive(r)  BY <2>1 DEF Receive, Answer
  <2>2. CASE Refuse(r)  BY <2>2 DEF Refuse, Answer
  <2>3. CASE ProbeAudioDuration(r)  BY <2>3 DEF ProbeAudioDuration, Answer
  <2>4. CASE CheckFinalPath(r)  BY <2>4 DEF CheckFinalPath, Answer
  <2>5. CASE PlaceFile(r)  BY <2>5 DEF PlaceFile, Answer
  <2>6. CASE CommitJob(r)
    BY <2>6 DEF CommitJob, Answer, Forget, RowAfterCommit
  <2>7. CASE CommitRaises(r)
    BY <2>7 DEF CommitRaises, Answer, RowAfterCommit
  <2>8. CASE RollBack(r)
    BY <2>8 DEF RollBack, Answer, Forget, AfterRollback
  <2>9. CASE RollBackRaises(r)
    BY <2>9 DEF RollBackRaises, Answer, Forget
  <2>. QED
    BY <1>1, <2>1, <2>2, <2>3, <2>4, <2>5, <2>6, <2>7, <2>8, <2>9
    DEF UploadStep
<1>2. ASSUME NEW p \in Apis, CrashApi(p)  PROVE FileHasOwner'
  BY <1>2 DEF CrashApi, Forget, Served, Section
<1>3. ASSUME WorkerStep  PROVE FileHasOwner'
  BY <1>3, WorkersAgeRows DEF RowsAge
<1>4. ASSUME NEW k \in Cleaners, CleanerStep(k)  PROVE FileHasOwner'
  <2>1. files' \subseteq files /\ UNCHANGED <<content, row, created, rpc>>
    BY <1>4 DEF CleanerStep, CleanupDue, ScanJobs, CleanupQueryFails, RestartCleaner,
      UnlinkExpired, UnlinkFails
  <2>. QED  BY <2>1
<1>5. ASSUME UNCHANGED vars  PROVE FileHasOwner'
  BY <1>5 DEF vars
<1>. QED  BY <1>1, <1>2, <1>3, <1>4, <1>5, StepCases

\* A request that finds no file in its section does so after every open job of
\* its content has lost the file; nobody joins them in the same process before
\* the request is answered.
LEMMA CreatorStaysFirst ==
    ASSUME TypeOK, OneInSection, UploadOK, ReliedOn, CreatorIsFirst, [Next]_vars
    PROVE  CreatorIsFirst'
<1> USE DEF TypeOK, OneInSection, UploadOK, CreatorIsFirst, Lost, requestVars,
            cleanupVars
<1>1. ASSUME NEW r \in Requests, UploadStep(r)  PROVE CreatorIsFirst'
  <2>1. CASE Receive(r)  BY <2>1 DEF Receive, Answer, Active
  <2>2. CASE Refuse(r)  BY <2>2 DEF Refuse, Answer, Active
  <2>3. CASE ProbeAudioDuration(r)  BY <2>3 DEF ProbeAudioDuration, Answer, Active
  <2>4. CASE CheckFinalPath(r)
    BY <2>4 DEF CheckFinalPath, Answer, Active, ReliedOn
  <2>5. CASE PlaceFile(r)  BY <2>5 DEF PlaceFile, Answer, Active
  <2>6. CASE CommitJob(r)
    BY <2>6 DEF CommitJob, Answer, Forget, RowAfterCommit, Active, Section
  <2>7. CASE CommitRaises(r)
    BY <2>7 DEF CommitRaises, Answer, RowAfterCommit, Active, Section
  <2>8. CASE RollBack(r)
    BY <2>8 DEF RollBack, Answer, Forget, Active
  <2>9. CASE RollBackRaises(r)
    BY <2>9 DEF RollBackRaises, Answer, Forget, Active
  <2>. QED
    BY <1>1, <2>1, <2>2, <2>3, <2>4, <2>5, <2>6, <2>7, <2>8, <2>9
    DEF UploadStep
<1>2. ASSUME NEW p \in Apis, CrashApi(p)  PROVE CreatorIsFirst'
  BY <1>2 DEF CrashApi, Forget, Active
<1>3. ASSUME WorkerStep  PROVE CreatorIsFirst'
  BY <1>3, WorkersAgeRows DEF RowsAge
<1>4. ASSUME NEW k \in Cleaners, CleanerStep(k)  PROVE CreatorIsFirst'
  BY <1>4
  DEF CleanerStep, CleanupDue, ScanJobs, CleanupQueryFails, RestartCleaner,
      UnlinkExpired, UnlinkFails, Active
<1>5. ASSUME UNCHANGED vars  PROVE CreatorIsFirst'
  BY <1>5 DEF vars, Active
<1>. QED  BY <1>1, <1>2, <1>3, <1>4, <1>5, StepCases

\* What a pass has decided from rows stays true of these rows: a settled job
\* is never active again.
LEMMA PassStaysOK ==
    ASSUME TypeOK, UploadOK, PassOK, [Next]_vars
    PROVE  PassOK'
<1> USE DEF TypeOK, UploadOK, PassOK, requestVars, cleanupVars
<1>1. ASSUME NEW r \in Requests, UploadStep(r)  PROVE PassOK'
  <2>1. /\ UNCHANGED <<content, snapshot, doomed>>
        /\ \A q \in Requests : row[q] # "none" => row'[q] = row[q]
    BY <1>1
    DEF UploadStep, Receive, Refuse, ProbeAudioDuration, CheckFinalPath, PlaceFile,
        CommitJob, CommitRaises, RollBack, RollBackRaises, RowAfterCommit
  <2>. QED  BY <2>1
<1>2. ASSUME NEW p \in Apis, CrashApi(p)  PROVE PassOK'
  BY <1>2 DEF CrashApi
<1>3. ASSUME WorkerStep  PROVE PassOK'
  BY <1>3, WorkersAgeRows DEF RowsAge
<1>4. ASSUME NEW k \in Cleaners, CleanerStep(k)  PROVE PassOK'
  <2>1. CASE CleanupDue(k)  BY <2>1 DEF CleanupDue
  <2>2. CASE ScanJobs(k)
    <3>1. ASSUME NEW r \in Requests, row[r] # "none", Expired(content[r])
          PROVE  row[r] = "expired"
      BY <3>1 DEF Expired, References
    <3>2. /\ snapshot'[k] = {} \/ snapshot'[k] = {r \in Requests : row[r] # "none"}
          /\ doomed'[k] = {c \in Contents : Expired(c)}
          /\ UNCHANGED <<row, content>>
          /\ \A l \in Cleaners \ {k} :
               snapshot'[l] = snapshot[l] /\ doomed'[l] = doomed[l]
      BY <2>2 DEF ScanJobs, Candidates
    <3>. QED  BY <3>1, <3>2
  <2>3. CASE RestartCleaner(k)  BY <2>3 DEF RestartCleaner, EndPass
  <2>4. ASSUME NEW c \in Contents, UnlinkExpired(k, c)  PROVE PassOK'
    BY <2>4 DEF UnlinkExpired, EndPass
  <2>5. CASE CleanupQueryFails(k)  BY <2>5 DEF CleanupQueryFails
  <2>6. ASSUME NEW c \in Contents, UnlinkFails(k, c)  PROVE PassOK'
    BY <2>6 DEF UnlinkFails, EndPass
  <2>. QED  BY <1>4, <2>1, <2>2, <2>3, <2>4, <2>5, <2>6 DEF CleanerStep
<1>5. ASSUME UNCHANGED vars  PROVE PassOK'
  BY <1>5 DEF vars
<1>. QED  BY <1>1, <1>2, <1>3, <1>4, <1>5, StepCases

\* A file is taken from those who rely on it by a pass that has not read them
\* or by a rollback that cannot know of them, and both are recorded.
LEMMA ReliedOnStays ==
    ASSUME TypeOK, OneInSection, UploadOK, ReliedOn, CreatorIsFirst, PassOK, [Next]_vars
    PROVE  ReliedOn'
<1> USE DEF TypeOK, UploadOK, ReliedOn, Lost, requestVars, cleanupVars
<1>1. ASSUME NEW r \in Requests, UploadStep(r)  PROVE ReliedOn'
  <2>1. CASE Receive(r)  BY <2>1 DEF Receive, Answer, Active
  <2>2. CASE Refuse(r)  BY <2>2 DEF Refuse, Answer, Active
  <2>3. CASE ProbeAudioDuration(r)  BY <2>3 DEF ProbeAudioDuration, Answer, Active
  <2>4. CASE CheckFinalPath(r)  BY <2>4 DEF CheckFinalPath, Answer, Active
  <2>5. CASE PlaceFile(r)  BY <2>5 DEF PlaceFile, Answer, Active
  <2>6. CASE CommitJob(r)
    BY <2>6 DEF CommitJob, Answer, RowAfterCommit, Active
  <2>7. CASE CommitRaises(r)
    BY <2>7 DEF CommitRaises, Answer, RowAfterCommit, Active
  <2>8. CASE RollBack(r)
    <3>1. CASE ~ created[r]
      BY <2>8, <3>1 DEF RollBack, Answer, AfterRollback, Active
    <3>2. CASE created[r]
      <4>1. /\ files' = files \ {content[r]}
            /\ withdrawn' = withdrawn \cup Unaware(r)
            /\ rpc' = [rpc EXCEPT ![r] = "failed"]
            /\ UNCHANGED <<content, row, raced>>
        BY <2>8, <3>2 DEF RollBack, Answer, AfterRollback
      <4>2. ASSUME NEW q \in Requests, content[q] = content[r],
                   Active(q) \/ rpc[q] = "commit"
            PROVE  q \in Lost \cup Unaware(r)
        <5>1. CASE q = r \/ api[q] # api[r]
          BY <4>2, <5>1 DEF Unaware
        <5>2. CASE q # r /\ api[q] = api[r]
          <6>1. rpc[r] = "rollback"
            BY <2>8 DEF RollBack
          <6>2. rpc[q] # "commit"
            BY <5>2, <6>1 DEF OneInSection, Section
          <6>. QED  BY <3>2, <4>2, <5>2, <6>2 DEF CreatorIsFirst
        <5>. QED  BY <5>1, <5>2
      <4>. QED  BY <4>1, <4>2 DEF Active
    <3>. QED  BY <3>1, <3>2
  <2>9. CASE RollBackRaises(r)
    BY <2>9 DEF RollBackRaises, Answer, Forget, Active
  <2>. QED
    BY <1>1, <2>1, <2>2, <2>3, <2>4, <2>5, <2>6, <2>7, <2>8, <2>9
    DEF UploadStep
<1>2. ASSUME NEW p \in Apis, CrashApi(p)  PROVE ReliedOn'
  BY <1>2 DEF CrashApi, Active
<1>3. ASSUME WorkerStep  PROVE ReliedOn'
  BY <1>3, WorkersAgeRows DEF RowsAge
<1>4. ASSUME NEW k \in Cleaners, CleanerStep(k)  PROVE ReliedOn'
  <2>1. CASE \/ CleanupDue(k) \/ ScanJobs(k) \/ CleanupQueryFails(k) \/ RestartCleaner(k)
             \/ \E c \in Contents : UnlinkFails(k, c)
    BY <2>1 DEF CleanupDue, ScanJobs, CleanupQueryFails, RestartCleaner, UnlinkFails, Active
  <2>2. ASSUME NEW c \in Contents, UnlinkExpired(k, c)  PROVE ReliedOn'
    <3>1. CASE c \notin files
      BY <2>2, <3>1 DEF UnlinkExpired, Active
    <3>2. CASE c \in files
      <4>1. /\ files' = files \ {c}
            /\ raced' = raced \cup Unseen(k, c)
            /\ UNCHANGED <<content, row, rpc, withdrawn>>
            /\ c \in doomed[k]
        BY <2>2, <3>2 DEF UnlinkExpired
      <4>2. ASSUME NEW q \in Requests, content[q] = c, Active(q) \/ rpc[q] = "commit"
            PROVE  q \in Unseen(k, c)
        <5>1. q \notin snapshot[k]
          BY <4>1, <4>2 DEF PassOK, Active
        <5>. QED  BY <4>2, <5>1 DEF Unseen
      <4>. QED  BY <4>1, <4>2 DEF Active
    <3>. QED  BY <3>1, <3>2
  <2>. QED  BY <1>4, <2>1, <2>2 DEF CleanerStep
<1>5. ASSUME UNCHANGED vars  PROVE ReliedOn'
  BY <1>5 DEF vars, Active
<1>. QED  BY <1>1, <1>2, <1>3, <1>4, <1>5, StepCases

\* Whoever has lost its file in a known way is remembered.
LEMMA LostGrows ==
    ASSUME TypeOK, [Next]_vars
    PROVE  Lost \subseteq Lost'
<1> USE DEF TypeOK, Lost, requestVars, cleanupVars
<1>1. ASSUME NEW r \in Requests, UploadStep(r)  PROVE Lost \subseteq Lost'
  BY <1>1
  DEF UploadStep, Receive, Refuse, ProbeAudioDuration, CheckFinalPath, PlaceFile,
      CommitJob, CommitRaises, RollBack, RollBackRaises
<1>2. ASSUME NEW p \in Apis, CrashApi(p)  PROVE Lost \subseteq Lost'
  BY <1>2 DEF CrashApi
<1>3. ASSUME WorkerStep  PROVE Lost \subseteq Lost'
  BY <1>3, WorkersAgeRows DEF RowsAge
<1>4. ASSUME NEW k \in Cleaners, CleanerStep(k)  PROVE Lost \subseteq Lost'
  BY <1>4 DEF CleanerStep, CleanupDue, ScanJobs, CleanupQueryFails, RestartCleaner,
      UnlinkExpired, UnlinkFails
<1>5. ASSUME UNCHANGED vars  PROVE Lost \subseteq Lost'
  BY <1>5 DEF vars
<1>. QED  BY <1>1, <1>2, <1>3, <1>4, <1>5, StepCases

-----------------------------------------------------------------------------
(* Theorems.                                                               *)

LEMMA InitStorageInv == Init => StorageInv
BY InitTypeOK
DEF Init, StorageInv, OneInSection, UploadOK, AnsweredLeavesNoPart, FileHasOwner,
    ReliedOn, CreatorIsFirst, PassOK, Active, Section

LEMMA NextStorageInv == StorageInv /\ [Next]_vars => StorageInv'
BY NextTypeOK, InSectionAlone, UploadStays, PartsGo, FilesStayOwned,
   CreatorStaysFirst, PassStaysOK, ReliedOnStays DEF StorageInv

\* The inductive invariant holds in every reachable state, however many
\* uploads, API processes and cleaning workers there are.
THEOREM StorageInvariance == Spec => []StorageInv
BY InitStorageInv, NextStorageInv, PTL DEF Spec

\* Every state has the types of TypeOK (the columns and paths that uploads.py
\* and cleanup.py keep).
THEOREM TypeCorrect == Spec => []TypeOK
<1>1. StorageInv => TypeOK  BY DEF StorageInv
<1>. QED  BY <1>1, StorageInvariance, PTL

\* The property is a part of the invariant.
LEMMA ReliersAreExplained == StorageInv => LossHasCause
BY DEF StorageInv, ReliedOn, LossHasCause, Lost

\* Whoever loses an input file loses it to a pass that had read the rows too
\* early or to a rollback that could not know of it, and in no other way
\* (upload_job, _cleanup_expired_input_files).
THEOREM LossIsExplained == Spec => []LossHasCause
BY ReliersAreExplained, StorageInvariance, PTL

\* Rollbacks leave no file behind: every stored file has a job, an upload
\* about to insert one, or an upload whose process died (upload_job).
THEOREM FilesAreOwned == Spec => []NoOrphanInput
<1>1. StorageInv => NoOrphanInput
  BY DEF StorageInv, TypeOK, UploadOK, FileHasOwner, NoOrphanInput
<1>. QED  BY <1>1, StorageInvariance, PTL

\* Whatever was accepted, rejected or failed in its commit has no .part file
\* (store_uploaded_audio).
THEOREM PartsAreRemoved == Spec => []AnsweredLeavesNoPart
<1>1. StorageInv => AnsweredLeavesNoPart  BY DEF StorageInv
<1>. QED  BY <1>1, StorageInvariance, PTL

-----------------------------------------------------------------------------
(* Where the two ways of losing an input come from.                        *)

\* A commit that raises has inserted nothing unless acknowledgements get lost.
NoLostRow ==
    ~ LostAcks => \A r \in Requests : rpc[r] = "rollback" => row[r] = "none"

LEMMA InitNoLostRow == Init => NoLostRow
BY DEF Init, NoLostRow

\* Every step keeps it.
LEMMA NoLostRowStays ==
    ASSUME TypeOK, UploadOK, NoLostRow, [Next]_vars
    PROVE  NoLostRow'
<1> USE DEF TypeOK, UploadOK, NoLostRow, requestVars, cleanupVars
<1>1. ASSUME NEW r \in Requests, UploadStep(r)  PROVE NoLostRow'
  BY <1>1, StorageAssumption
  DEF UploadStep, Receive, Refuse, ProbeAudioDuration, CheckFinalPath, PlaceFile,
      CommitJob, CommitRaises, RollBack, RollBackRaises, Answer, RowAfterCommit
<1>2. ASSUME NEW p \in Apis, CrashApi(p)  PROVE NoLostRow'
  BY <1>2 DEF CrashApi
<1>3. ASSUME WorkerStep  PROVE NoLostRow'
  BY <1>3, WorkersAgeRows DEF RowsAge
<1>4. ASSUME NEW k \in Cleaners, CleanerStep(k)  PROVE NoLostRow'
  BY <1>4 DEF CleanerStep, CleanupDue, ScanJobs, CleanupQueryFails, RestartCleaner,
      UnlinkExpired, UnlinkFails
<1>5. ASSUME UNCHANGED vars  PROVE NoLostRow'
  BY <1>5 DEF vars
<1>. QED  BY <1>1, <1>2, <1>3, <1>4, <1>5, StepCases

\* No job is older than the retention period yet.
NothingExpired == \A r \in Requests : row[r] # "expired"

\* Before anything expires no pass decides to delete.
LEMMA NoPassWithoutExpiry ==
    ASSUME TypeOK, NothingExpired, \A k \in Cleaners : doomed[k] = {}, raced = {},
           [Next]_vars
    PROVE  (\A k \in Cleaners : doomed[k] = {})' /\ (raced = {})'
<1> USE DEF TypeOK, cleanupVars
<1>1. ASSUME NEW r \in Requests, UploadStep(r)
      PROVE  UNCHANGED <<doomed, raced>>
  BY <1>1
  DEF UploadStep, Receive, Refuse, ProbeAudioDuration, CheckFinalPath,
      PlaceFile, CommitJob, CommitRaises, RollBack, RollBackRaises
<1>2. ASSUME NEW p \in Apis, CrashApi(p)  PROVE UNCHANGED <<doomed, raced>>
  BY <1>2 DEF CrashApi
<1>3. WorkerStep => UNCHANGED <<doomed, raced>>
  BY WorkersAgeRows DEF RowsAge
<1>4. ASSUME NEW k \in Cleaners, CleanerStep(k)
      PROVE  (\A l \in Cleaners : doomed[l] = {})' /\ (raced = {})'
  <2>1. CASE CleanupDue(k)  BY <2>1 DEF CleanupDue
  <2>2. CASE ScanJobs(k)
    <3>1. Candidates = {}
      BY DEF Candidates, Expired, References, NothingExpired
    <3>. QED  BY <2>2, <3>1 DEF ScanJobs
  <2>3. CASE RestartCleaner(k)  BY <2>3 DEF RestartCleaner, EndPass
  <2>4. ~ \E c \in Contents : UnlinkExpired(k, c) \/ UnlinkFails(k, c)
    BY DEF UnlinkExpired, UnlinkFails
  <2>5. CASE CleanupQueryFails(k)  BY <2>5 DEF CleanupQueryFails
  <2>. QED  BY <1>4, <2>1, <2>2, <2>3, <2>4, <2>5 DEF CleanerStep
<1>5. UNCHANGED vars => UNCHANGED <<doomed, raced>>
  BY DEF vars
<1>. QED  BY <1>1, <1>2, <1>3, <1>4, <1>5, StepCases

\* With one API process and every commit acknowledged, a rollback takes the
\* file from nobody.
LEMMA RollBackTakesNothing ==
    ASSUME ~ LostAcks, \A p, q \in Apis : p = q,
           StorageInv, NoLostRow, withdrawn = {}, [Next]_vars
    PROVE  (withdrawn = {})'
<1> USE DEF StorageInv, TypeOK
<1>1. ASSUME NEW r \in Requests, UploadStep(r)  PROVE withdrawn' = {}
  <2>1. CASE RollBack(r)
    <3>1. rpc[r] = "rollback" /\ row[r] = "none"
      BY <2>1 DEF RollBack, NoLostRow
    <3>2. Unaware(r) = {}
      BY <3>1 DEF Unaware, Active
    <3>. QED  BY <2>1, <3>2 DEF RollBack
  <2>2. CASE ~ RollBack(r)
    BY <1>1, <2>2
    DEF UploadStep, Receive, Refuse, ProbeAudioDuration, CheckFinalPath,
        PlaceFile, CommitJob, CommitRaises, RollBackRaises
  <2>. QED  BY <2>1, <2>2
<1>2. ASSUME NEW p \in Apis, CrashApi(p)  PROVE withdrawn' = {}
  BY <1>2 DEF CrashApi
<1>3. WorkerStep => withdrawn' = {}
  BY WorkersAgeRows DEF RowsAge
<1>4. ASSUME NEW k \in Cleaners, CleanerStep(k)  PROVE withdrawn' = {}
  BY <1>4 DEF CleanerStep, CleanupDue, ScanJobs, CleanupQueryFails, RestartCleaner,
      UnlinkExpired, UnlinkFails
<1>5. UNCHANGED vars => withdrawn' = {}
  BY DEF vars
<1>. QED  BY <1>1, <1>2, <1>3, <1>4, <1>5, StepCases

\* Until a job has expired, none loses its file to a cleanup pass.
THEOREM CleanupTakesExpiredOnly == Spec /\ []NothingExpired => [](raced = {})
<1> DEFINE Quiet == (\A k \in Cleaners : doomed[k] = {}) /\ raced = {}
<1>1. Init => Quiet
  BY DEF Init
<1>2. StorageInv /\ NothingExpired /\ Quiet /\ [Next]_vars => Quiet'
  BY NoPassWithoutExpiry DEF StorageInv
<1>3. Quiet => raced = {}
  OBVIOUS
<1> HIDE DEF Quiet
<1>. QED  BY <1>1, <1>2, <1>3, StorageInvariance, PTL DEF Spec

\* With one API process and every commit acknowledged, no job loses its file to
\* a rollback (upload_job keeps the event loop from its check of the final path
\* to its answer).
THEOREM RollBackTakesOwnFile ==
    ASSUME ~ LostAcks, \A p, q \in Apis : p = q
    PROVE  Spec => [](withdrawn = {})
<1> DEFINE Quiet == NoLostRow /\ withdrawn = {}
<1>1. Init => Quiet
  BY InitNoLostRow DEF Init
<1>2. StorageInv /\ Quiet /\ [Next]_vars => Quiet'
  BY NoLostRowStays, RollBackTakesNothing DEF StorageInv
<1>3. Quiet => withdrawn = {}
  OBVIOUS
<1> HIDE DEF Quiet
<1>. QED  BY <1>1, <1>2, <1>3, StorageInvariance, PTL DEF Spec

\* "Shared input files must survive if any referencing job is still active"
\* (tests/test_worker_cleanup.py) holds with one API process whose commits are
\* acknowledged, for as long as nothing has expired, whatever uploads, workers
\* and crashes do meanwhile.  What the code does not keep, it does not keep
\* because of these races and of nothing else.
THEOREM InputsSurviveWithoutRaces ==
    ASSUME ~ LostAcks, \A p, q \in Apis : p = q
    PROVE  Spec /\ []NothingExpired => []ActiveInputSurvives
<1>1. LossHasCause /\ raced = {} /\ withdrawn = {} => ActiveInputSurvives
  BY DEF LossHasCause, ActiveInputSurvives
<1>. QED
  BY <1>1, LossIsExplained, CleanupTakesExpiredOnly, RollBackTakesOwnFile, PTL
=============================================================================
