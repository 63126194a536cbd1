-------------------------- MODULE ArtifactCleanup --------------------------
(***************************************************************************)
(* Retention cleanup of the artifact directory                             *)
(* (_cleanup_expired_artifacts of src/app/worker/cleanup.py): one worker   *)
(* after the other, or several at once, lists the tree, deletes the files  *)
(* that were not modified during the retention period, and then the        *)
(* directories that are empty, while others write into the tree.           *)
(*                                                                         *)
(* A path is the sequence of its parts.  Links are symbolic links, to a    *)
(* file or directory inside or outside of the tree; nobody changes them.   *)
(***************************************************************************)
EXTENDS Integers, SequencesExt

CONSTANTS
    Root,           \* artifact_root, resolved
    Files, Dirs,    \* paths of files and directories, outside ones among them
    Links, Targets, \* paths of links, and what they may resolve to
    Locked,         \* sets of directories that nobody may change
    Retention,      \* artifact_retention_days
    MaxTime,        \* bound of the clock
    Cleaners        \* worker processes, as far as they run cleanup

\* Every path names one kind of entry, and what holds it is a directory.
ASSUME ArtifactAssumption ==
    /\ Files \cup Dirs \cup Links \subseteq Seq(STRING) \ {<<>>}
    /\ Files \cap Dirs = {} /\ Links \cap (Files \cup Dirs) = {}
    /\ Root \in Dirs /\ Targets \subseteq Files \cup Dirs
    /\ \A p \in (Files \cup Dirs \cup Links) \ {Root} :
          IsPrefix(Root, p) => Front(p) \in Dirs
    /\ Retention \in Int /\ MaxTime \in Nat

VARIABLES
    now,        \* the clock
    mtime,      \* st_mtime of each file, Gone if there is none
    dirs,       \* directories that exist
    target,     \* what each link resolves to (fixed)
    locked,     \* directories without write permission (fixed)
    storing,    \* workers with store_intermediate_artifacts, off by default (fixed)
    pc,         \* where each cleaner is in its pass
    cutoff,     \* retention cutoff of the pass
    files,      \* listed entries the loop over files has yet to look at
    folders,    \* those the loop over directories has yet to look at
    checked,    \* the path found expired or empty, about to be removed
    rewritten,  \* cleaners whose checked file was written since (history)
    alone       \* cleaners whose pass nobody else interfered with (history)

treeVars == <<mtime, dirs>>
fixedVars == <<target, locked, storing>>
passVars == <<pc, cutoff, files, folders, checked>>
vars == <<now, treeVars, fixedVars, passVars, rewritten, alone>>

Gone == -1
None == <<>>

-----------------------------------------------------------------------------
(* Bugs that the properties below would catch.                             *)

\* Links are judged by their own path.
IsSafe_Unresolved(p) == IsPrefix(Root, p)

\* The retention period is left out.
Cutoff_Now == now

\* Parents come before what they hold.
IsNext_Shallowest(k, p) == \A q \in folders[k] : Len(q) >= Len(p)

\* The first deletion that fails ends the loop over the files.
Remaining_Aborts(k) == IF Front(checked[k]) \in locked THEN {} ELSE files[k]

-----------------------------------------------------------------------------
Resolve(p) == IF p \in Links THEN target[p] ELSE p

\* _resolve_safe_path: what the path resolves to lies under the root.
IsSafe(p) == IsPrefix(Root, Resolve(p))

Inside(S) == {p \in S : IsStrictPrefix(Root, p)}
Existing == {f \in Files : mtime[f] # Gone}
IsEmptyDir(d) == \A p \in Existing \cup dirs \cup Links : p = Root \/ Front(p) # d
Permitted(p) == Front(p) \notin locked

\* _build_cutoff; a negative retention period disables the pass.
Cutoff == now - Retention

\* Directories are sorted by their number of parts, the deepest first.
IsNext(k, p) == \A q \in folders[k] : Len(q) <= Len(p)

\* A deletion that fails leaves the rest of the loop to be done.
Remaining(k) == files[k]

\* Neither loop has anything left.
Finished(k) ==
    pc[k] = "walk" /\ files[k] = {} /\ folders[k] = {} /\ checked[k] = None

Init ==
    /\ now = 0
    /\ mtime = [f \in Files |-> 0]
    /\ dirs = Dirs
    /\ target \in [Links -> Targets]
    /\ locked \in Locked
    /\ storing \in SUBSET Cleaners
    /\ pc = [k \in Cleaners |-> "due"]
    /\ cutoff = [k \in Cleaners |-> 0]
    /\ files = [k \in Cleaners |-> {}]
    /\ folders = [k \in Cleaners |-> {}]
    /\ checked = [k \in Cleaners |-> None]
    /\ rewritten = {}
    /\ alone = {}

-----------------------------------------------------------------------------
(* A pass (run_storage_cleanup).                                           *)

At(k, place) == pc' = [pc EXCEPT ![k] = place]

Check(k, p) == checked' = [checked EXCEPT ![k] = p]

\* A removal by one cleaner interferes with the passes of all others.
Disturbed(by) == alone' = alone \cap {by}

\* Enough jobs have been processed, or the worker has been restarted.
CleanupDue(k) ==
    /\ pc[k] = "idle"
    /\ At(k, "due")
    /\ UNCHANGED <<now, treeVars, fixedVars, cutoff, files, folders, checked, rewritten, alone>>

\* cleanup_now is taken before the inputs are cleaned.  A worker that stores no
\* artifacts leaves the tree alone.
StartPass(k) ==
    /\ pc[k] = "due"
    /\ IF k \in storing /\ Root \in dirs /\ Retention >= 0
       THEN /\ At(k, "list")
            /\ cutoff' = [cutoff EXCEPT ![k] = Cutoff]
            /\ alone' = alone \cup {k}
       ELSE At(k, "idle") /\ UNCHANGED <<cutoff, alone>>
    /\ UNCHANGED <<now, treeVars, fixedVars, files, folders, checked, rewritten>>

\* list(artifact_root.rglob("*"))
ListTree(k) ==
    /\ pc[k] = "list"
    /\ At(k, "walk")
    /\ files' = [files EXCEPT ![k] = Inside(Existing \cup Links)]
    /\ folders' = [folders EXCEPT ![k] = Inside(dirs \cup Links)]
    /\ UNCHANGED <<now, treeVars, fixedVars, cutoff, checked, rewritten, alone>>

TraversalFails(k) ==
    /\ pc[k] = "list"
    /\ At(k, "idle")
    /\ cutoff' = [cutoff EXCEPT ![k] = 0]
    /\ alone' = alone \ {k}
    /\ UNCHANGED <<now, treeVars, fixedVars, files, folders, checked, rewritten>>

\* is_file(), _resolve_safe_path and stat(): the entry may be gone, lead out of
\* the tree, or be recent.
InspectFile(k, p) ==
    /\ pc[k] = "walk" /\ checked[k] = None
    /\ p \in files[k]
    /\ files' = [files EXCEPT ![k] = @ \ {p}]
    /\ Check(k, IF Resolve(p) \in Existing /\ IsSafe(p) /\ mtime[Resolve(p)] <= cutoff[k]
                THEN Resolve(p) ELSE None)
    /\ rewritten' = rewritten \ {k}
    /\ UNCHANGED <<now, treeVars, fixedVars, pc, cutoff, folders, alone>>

UnlinkArtifact(k) ==
    /\ checked[k] \in Files
    /\ Check(k, None)
    /\ files' = [files EXCEPT ![k] = Remaining(k)]
    /\ IF checked[k] \in Existing /\ Permitted(checked[k])
       THEN mtime' = [mtime EXCEPT ![checked[k]] = Gone] /\ Disturbed(k)
       ELSE UNCHANGED <<mtime, alone>>
    /\ UNCHANGED <<now, dirs, fixedVars, pc, cutoff, folders, rewritten>>

\* is_dir() and the first entry of iterdir().
InspectDir(k, p) ==
    /\ pc[k] = "walk" /\ checked[k] = None /\ files[k] = {}
    /\ p \in folders[k] /\ IsNext(k, p)
    /\ folders' = [folders EXCEPT ![k] = @ \ {p}]
    /\ Check(k, IF /\ Resolve(p) \in dirs /\ IsSafe(p) /\ Resolve(p) # Root
                   /\ IsEmptyDir(Resolve(p))
                THEN Resolve(p) ELSE None)
    /\ UNCHANGED <<now, treeVars, fixedVars, pc, cutoff, files, rewritten, alone>>

\* rmdir() fails if something has come into the directory.
RemoveDir(k) ==
    /\ checked[k] \in Dirs
    /\ Check(k, None)
    /\ IF checked[k] \in dirs /\ IsEmptyDir(checked[k]) /\ Permitted(checked[k])
       THEN dirs' = dirs \ {checked[k]} /\ Disturbed(k)
       ELSE UNCHANGED <<dirs, alone>>
    /\ UNCHANGED <<now, mtime, fixedVars, pc, cutoff, files, folders, rewritten>>

\* What a pass leaves behind when it ends, one way or the other.
Forget(k) ==
    /\ cutoff' = [cutoff EXCEPT ![k] = 0]
    /\ files' = [files EXCEPT ![k] = {}]
    /\ folders' = [folders EXCEPT ![k] = {}]
    /\ Check(k, None)
    /\ rewritten' = rewritten \ {k}
    /\ alone' = alone \ {k}
    /\ UNCHANGED <<now, treeVars, fixedVars>>

EndPass(k) == Finished(k) /\ At(k, "idle") /\ Forget(k)

\* The worker dies in its pass; its successor cleans at startup.
RestartCleaner(k) == pc[k] \in {"list", "walk"} /\ At(k, "due") /\ Forget(k)

-----------------------------------------------------------------------------
(* Whoever produces artifacts, and time.                                   *)

WriteArtifact(f) ==
    /\ IsPrefix(Root, f) /\ Front(f) \in dirs
    /\ f \in Existing \/ Permitted(f)
    /\ mtime' = [mtime EXCEPT ![f] = now]
    /\ rewritten' = rewritten \cup {k \in Cleaners : checked[k] = f}
    /\ alone' = {}
    /\ UNCHANGED <<now, dirs, fixedVars, passVars>>

MakeDir(d) ==
    /\ d \notin dirs /\ Front(d) \in dirs /\ Permitted(d)
    /\ dirs' = dirs \cup {d}
    /\ alone' = {}
    /\ UNCHANGED <<now, mtime, fixedVars, passVars, rewritten>>

Tick ==
    /\ now < MaxTime
    /\ now' = now + 1
    /\ UNCHANGED <<treeVars, fixedVars, passVars, rewritten, alone>>

Write == (\E f \in Files : WriteArtifact(f)) \/ (\E d \in Dirs : MakeDir(d))

CleanUp(k) ==
    \/ CleanupDue(k) \/ StartPass(k) \/ ListTree(k)
    \/ \E p \in files[k] : InspectFile(k, p)
    \/ UnlinkArtifact(k)
    \/ \E p \in folders[k] : InspectDir(k, p)
    \/ RemoveDir(k) \/ EndPass(k)

Next ==
    \/ \E k \in Cleaners : CleanUp(k) \/ TraversalFails(k) \/ RestartCleaner(k)
    \/ Write \/ Tick

Spec == Init /\ [][Next]_vars

\* Workers keep processing jobs and cleaning after them, they and traversals
\* do not fail for ever, and the writers stop.
Fairness ==
    /\ \A k \in Cleaners :
        /\ WF_vars(CleanUp(k))
        /\ <>[][~ (TraversalFails(k) \/ RestartCleaner(k))]_vars
    /\ <>[][~ Write]_vars

FairSpec == Spec /\ Fairness

-----------------------------------------------------------------------------
\* A file disappears only if it was older than the retention period, unless it
\* was written between the stat and the unlink of a pass: the cutoff of a pass
\* is fixed while the clock, other passes and writers go on.
NothingFreshGoes ==
    [][\A f \in Existing : mtime'[f] = Gone =>
          \/ mtime[f] <= now - Retention
          \/ \E k \in rewritten : checked[k] = f]_vars

\* Whatever links lead to, the root and everything outside of it stay
\* (_resolve_safe_path).
RootAndOutsideStay ==
    /\ \A d \in Dirs : IsStrictPrefix(Root, d) \/ d \in dirs
    /\ \A f \in Files : IsPrefix(Root, f) \/ f \in Existing

\* What no pass can remove: below d there is a file or a link, or a directory
\* that may not be removed.
Stays(d) ==
    \/ \E p \in Existing \cup Links : IsPrefix(d, p)
    \/ \E e \in dirs : IsPrefix(d, e) /\ ~ Permitted(e)

\* No file that limit makes expired, no chain of empty directories.
PrunedTo(limit) ==
    /\ \A f \in Inside(Existing) : Permitted(f) => mtime[f] > limit
    /\ \A d \in Inside(dirs) : Stays(d)

\* A pass that nobody interferes with leaves neither an expired file nor a
\* directory without files, however deep: one pass is enough, because the files
\* go first and the directories follow from the leaves.
OnePassPrunes ==
    \A k \in alone : Finished(k) => PrunedTo(cutoff[k])

\* Passes that overlap, die or fail on single entries still prune the tree in
\* the end once nobody writes any more, if one worker at least is set to store
\* artifacts: with the default of the setting nobody ever prunes.
TreeGetsPruned == storing # {} => <>[]PrunedTo(now - Retention)

=============================================================================
