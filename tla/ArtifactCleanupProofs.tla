------------------------ MODULE ArtifactCleanupProofs ------------------------
(***************************************************************************)
(* Proofs about ArtifactCleanup for any tree, any links, any number of     *)
(* cleaning workers and any retention period.                              *)
(***************************************************************************)
EXTENDS ArtifactCleanup, SequenceTheorems, TLAPS

-----------------------------------------------------------------------------
(* The inductive invariant.                                                *)

Places == {"idle", "due", "list", "walk"}

TypeOK ==
    /\ now \in Nat
    /\ mtime \in [Files -> Int]
    /\ dirs \subseteq Dirs
    /\ target \in [Links -> Targets]
    /\ pc \in [Cleaners -> Places]
    /\ cutoff \in [Cleaners -> Int]
    /\ files \in [Cleaners -> SUBSET (Files \cup Links)]
    /\ folders \in [Cleaners -> SUBSET (Dirs \cup Links)]
    /\ checked \in [Cleaners -> Files \cup Dirs \cup {None}]
    /\ rewritten \subseteq Cleaners
    /\ alone \subseteq Cleaners

\* What a pass is about to remove lies under the root and is not the root; the
\* cutoff of a running pass lies a retention period back; directories are
\* removed when no file is left to look at.
PassOK ==
    \A k \in Cleaners :
        /\ pc[k] # "walk" => files[k] = {} /\ folders[k] = {} /\ checked[k] = None
        /\ pc[k] \in {"list", "walk"} => cutoff[k] <= now - Retention
        /\ checked[k] # None => IsPrefix(Root, checked[k]) /\ checked[k] # Root
        /\ checked[k] \in Dirs => files[k] = {}
        /\ k \in alone => pc[k] \in {"list", "walk"}

\* The file a pass is about to remove is expired, gone, or written since.
CheckedIsExpired ==
    \A k \in Cleaners :
        checked[k] \in Existing =>
            k \in rewritten \/ mtime[checked[k]] <= cutoff[k]

\* The removal of a file is explained at any moment of the pass.
CleanupInv == TypeOK /\ PassOK /\ CheckedIsExpired /\ RootAndOutsideStay

-----------------------------------------------------------------------------
(* A pass that is left alone: what it has looked at is as it found it.     *)

FilesLeft(k) ==
    \A f \in Inside(Existing) :
        f \in files[k] \/ checked[k] = f \/ ~ Permitted(f) \/ mtime[f] > cutoff[k]

DirsLeft(k) ==
    \A d \in Inside(dirs) : d \in folders[k] \/ checked[k] = d \/ Stays(d)

\* No directory is looked at before the last file.
FilesFirst(k) ==
    files[k] # {} \/ checked[k] \in Files => Inside(dirs) \subseteq folders[k]

StillEmpty(k) ==
    checked[k] \in dirs => IsEmptyDir(checked[k])

AloneOK ==
    \A k \in alone :
        pc[k] = "walk" => FilesLeft(k) /\ DirsLeft(k) /\ FilesFirst(k) /\ StillEmpty(k)

-----------------------------------------------------------------------------
(* Paths.                                                                  *)

Paths == Files \cup Dirs \cup Links

\* A path is its first part, so prefixes can be compared part by part.
LEMMA PrefixByParts ==
    ASSUME NEW s \in Seq(STRING), NEW t \in Seq(STRING)
    PROVE  IsPrefix(s, t) <=> Len(s) <= Len(t) /\ \A i \in 1..Len(s) : s[i] = t[i]
<1>1. Len(s) \in Nat /\ Len(t) \in Nat
  BY LenProperties
<1>2. ASSUME Len(s) <= Len(t)
      PROVE  SubSeq(s, 1, Len(s)) = SubSeq(t, 1, Len(s))
               <=> \A i \in 1..Len(s) : s[i] = t[i]
  <2>1. SubSeq(s, 1, Len(s)) = s
    BY SubSeqFull
  <2>2. \A i \in 1..Len(s) : t[i] \in STRING
    BY <1>1, <1>2, ElementOfSeq
  <2>3. /\ SubSeq(t, 1, Len(s)) \in Seq(STRING)
        /\ Len(SubSeq(t, 1, Len(s))) = Len(s)
        /\ \A i \in 1..Len(s) : SubSeq(t, 1, Len(s))[i] = t[i]
    BY <1>1, <2>2, SubSeqProperties
  <2>. QED  BY <2>1, <2>3, SeqEqual
<1>. QED  BY <1>2 DEF IsPrefix

\* Whatever lies below a path below the root lies below the root.
LEMMA PrefixTransitive ==
    ASSUME NEW s \in Seq(STRING), NEW t \in Seq(STRING), NEW u \in Seq(STRING),
           IsPrefix(s, t), IsPrefix(t, u)
    PROVE  IsPrefix(s, u)
<1>1. Len(s) \in Nat /\ Len(t) \in Nat /\ Len(u) \in Nat
  BY LenProperties
<1>. QED  BY <1>1, PrefixByParts

\* A path with its last part taken away is a prefix of it, one part shorter.
LEMMA FrontIsPrefix ==
    ASSUME NEW p \in Seq(STRING) \ {<<>>}
    PROVE  /\ Front(p) \in Seq(STRING) /\ Len(p) = Len(Front(p)) + 1
           /\ IsPrefix(Front(p), p)
<1>1. Len(p) \in Nat \ {0}
  BY EmptySeq
<1>2. \A i \in 1 .. Len(p) - 1 : p[i] \in STRING
  BY <1>1, ElementOfSeq
<1>3. /\ Front(p) \in Seq(STRING) /\ Len(Front(p)) = Len(p) - 1
      /\ \A i \in 1 .. Len(p) - 1 : Front(p)[i] = p[i]
  <2> DEFINE n == Len(p) - 1
  <2>1. n \in Nat
    BY <1>1
  <2>2. /\ SubSeq(p, 1, n) \in Seq(STRING)
        /\ Len(SubSeq(p, 1, n)) = IF 1 <= n THEN n - 1 + 1 ELSE 0
        /\ \A i \in 1 .. n - 1 + 1 : SubSeq(p, 1, n)[i] = p[1 + i - 1]
    <3> HIDE DEF n
    <3>. QED  BY <1>2, <2>1, SubSeqProperties DEF n
  <2>3. n - 1 + 1 = n /\ \A i \in 1 .. n : 1 + i - 1 = i
    BY <2>1
  <2>. QED  BY <2>1, <2>2, <2>3 DEF Front
<1>. QED  BY <1>1, <1>3, PrefixByParts

\* Paths, the root among them, are sequences of parts.
LEMMA PathsAreSequences ==
    /\ \A p \in Paths : p \in Seq(STRING) /\ p # None
    /\ Root \in Seq(STRING)
BY ArtifactAssumption DEF Paths, None

\* An entry of a directory below the root lies below the root, too, and below
\* its directory, and has one part more.
LEMMA EntryIsBelow ==
    ASSUME NEW d \in Paths, IsStrictPrefix(Root, d), NEW p \in Paths, Front(p) = d
    PROVE  IsPrefix(d, p) /\ IsStrictPrefix(Root, p) /\ Len(p) > Len(d)
<1>1. /\ p \in Seq(STRING) \ {<<>>} /\ d \in Seq(STRING) /\ Root \in Seq(STRING)
  BY PathsAreSequences DEF None
<1>2. Len(p) = Len(d) + 1 /\ IsPrefix(d, p)
  BY <1>1, FrontIsPrefix
<1>3. Len(Root) \in Nat /\ Len(d) \in Nat
  BY <1>1, LenProperties
<1>4. IsPrefix(Root, p)
  BY <1>1, <1>2, PrefixTransitive DEF IsStrictPrefix
<1>5. Len(Root) <= Len(d)
  BY DEF IsStrictPrefix, IsPrefix
<1>. QED  BY <1>2, <1>3, <1>4, <1>5 DEF IsStrictPrefix

-----------------------------------------------------------------------------
(* Type correctness.                                                       *)

LEMMA InitTypeOK == Init => TypeOK
BY DEF Init, TypeOK, Places

\* What a path resolves to may be removed.
LEMMA ResolveType ==
    ASSUME TypeOK
    PROVE  \A p \in Paths : Resolve(p) \in Files \cup Dirs
BY ArtifactAssumption DEF TypeOK, Resolve, Paths

LEMMA NextTypeOK == TypeOK /\ [Next]_vars => TypeOK'
<1> SUFFICES ASSUME TypeOK, [Next]_vars  PROVE TypeOK'
  OBVIOUS
<1> USE DEF TypeOK, Places, treeVars, fixedVars, passVars
<1>1. ASSUME NEW k \in Cleaners, CleanUp(k)  PROVE TypeOK'
  <2>1. CASE CleanupDue(k)  BY <2>1 DEF CleanupDue, At
  <2>2. CASE StartPass(k)
    <3>1. Cutoff \in Int
      BY ArtifactAssumption DEF Cutoff
    <3>. QED  BY <2>2, <3>1 DEF StartPass, At
  <2>3. CASE ListTree(k)
    <3>1. /\ Inside(Existing \cup Links) \subseteq Files \cup Links
          /\ Inside(dirs \cup Links) \subseteq Dirs \cup Links
      BY DEF Inside, Existing
    <3>. QED  BY <2>3, <3>1 DEF ListTree, At
  <2>4. ASSUME NEW p \in files[k], InspectFile(k, p)  PROVE TypeOK'
    <3>1. Resolve(p) \in Files \cup Dirs
      BY ResolveType DEF Paths
    <3>. QED  BY <2>4, <3>1 DEF InspectFile, Check
  <2>5. CASE UnlinkArtifact(k)
    BY <2>5 DEF UnlinkArtifact, Check, Remaining, Disturbed, Gone
  <2>6. ASSUME NEW p \in folders[k], InspectDir(k, p)  PROVE TypeOK'
    <3>1. Resolve(p) \in Files \cup Dirs
      BY ResolveType DEF Paths
    <3>. QED  BY <2>6, <3>1 DEF InspectDir, Check
  <2>7. CASE RemoveDir(k)  BY <2>7 DEF RemoveDir, Check, Disturbed
  <2>8. CASE EndPass(k)  BY <2>8 DEF EndPass, Forget, Check, At
  <2>. QED
    BY <1>1, <2>1, <2>2, <2>3, <2>4, <2>5, <2>6, <2>7, <2>8 DEF CleanUp
<1>2. ASSUME NEW k \in Cleaners, TraversalFails(k)  PROVE TypeOK'
  BY <1>2 DEF TraversalFails, At
<1>3. ASSUME NEW k \in Cleaners, RestartCleaner(k)  PROVE TypeOK'
  BY <1>3 DEF RestartCleaner, Forget, Check, At
<1>4. ASSUME NEW f \in Files, WriteArtifact(f)  PROVE TypeOK'
  BY <1>4 DEF WriteArtifact
<1>5. ASSUME NEW d \in Dirs, MakeDir(d)  PROVE TypeOK'
  BY <1>5 DEF MakeDir
<1>6. CASE Tick  BY <1>6 DEF Tick
<1>7. CASE UNCHANGED vars  BY <1>7 DEF vars
<1>. QED
  BY <1>1, <1>2, <1>3, <1>4, <1>5, <1>6, <1>7 DEF Next, Write

-----------------------------------------------------------------------------
(* What a pass is about to remove.                                         *)

\* A pass keeps what it knows of its listed entries.
LEMMA PassStaysOK ==
    ASSUME TypeOK, PassOK, [Next]_vars
    PROVE  PassOK'
<1> USE DEF TypeOK, PassOK, Places, treeVars, fixedVars, passVars
<1>1. ASSUME NEW k \in Cleaners, CleanUp(k)  PROVE PassOK'
  <2>1. CASE CleanupDue(k)  BY <2>1 DEF CleanupDue, At
  <2>2. CASE StartPass(k)
    BY <2>2, ArtifactAssumption DEF StartPass, At, Cutoff
  <2>3. CASE ListTree(k)  BY <2>3, ArtifactAssumption DEF ListTree, At, None
  <2>4. ASSUME NEW p \in files[k], InspectFile(k, p)  PROVE PassOK'
    <3>1. checked'[k] # None =>
            /\ IsPrefix(Root, checked'[k]) /\ checked'[k] \in Files
            /\ checked'[k] # Root /\ checked'[k] \notin Dirs
      BY <2>4, ArtifactAssumption DEF InspectFile, Check, IsSafe, Existing
    <3>2. None \notin Dirs
      BY ArtifactAssumption DEF None
    <3>. QED  BY <2>4, <3>1, <3>2 DEF InspectFile, Check
  <2>5. CASE UnlinkArtifact(k)
    BY <2>5, ArtifactAssumption
    DEF UnlinkArtifact, Check, Remaining, Disturbed, None
  <2>6. ASSUME NEW p \in folders[k], InspectDir(k, p)  PROVE PassOK'
    <3>1. checked'[k] # None => IsPrefix(Root, checked'[k]) /\ checked'[k] # Root
      BY <2>6 DEF InspectDir, Check, IsSafe
    <3>. QED  BY <2>6, <3>1 DEF InspectDir, Check
  <2>7. CASE RemoveDir(k)
    BY <2>7, ArtifactAssumption DEF RemoveDir, Check, Disturbed, None
  <2>8. CASE EndPass(k)
    BY <2>8, ArtifactAssumption DEF EndPass, Forget, Check, At, None
  <2>. QED
    BY <1>1, <2>1, <2>2, <2>3, <2>4, <2>5, <2>6, <2>7, <2>8 DEF CleanUp
<1>2. ASSUME NEW k \in Cleaners, TraversalFails(k)  PROVE PassOK'
  BY <1>2 DEF TraversalFails, At
<1>3. ASSUME NEW k \in Cleaners, RestartCleaner(k)  PROVE PassOK'
  BY <1>3, ArtifactAssumption DEF RestartCleaner, Forget, Check, At, None
<1>4. ASSUME NEW f \in Files, WriteArtifact(f)  PROVE PassOK'
  BY <1>4 DEF WriteArtifact
<1>5. ASSUME NEW d \in Dirs, MakeDir(d)  PROVE PassOK'
  BY <1>5 DEF MakeDir
<1>6. CASE Tick  BY <1>6, ArtifactAssumption DEF Tick
<1>7. CASE UNCHANGED vars  BY <1>7 DEF vars
<1>. QED
  BY <1>1, <1>2, <1>3, <1>4, <1>5, <1>6, <1>7 DEF Next, Write

\* Between its stat and its unlink a file stays expired, is removed by another
\* pass or is written, and writing it is recorded.
LEMMA CheckedStaysExpired ==
    ASSUME TypeOK, PassOK, CheckedIsExpired, [Next]_vars
    PROVE  CheckedIsExpired'
<1> USE DEF TypeOK, CheckedIsExpired, Existing, treeVars, fixedVars, passVars
<1>0. None \notin Files /\ Files \cap Dirs = {}
  BY ArtifactAssumption DEF None
<1>1. ASSUME NEW k \in Cleaners, CleanUp(k)  PROVE CheckedIsExpired'
  <2>1. CASE CleanupDue(k)  BY <2>1 DEF CleanupDue
  <2>2. CASE StartPass(k)
    <3>1. checked[k] = None
      BY <2>2 DEF StartPass, PassOK
    <3>. QED  BY <1>0, <2>2, <3>1 DEF StartPass
  <2>3. CASE ListTree(k)  BY <2>3 DEF ListTree
  <2>4. ASSUME NEW p \in files[k], InspectFile(k, p)  PROVE CheckedIsExpired'
    BY <1>0, <2>4 DEF InspectFile, Check
  <2>5. CASE UnlinkArtifact(k)
    BY <1>0, <2>5 DEF UnlinkArtifact, Check, Remaining
  <2>6. ASSUME NEW p \in folders[k], InspectDir(k, p)  PROVE CheckedIsExpired'
    <3>1. checked'[k] \notin Files
      BY <1>0, <2>6 DEF InspectDir, Check
    <3>. QED  BY <2>6, <3>1 DEF InspectDir, Check
  <2>7. CASE RemoveDir(k)  BY <1>0, <2>7 DEF RemoveDir, Check
  <2>8. CASE EndPass(k)  BY <1>0, <2>8 DEF EndPass, Forget, Check
  <2>. QED
    BY <1>1, <2>1, <2>2, <2>3, <2>4, <2>5, <2>6, <2>7, <2>8 DEF CleanUp
<1>2. ASSUME NEW k \in Cleaners, TraversalFails(k)  PROVE CheckedIsExpired'
  <2>1. checked[k] = None
    BY <1>2 DEF TraversalFails, PassOK
  <2>. QED  BY <1>0, <1>2, <2>1 DEF TraversalFails
<1>3. ASSUME NEW k \in Cleaners, RestartCleaner(k)  PROVE CheckedIsExpired'
  BY <1>0, <1>3 DEF RestartCleaner, Forget, Check
<1>4. ASSUME NEW f \in Files, WriteArtifact(f)  PROVE CheckedIsExpired'
  BY <1>4 DEF WriteArtifact
<1>5. ASSUME NEW d \in Dirs, MakeDir(d)  PROVE CheckedIsExpired'
  BY <1>5 DEF MakeDir
<1>6. CASE Tick  BY <1>6 DEF Tick
<1>7. CASE UNCHANGED vars  BY <1>7 DEF vars
<1>. QED
  BY <1>1, <1>2, <1>3, <1>4, <1>5, <1>6, <1>7 DEF Next, Write

\* What a step may remove from the tree.
LEMMA Removals ==
    ASSUME TypeOK, [Next]_vars
    PROVE  /\ \A f \in Files : mtime'[f] = Gone /\ mtime[f] # Gone =>
                  \E k \in Cleaners : checked[k] = f
           /\ \A d \in Dirs : d \in dirs /\ d \notin dirs' =>
                  \E k \in Cleaners : checked[k] = d
<1> USE DEF TypeOK, treeVars, fixedVars, passVars
<1>1. ASSUME NEW k \in Cleaners, UnlinkArtifact(k)
      PROVE  /\ dirs' = dirs
             /\ \A f \in Files : f # checked[k] => mtime'[f] = mtime[f]
  BY <1>1 DEF UnlinkArtifact
<1>2. ASSUME NEW k \in Cleaners, RemoveDir(k)
      PROVE  mtime' = mtime /\ dirs \ {checked[k]} \subseteq dirs'
  BY <1>2 DEF RemoveDir
<1>3. ASSUME NEW f \in Files, WriteArtifact(f)
      PROVE  dirs' = dirs /\ \A g \in Files : mtime'[g] = Gone => mtime[g] = Gone
  BY <1>3 DEF WriteArtifact, Gone
<1>4. ASSUME NEW d \in Dirs, MakeDir(d)
      PROVE  mtime' = mtime /\ dirs \subseteq dirs'
  BY <1>4 DEF MakeDir
<1>5. CASE UNCHANGED treeVars
  BY <1>5
<1>. QED
  BY <1>1, <1>2, <1>3, <1>4, <1>5
  DEF Next, Write, CleanUp, CleanupDue, StartPass, ListTree, InspectFile,
      InspectDir, EndPass, TraversalFails, RestartCleaner, Forget, Tick, vars

LEMMA InitCleanupInv == Init => CleanupInv
<1> SUFFICES ASSUME Init  PROVE CleanupInv
  OBVIOUS
<1>1. PassOK
  BY ArtifactAssumption DEF Init, PassOK, None
<1>2. CheckedIsExpired /\ RootAndOutsideStay
  BY ArtifactAssumption
  DEF Init, CheckedIsExpired, RootAndOutsideStay, Existing, None, Gone
<1>. QED  BY <1>1, <1>2, InitTypeOK DEF CleanupInv

LEMMA NextCleanupInv == CleanupInv /\ [Next]_vars => CleanupInv'
<1> SUFFICES ASSUME CleanupInv, [Next]_vars  PROVE CleanupInv'
  OBVIOUS
<1>1. TypeOK' /\ PassOK' /\ CheckedIsExpired'
  BY NextTypeOK, PassStaysOK, CheckedStaysExpired DEF CleanupInv
<1>2. ASSUME NEW k \in Cleaners, checked[k] \in Files \cup Dirs
      PROVE  IsPrefix(Root, checked[k]) /\ IsStrictPrefix(Root, checked[k])
  BY <1>2, ArtifactAssumption DEF CleanupInv, PassOK, IsStrictPrefix, None
<1>3. ASSUME NEW d \in Dirs  PROVE IsStrictPrefix(Root, d) \/ d \in dirs'
  BY <1>2, Removals DEF CleanupInv, RootAndOutsideStay
<1>4. ASSUME NEW f \in Files  PROVE IsPrefix(Root, f) \/ mtime'[f] # Gone
  BY <1>2, Removals DEF CleanupInv, RootAndOutsideStay, Existing
<1>. QED
  BY <1>1, <1>3, <1>4 DEF CleanupInv, RootAndOutsideStay, Existing

-----------------------------------------------------------------------------
\* The invariant of the passes holds in every reachable state.
THEOREM CleanupInvariance == Spec => []CleanupInv
BY InitCleanupInv, NextCleanupInv, PTL DEF Spec

\* Wherever links lead, cleanup removes neither the artifact root nor anything
\* outside of it (_resolve_safe_path).
THEOREM OutsideIsSafe == Spec => []RootAndOutsideStay
<1>1. CleanupInv => RootAndOutsideStay  BY DEF CleanupInv
<1>. QED  BY <1>1, CleanupInvariance, PTL

\* A file disappears only if it was not modified during the retention period,
\* or was written between the stat and the unlink of a pass, however passes,
\* writers and the clock interleave (_cleanup_expired_artifacts).
THEOREM FreshFilesStay == Spec => NothingFreshGoes
<1> DEFINE Step == \A f \in Existing : mtime'[f] = Gone =>
                      \/ mtime[f] <= now - Retention
                      \/ \E k \in rewritten : checked[k] = f
<1>1. CleanupInv /\ [Next]_vars => [Step]_vars
  <2> SUFFICES ASSUME CleanupInv, [Next]_vars,
                      NEW f \in Existing, mtime'[f] = Gone
               PROVE  \/ mtime[f] <= now - Retention
                      \/ \E k \in rewritten : checked[k] = f
    OBVIOUS
  <2>1. f \in Files /\ mtime[f] # Gone
    BY DEF Existing
  <2>2. PICK k \in Cleaners : checked[k] = f
    BY <2>1, Removals DEF CleanupInv
  <2>3. k \in rewritten \/ mtime[f] <= cutoff[k]
    BY <2>2 DEF CleanupInv, CheckedIsExpired
  <2>4. cutoff[k] <= now - Retention
    <3>1. f # None
      BY <2>1, ArtifactAssumption DEF None
    <3>. QED  BY <2>2, <3>1 DEF CleanupInv, PassOK, TypeOK, Places
  <2>5. /\ mtime[f] \in Int /\ cutoff[k] \in Int /\ now \in Int /\ Retention \in Int
    BY <2>1, ArtifactAssumption DEF CleanupInv, TypeOK
  <2>. QED  BY <2>2, <2>3, <2>4, <2>5
<1>. QED  BY <1>1, CleanupInvariance, PTL DEF Spec, NothingFreshGoes

-----------------------------------------------------------------------------
(* A pass that is left alone prunes the tree.                              *)

\* A step that a pass does not notice: the tree and its own place in it stay.
Unnoticed(k) ==
    /\ UNCHANGED <<mtime, dirs, locked>>
    /\ pc'[k] = pc[k] /\ cutoff'[k] = cutoff[k]
    /\ files'[k] = files[k] /\ folders'[k] = folders[k] /\ checked'[k] = checked[k]

\* A pass that is still alone after a step has made the step itself or has not
\* noticed it.
LEMMA AloneSteps ==
    ASSUME TypeOK, [Next]_vars, NEW k \in alone', pc'[k] = "walk"
    PROVE  /\ k \in alone /\ k \in Cleaners
           /\ \/ Unnoticed(k)
              \/ ListTree(k) \/ UnlinkArtifact(k) \/ RemoveDir(k)
              \/ \E p \in files[k] : InspectFile(k, p)
              \/ \E p \in folders[k] : InspectDir(k, p)
<1> USE DEF TypeOK, Unnoticed, treeVars, fixedVars, passVars, At, Check
<1>1. ASSUME NEW j \in Cleaners, CleanUp(j)  PROVE k \in alone /\ (j = k \/ Unnoticed(k))
  <2>1. CASE CleanupDue(j)  BY <2>1 DEF CleanupDue
  <2>2. CASE StartPass(j)  BY <2>2 DEF StartPass
  <2>3. CASE ListTree(j)  BY <2>3 DEF ListTree
  <2>4. ASSUME NEW p \in files[j], InspectFile(j, p)
        PROVE  k \in alone /\ (j = k \/ Unnoticed(k))
    BY <2>4 DEF InspectFile
  <2>5. CASE UnlinkArtifact(j)  BY <2>5 DEF UnlinkArtifact, Disturbed
  <2>6. ASSUME NEW p \in folders[j], InspectDir(j, p)
        PROVE  k \in alone /\ (j = k \/ Unnoticed(k))
    BY <2>6 DEF InspectDir
  <2>7. CASE RemoveDir(j)  BY <2>7 DEF RemoveDir, Disturbed
  <2>8. CASE EndPass(j)  BY <2>8 DEF EndPass, Forget
  <2>. QED
    BY <1>1, <2>1, <2>2, <2>3, <2>4, <2>5, <2>6, <2>7, <2>8 DEF CleanUp
<1>2. ASSUME CleanUp(k), k \in Cleaners
      PROVE  \/ Unnoticed(k)
             \/ ListTree(k) \/ UnlinkArtifact(k) \/ RemoveDir(k)
             \/ \E p \in files[k] : InspectFile(k, p)
             \/ \E p \in folders[k] : InspectDir(k, p)
  BY <1>2 DEF CleanUp, CleanupDue, StartPass, EndPass
<1>3. ASSUME NEW j \in Cleaners, TraversalFails(j) \/ RestartCleaner(j)
      PROVE  k \in alone /\ Unnoticed(k)
  BY <1>3 DEF TraversalFails, RestartCleaner, Forget
<1>4. ~ Write
  BY DEF Write, WriteArtifact, MakeDir
<1>5. ASSUME Tick \/ UNCHANGED vars  PROVE k \in alone /\ Unnoticed(k)
  BY <1>5 DEF Tick, vars
<1>. QED  BY <1>1, <1>2, <1>3, <1>4, <1>5 DEF Next

\* What the pass has noted stays true as long as it does not notice a step.
LEMMA UnnoticedKeeps ==
    ASSUME NEW k, Unnoticed(k), FilesLeft(k), DirsLeft(k), FilesFirst(k), StillEmpty(k)
    PROVE  FilesLeft(k)' /\ DirsLeft(k)' /\ FilesFirst(k)' /\ StillEmpty(k)'
<1> USE DEF Unnoticed
<1>1. /\ Existing' = Existing
      /\ \A S : Inside(S)' = Inside(S)
      /\ \A p : Permitted(p)' = Permitted(p)
  BY DEF Existing, Inside, Permitted
<1>2. (\A d : Stays(d)' = Stays(d)) /\ (\A d : IsEmptyDir(d)' = IsEmptyDir(d))
  BY <1>1 DEF Stays, IsEmptyDir
<1>3. Inside(Existing)' = Inside(Existing) /\ Inside(dirs)' = Inside(dirs)
  BY <1>1 DEF Inside
<1>4. FilesLeft(k)'
  BY <1>1, <1>3 DEF FilesLeft
<1>5. DirsLeft(k)'
  BY <1>2, <1>3 DEF DirsLeft
<1>6. FilesFirst(k)'
  BY <1>3 DEF FilesFirst
<1>7. StillEmpty(k)'
  BY <1>2 DEF StillEmpty
<1>. QED  BY <1>4, <1>5, <1>6, <1>7

\* The listing holds every file and directory below the root.
LEMMA ListTreeLists ==
    ASSUME TypeOK, PassOK, NEW k \in Cleaners, ListTree(k)
    PROVE  FilesLeft(k)' /\ DirsLeft(k)' /\ FilesFirst(k)' /\ StillEmpty(k)'
<1>1. /\ files'[k] = Inside(Existing \cup Links)
      /\ folders'[k] = Inside(dirs \cup Links)
      /\ checked'[k] = None
      /\ UNCHANGED <<mtime, dirs>>
  BY DEF ListTree, TypeOK, PassOK, treeVars
<1>2. Existing' = Existing /\ Inside(Existing)' = Inside(Existing)
      /\ Inside(dirs)' = Inside(dirs)
  BY <1>1 DEF Existing, Inside
<1>3. Inside(Existing) \subseteq files'[k] /\ Inside(dirs) \subseteq folders'[k]
  BY <1>1 DEF Inside
<1>4. None \notin dirs'
  BY <1>1, ArtifactAssumption DEF TypeOK, None
<1>. QED
  BY <1>1, <1>2, <1>3, <1>4 DEF FilesLeft, DirsLeft, FilesFirst, StillEmpty

\* Looking at a file notes it if it is expired; no directory is lost sight of.
LEMMA InspectFileKeeps ==
    ASSUME TypeOK, PassOK, NEW k \in Cleaners, NEW p \in files[k], InspectFile(k, p),
           FilesLeft(k), DirsLeft(k), FilesFirst(k), StillEmpty(k)
    PROVE  FilesLeft(k)' /\ DirsLeft(k)' /\ FilesFirst(k)' /\ StillEmpty(k)'
<1>1. /\ UNCHANGED <<mtime, dirs, target, locked, cutoff, folders>>
      /\ files'[k] = files[k] \ {p}
      /\ checked[k] = None
      /\ checked'[k] = IF /\ Resolve(p) \in Existing /\ IsSafe(p)
                          /\ mtime[Resolve(p)] <= cutoff[k]
                       THEN Resolve(p) ELSE None
  BY DEF InspectFile, Check, TypeOK, treeVars, fixedVars
<1>2. /\ Existing' = Existing /\ Inside(Existing)' = Inside(Existing)
      /\ Inside(dirs)' = Inside(dirs)
      /\ \A q : Permitted(q)' = Permitted(q)
  BY <1>1 DEF Existing, Inside, Permitted
<1>3. None \notin Files \cup Dirs /\ Existing \subseteq Files
  BY ArtifactAssumption DEF None, Existing
<1>4. FilesLeft(k)'
  <2> SUFFICES ASSUME NEW f \in Inside(Existing)
               PROVE  \/ f \in files'[k] \/ checked'[k] = f \/ ~ Permitted(f)
                      \/ mtime[f] > cutoff[k]
    BY <1>1, <1>2 DEF FilesLeft
  <2>1. f \in Existing /\ f \in Files /\ IsPrefix(Root, f)
    BY <1>3 DEF Inside, IsStrictPrefix
  <2>2. CASE f = p
    <3>1. Resolve(p) = p /\ IsSafe(p)
      BY <2>1, <2>2, ArtifactAssumption DEF Resolve, IsSafe
    <3>2. mtime[f] \in Int /\ cutoff[k] \in Int
      BY <2>1 DEF TypeOK
    <3>. QED  BY <1>1, <2>1, <2>2, <3>1, <3>2
  <2>3. CASE f # p
    BY <1>1, <1>3, <2>1, <2>3 DEF FilesLeft
  <2>. QED  BY <2>2, <2>3
<1>5. Inside(dirs) \subseteq folders'[k]
  BY <1>1 DEF FilesFirst
<1>6. StillEmpty(k)'
  <2>1. checked'[k] \notin Dirs
    BY <1>1, <1>3, ArtifactAssumption
  <2>. QED  BY <1>1, <2>1 DEF StillEmpty, TypeOK
<1>. QED  BY <1>2, <1>4, <1>5, <1>6 DEF DirsLeft, FilesFirst

\* The file that was found expired goes, unless its directory is locked.
LEMMA UnlinkKeeps ==
    ASSUME TypeOK, PassOK, NEW k \in Cleaners, UnlinkArtifact(k),
           FilesLeft(k), DirsLeft(k), FilesFirst(k), StillEmpty(k)
    PROVE  FilesLeft(k)' /\ DirsLeft(k)' /\ FilesFirst(k)' /\ StillEmpty(k)'
<1>1. /\ UNCHANGED <<dirs, locked, cutoff, folders>>
      /\ files'[k] = files[k] /\ checked[k] \in Files /\ checked'[k] = None
      /\ IF checked[k] \in Existing /\ Permitted(checked[k])
         THEN mtime' = [mtime EXCEPT ![checked[k]] = Gone]
         ELSE mtime' = mtime
  BY DEF UnlinkArtifact, Check, Remaining, TypeOK, treeVars, fixedVars
<1>2. /\ Existing' \subseteq Existing
      /\ \A f \in Existing' : mtime'[f] = mtime[f]
      /\ checked[k] \in Existing' => ~ Permitted(checked[k])
  BY <1>1 DEF Existing, TypeOK
<1>3. /\ Inside(Existing)' \subseteq Inside(Existing)
      /\ Inside(Existing)' \subseteq Existing'
      /\ Inside(dirs)' = Inside(dirs)
      /\ \A q : Permitted(q)' = Permitted(q)
  BY <1>1, <1>2 DEF Inside, Permitted
<1>4. FilesLeft(k)'
  BY <1>1, <1>2, <1>3 DEF FilesLeft
<1>5. Inside(dirs) \subseteq folders'[k]
  BY <1>1 DEF FilesFirst
<1>6. None \notin dirs'
  BY <1>1, ArtifactAssumption DEF TypeOK, None
<1>. QED  BY <1>1, <1>3, <1>4, <1>5, <1>6 DEF DirsLeft, FilesFirst, StillEmpty

\* The deepest directory that is left is empty or holds something that stays:
\* every directory below it has been looked at.
LEMMA InspectDirKeeps ==
    ASSUME TypeOK, PassOK, NEW k \in Cleaners, NEW p \in folders[k], InspectDir(k, p),
           FilesLeft(k), DirsLeft(k), FilesFirst(k), StillEmpty(k)
    PROVE  FilesLeft(k)' /\ DirsLeft(k)' /\ FilesFirst(k)' /\ StillEmpty(k)'
<1>1. /\ UNCHANGED <<mtime, dirs, target, locked, cutoff, files>>
      /\ folders'[k] = folders[k] \ {p}
      /\ files[k] = {} /\ checked[k] = None /\ IsNext(k, p)
      /\ checked'[k] = IF /\ Resolve(p) \in dirs /\ IsSafe(p) /\ Resolve(p) # Root
                          /\ IsEmptyDir(Resolve(p))
                       THEN Resolve(p) ELSE None
  BY DEF InspectDir, Check, TypeOK, treeVars, fixedVars
<1>2. /\ Existing' = Existing /\ Inside(Existing)' = Inside(Existing)
      /\ Inside(dirs)' = Inside(dirs)
      /\ \A q : Permitted(q)' = Permitted(q)
  BY <1>1 DEF Existing, Inside, Permitted
<1>3. \A d : Stays(d)' = Stays(d) /\ IsEmptyDir(d)' = IsEmptyDir(d)
  BY <1>1, <1>2 DEF Stays, IsEmptyDir
<1>4. None \notin Files \cup Dirs /\ Existing \subseteq Files
      /\ Files \cap Dirs = {}
  BY ArtifactAssumption DEF None, Existing
<1>5. FilesLeft(k)'
  <2>1. \A f \in Inside(Existing) : f # None
    BY <1>4 DEF Inside
  <2>. QED  BY <1>1, <1>2, <2>1 DEF FilesLeft
<1>6. FilesFirst(k)'
  <2>1. checked'[k] \notin Files
    BY <1>1, <1>4 DEF TypeOK
  <2>. QED  BY <1>1, <2>1 DEF FilesFirst
<1>7. StillEmpty(k)'
  BY <1>1, <1>3, <1>4 DEF StillEmpty, TypeOK
<1>8. DirsLeft(k)'
  <2> SUFFICES ASSUME NEW d \in Inside(dirs)
               PROVE  d \in folders'[k] \/ checked'[k] = d \/ Stays(d)
    BY <1>2, <1>3 DEF DirsLeft
  <2>1. d \in dirs /\ d \in Dirs /\ IsStrictPrefix(Root, d) /\ d # None
    BY <1>4 DEF Inside, TypeOK
  <2>2. CASE d # p
    BY <1>1, <2>1, <2>2 DEF DirsLeft
  <2>3. CASE d = p /\ ~ IsEmptyDir(d)
    <3>1. PICK q \in Existing \cup dirs \cup Links : Front(q) = d
      BY <2>3 DEF IsEmptyDir
    <3>2. q \in Paths /\ d \in Paths
      BY <2>1, <3>1 DEF Paths, Existing, TypeOK
    <3>3. IsPrefix(d, q) /\ IsStrictPrefix(Root, q) /\ Len(q) > Len(d)
      BY <2>1, <3>1, <3>2, EntryIsBelow
    <3>4. CASE q \in Existing \cup Links
      BY <3>3, <3>4 DEF Stays
    <3>5. CASE q \in dirs
      <4>1. q \notin folders[k]
        <5>1. Len(q) \in Nat /\ Len(d) \in Nat
          BY <3>2, PathsAreSequences, LenProperties
        <5>. QED  BY <1>1, <2>3, <3>3, <5>1 DEF IsNext
      <4>2. q \in Inside(dirs) /\ q # None
        BY <1>4, <3>3, <3>5 DEF Inside, TypeOK
      <4>3. Stays(q)
        BY <1>1, <4>1, <4>2 DEF DirsLeft
      <4>4. \A u \in Paths : IsPrefix(q, u) => IsPrefix(d, u)
        BY <3>2, <3>3, PathsAreSequences, PrefixTransitive
      <4>5. Existing \cup Links \cup dirs \subseteq Paths
        BY DEF Paths, Existing, TypeOK
      <4>. QED  BY <4>3, <4>4, <4>5 DEF Stays
    <3>. QED  BY <3>1, <3>4, <3>5
  <2>4. CASE d = p /\ IsEmptyDir(d)
    <3>1. Resolve(p) = p /\ IsSafe(p) /\ p # Root
      BY <2>1, <2>4, ArtifactAssumption DEF Resolve, IsSafe, IsStrictPrefix
    <3>. QED  BY <1>1, <2>1, <2>4, <3>1
  <2>. QED  BY <2>2, <2>3, <2>4
<1>. QED  BY <1>5, <1>6, <1>7, <1>8

\* The directory that was found empty still is, and goes unless its parent is
\* locked; what stays in others does not depend on it.
LEMMA RemoveDirKeeps ==
    ASSUME TypeOK, PassOK, NEW k \in Cleaners, RemoveDir(k),
           FilesLeft(k), DirsLeft(k), FilesFirst(k), StillEmpty(k)
    PROVE  FilesLeft(k)' /\ DirsLeft(k)' /\ FilesFirst(k)' /\ StillEmpty(k)'
<1>1. /\ UNCHANGED <<mtime, locked, cutoff, folders, files>>
      /\ checked[k] \in Dirs /\ checked'[k] = None
      /\ IF checked[k] \in dirs /\ IsEmptyDir(checked[k]) /\ Permitted(checked[k])
         THEN dirs' = dirs \ {checked[k]}
         ELSE dirs' = dirs
  BY DEF RemoveDir, Check, TypeOK, treeVars, fixedVars
<1>2. /\ Existing' = Existing /\ Inside(Existing)' = Inside(Existing)
      /\ \A q : Permitted(q)' = Permitted(q)
      /\ Inside(dirs)' = Inside(dirs')
  BY <1>1 DEF Existing, Inside, Permitted
<1>3. /\ None \notin Files \cup Dirs /\ Existing \subseteq Files
      /\ Files \cap Dirs = {} /\ dirs' \subseteq dirs /\ dirs \subseteq Dirs
      /\ files[k] = {}
  BY <1>1, ArtifactAssumption DEF None, Existing, TypeOK, PassOK
<1>4. FilesLeft(k)'
  <2>1. \A f \in Inside(Existing) : f # checked[k]
    BY <1>1, <1>3 DEF Inside
  <2>. QED  BY <1>1, <1>2, <2>1 DEF FilesLeft
<1>5. FilesFirst(k)'
  BY <1>1, <1>3 DEF FilesFirst
<1>6. StillEmpty(k)'
  BY <1>1, <1>3 DEF StillEmpty
<1>7. DirsLeft(k)'
  <2> SUFFICES ASSUME NEW d \in Inside(dirs')
               PROVE  d \in folders[k] \/ Stays(d)'
    BY <1>1, <1>2 DEF DirsLeft
  <2>1. d \in Inside(dirs) /\ d \in dirs' /\ d \in dirs
    BY <1>3 DEF Inside
  <2>2. ASSUME Stays(d)  PROVE Stays(d)'
    <3>1. \A e \in dirs \ dirs' : Permitted(e)
      BY <1>1
    <3>. QED  BY <1>1, <1>2, <2>2, <3>1 DEF Stays
  <2>3. CASE checked[k] = d
    <3>1. IsEmptyDir(d)
      BY <2>1, <2>3 DEF StillEmpty
    <3>2. ~ Permitted(d)
      BY <1>1, <2>1, <2>3, <3>1
    <3>3. IsPrefix(d, d)
      <4>1. d \in Seq(STRING)
        BY <1>3, <2>1, PathsAreSequences DEF Paths
      <4>2. Len(d) \in Nat
        BY <4>1, LenProperties
      <4>. QED  BY <4>1, <4>2, PrefixByParts
    <3>. QED  BY <2>1, <2>2, <3>2, <3>3 DEF Stays
  <2>4. CASE checked[k] # d
    BY <2>1, <2>2, <2>4 DEF DirsLeft
  <2>. QED  BY <2>3, <2>4
<1>. QED  BY <1>4, <1>5, <1>6, <1>7

\* A pass that nobody interferes with sees the tree as it is until it ends.
THEOREM AloneInvariance == Spec => []AloneOK
<1>1. Init => AloneOK
  BY DEF Init, AloneOK
<1>2. CleanupInv /\ AloneOK /\ [Next]_vars => AloneOK'
  <2> SUFFICES ASSUME CleanupInv, AloneOK, [Next]_vars,
                      NEW k \in alone', pc'[k] = "walk"
               PROVE  FilesLeft(k)' /\ DirsLeft(k)' /\ FilesFirst(k)' /\ StillEmpty(k)'
    BY DEF AloneOK
  <2>0. TypeOK /\ PassOK
    BY DEF CleanupInv
  <2>1. /\ k \in alone /\ k \in Cleaners
        /\ \/ Unnoticed(k)
           \/ ListTree(k) \/ UnlinkArtifact(k) \/ RemoveDir(k)
           \/ \E p \in files[k] : InspectFile(k, p)
           \/ \E p \in folders[k] : InspectDir(k, p)
    BY <2>0, AloneSteps
  <2>2. CASE ListTree(k)
    BY <2>0, <2>1, <2>2, ListTreeLists
  <2>3. CASE ~ ListTree(k)
    <3>1. pc[k] = "walk"
      BY <2>0, <2>1, <2>3
      DEF Unnoticed, UnlinkArtifact, RemoveDir, InspectFile, InspectDir
    <3>2. FilesLeft(k) /\ DirsLeft(k) /\ FilesFirst(k) /\ StillEmpty(k)
      BY <2>1, <3>1 DEF AloneOK
    <3>3. CASE Unnoticed(k)  BY <3>2, <3>3, UnnoticedKeeps
    <3>4. CASE UnlinkArtifact(k)  BY <2>0, <2>1, <3>2, <3>4, UnlinkKeeps
    <3>5. CASE RemoveDir(k)  BY <2>0, <2>1, <3>2, <3>5, RemoveDirKeeps
    <3>6. ASSUME NEW p \in files[k], InspectFile(k, p)
          PROVE  FilesLeft(k)' /\ DirsLeft(k)' /\ FilesFirst(k)' /\ StillEmpty(k)'
      BY <2>0, <2>1, <3>2, <3>6, InspectFileKeeps
    <3>7. ASSUME NEW p \in folders[k], InspectDir(k, p)
          PROVE  FilesLeft(k)' /\ DirsLeft(k)' /\ FilesFirst(k)' /\ StillEmpty(k)'
      BY <2>0, <2>1, <3>2, <3>7, InspectDirKeeps
    <3>. QED  BY <2>1, <2>3, <3>3, <3>4, <3>5, <3>6, <3>7
  <2>. QED  BY <2>2, <2>3
<1>. QED  BY <1>1, <1>2, CleanupInvariance, PTL DEF Spec

\* One pass that nobody interferes with is enough, however deep the tree: no
\* expired file that may be deleted and no chain of empty directories is left,
\* because files go first and directories from the leaves up
\* (_cleanup_expired_artifacts).
THEOREM OnePassIsEnough == Spec => []OnePassPrunes
<1>1. CleanupInv /\ AloneOK => OnePassPrunes
  <2> SUFFICES ASSUME CleanupInv, AloneOK, NEW k \in alone, Finished(k)
               PROVE  PrunedTo(cutoff[k])
    BY DEF OnePassPrunes
  <2>1. FilesLeft(k) /\ DirsLeft(k)
    BY DEF AloneOK, Finished
  <2>2. \A p \in Inside(Existing) \cup Inside(dirs) : p # None
    BY ArtifactAssumption DEF Inside, Existing, CleanupInv, TypeOK, None
  <2>. QED  BY <2>1, <2>2 DEF FilesLeft, DirsLeft, Finished, PrunedTo
<1>. QED  BY <1>1, CleanupInvariance, AloneInvariance, PTL
=============================================================================
