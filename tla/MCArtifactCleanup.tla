------------------------- MODULE MCArtifactCleanup -------------------------
(***************************************************************************)
(* Instances of ArtifactCleanup for TLC: artifacts/a/b/f, artifacts/g, a   *)
(* file outside of the root, and a link that leads to either of them, to   *)
(* the root or to a directory.                                             *)
(***************************************************************************)
EXTENDS ArtifactCleanup

MCRoot == <<"artifacts">>
A == <<"artifacts", "a">>
B == <<"artifacts", "a", "b">>
F == <<"artifacts", "a", "b", "f">>
G == <<"artifacts", "g">>
Outside == <<"inputs">>

MCDirs == {MCRoot, A, B}
MCFiles == {F, G, Outside}
MCLinks == {<<"artifacts", "link">>}
MCTargets == {F, A, MCRoot, Outside}
MCLocked == {{}, {B}, {MCRoot}}

=============================================================================
