--------------------------- MODULE MCJobLifecycle ---------------------------
(***************************************************************************)
(* Instances of JobLifecycle for TLC.  Workers are interchangeable, jobs   *)
(* are not: they are claimed in the order of their numbers.                *)
(***************************************************************************)
EXTENDS JobLifecycle, TLC

WorkerSymmetry == Permutations(Workers)

=============================================================================
