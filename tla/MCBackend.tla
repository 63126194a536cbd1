----------------------------- MODULE MCBackend -----------------------------
(***************************************************************************)
(* Instances of Backend for TLC.                                           *)
(***************************************************************************)
EXTENDS Backend, TLC

BackendSymmetry == Permutations(Workers) \cup Permutations(Contents) \cup Permutations(Apis)

=============================================================================
