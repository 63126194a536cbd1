-------------------------- MODULE MCWorkerRuntime --------------------------
(***************************************************************************)
(* Instances of WorkerRuntime for TLC: a complete installation, and some   *)
(* with one thing missing.                                                 *)
(***************************************************************************)
EXTENDS WorkerRuntime

Complete ==
    [ctranslate2 |-> TRUE, fasterWhisper |-> TRUE, torch |-> TRUE,
     pyannote |-> TRUE, modelId |-> TRUE, token |-> TRUE]

MCInstallations ==
    {Complete,
     [Complete EXCEPT !.fasterWhisper = FALSE],
     [Complete EXCEPT !.token = FALSE]}

=============================================================================
