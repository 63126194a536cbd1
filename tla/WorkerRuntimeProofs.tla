------------------------ MODULE WorkerRuntimeProofs ------------------------
(***************************************************************************)
(* Proofs about WorkerRuntime for any profiles, any installation and any   *)
(* sequence of jobs and environments.                                      *)
(***************************************************************************)
EXTENDS WorkerRuntime, FiniteSetTheorems, FunctionTheorems, TLAPS

-----------------------------------------------------------------------------
(* The inductive invariant.                                                *)

\* Every model the process can ever load, on the device of its key.
AllKeys == Profiles \X Resolved
AllModels == {[key |-> key, on |-> key[2]] : key \in AllKeys}

\* The stages that run on the resolved device.
AsrStages == {"asr_model", "transcribe", "segments"}
DiarizationStages == {"pipeline", "place", "diarize"}
Stages == {"idle", "asr_runtime", "diarization_runtime"} \cup AsrStages
              \cup DiarizationStages

\* A stage has resolved the device that the job asked for, a cached model is on
\* the device of its key, and the pipeline is where the stage that uses it is.
RuntimeInv ==
    /\ pc \in Stages
    /\ job.device \in Devices
    /\ pc # "idle" => job.profile \in Profiles
    /\ pc \in AsrStages \cup DiarizationStages =>
        /\ device \in Resolved
        /\ job.device # "auto" => device = job.device
    /\ models \subseteq AllModels
    /\ pc = "diarize" => pipeline = device

\* READY was said in this very environment.
ReadyInv ==
    ready # "none" => AsrIssue(ready) = "none" /\ DiarizationIssue(ready) = "none"

\* What was loaded is still cached.
CacheInv == \A key \in loaded : Cached(key) # {}

-----------------------------------------------------------------------------
\* The device a stage is resolved to is the one asked for, or either for
\* "auto".
LEMMA ResolvedDevice ==
    ASSUME NEW dev \in Devices, NEW gpu
    PROVE  /\ Resolve(dev, gpu) \in Resolved
           /\ dev # "auto" => Resolve(dev, gpu) = dev
BY DEF Resolve, Devices, Resolved

\* A new model is on the device of its key.
LEMMA NewModel ==
    ASSUME NEW p \in Profiles, NEW dev \in Resolved
    PROVE  /\ ModelKey(p, dev) \in AllKeys
           /\ ModelKey(p, dev)[2] = dev
           /\ [key |-> ModelKey(p, dev), on |-> dev] \in AllModels
BY DEF ModelKey, AllKeys, AllModels

\* The cache gains at most the model it was asked for.
LEMMA KeepModels ==
    ASSUME NEW m
    PROVE  Keep(m) \subseteq models \cup {m}
BY DEF Keep

\* The invariant holds at first and every step keeps it.
LEMMA RuntimeInvInductive ==
    /\ Init => RuntimeInv
    /\ RuntimeInv /\ [Next]_vars => RuntimeInv'
<1>1. Init => RuntimeInv
  BY DEF Init, RuntimeInv, NoJob, Devices, Stages, AsrStages, DiarizationStages
<1>2. ASSUME RuntimeInv, [Next]_vars  PROVE RuntimeInv'
  <2> USE <1>2 DEF RuntimeInv, Stages, AsrStages, DiarizationStages
  <2>0. \A code, cause : End(code, cause) /\ models' = models => RuntimeInv'
    BY DEF End, NoJob, Devices
  <2>1. CASE ChangeEnvironment
    BY <2>1 DEF ChangeEnvironment
  <2>2. CASE Preflight
    BY <2>2 DEF Preflight
  <2>3. CASE TakeJob
    BY <2>3 DEF TakeJob
  <2>4. CASE Restart
    BY <2>4 DEF Restart, NoJob, Devices
  <2>5. CASE InspectAsrRuntime
    <3>1. CASE AsrIssue(job.device) = "none"
      BY <2>5, <3>1, ResolvedDevice DEF InspectAsrRuntime, Proceed
    <3>2. CASE AsrIssue(job.device) # "none"
      BY <2>0, <2>5, <3>2 DEF InspectAsrRuntime
    <3>. QED  BY <3>1, <3>2
  <2>6. CASE GetCachedModel
    <3> DEFINE key == ModelKey(job.profile, device)
               new == [key |-> key, on |-> device]
    <3>1. CASE Proceed("transcribe") /\ UNCHANGED <<models, loaded, device, pipeline>>
      BY <2>6, <3>1 DEF GetCachedModel, Proceed
    <3>2. CASE /\ models' = Keep(new)
               /\ Proceed("transcribe") /\ UNCHANGED <<device, pipeline>>
      <4>1. job.profile \in Profiles /\ device \in Resolved
        BY <2>6 DEF GetCachedModel
      <4>2. Keep(new) \subseteq AllModels
        BY <4>1, KeepModels, NewModel
      <4>. QED  BY <2>6, <3>2, <4>2 DEF GetCachedModel, Proceed
    <3>3. CASE End("asr_error", "load") /\ UNCHANGED <<models, loaded, pipeline>>
      BY <2>0, <3>3
    <3>. QED  BY <2>6, <3>1, <3>2, <3>3 DEF GetCachedModel
  <2>7. CASE StartTranscription
    <3>1. CASE Proceed("segments") /\ UNCHANGED device
      BY <2>7, <3>1 DEF StartTranscription, Proceed
    <3>. QED  BY <2>0, <2>7, <3>1 DEF StartTranscription
  <2>8. CASE CollectSegments
    <3>1. CASE Proceed("diarization_runtime")
      BY <2>8, <3>1 DEF CollectSegments, Proceed
    <3>. QED  BY <2>0, <2>8, <3>1 DEF CollectSegments
  <2>9. CASE InspectDiarizationRuntime
    <3>1. CASE DiarizationIssue(job.device) = "none"
      BY <2>9, <3>1, ResolvedDevice DEF InspectDiarizationRuntime, Proceed
    <3>2. CASE DiarizationIssue(job.device) # "none"
      BY <2>0, <2>9, <3>2 DEF InspectDiarizationRuntime
    <3>. QED  BY <3>1, <3>2
  <2>10. CASE GetCachedPipeline
    <3>1. CASE Proceed("place") /\ UNCHANGED device
      BY <2>10, <3>1 DEF GetCachedPipeline, Proceed
    <3>. QED  BY <2>0, <2>10, <3>1 DEF GetCachedPipeline
  <2>11. CASE SendPipelineToDevice
    <3>1. CASE pipeline' = Placed(device) /\ Proceed("diarize") /\ UNCHANGED device
      BY <2>11, <3>1 DEF SendPipelineToDevice, Proceed, Placed
    <3>. QED  BY <2>0, <2>11, <3>1 DEF SendPipelineToDevice
  <2>12. CASE DiarizeAudio
    BY <2>0, <2>12 DEF DiarizeAudio
  <2>13. CASE UNCHANGED vars
    BY <2>13 DEF vars
  <2>. QED
    BY <2>1, <2>2, <2>3, <2>4, <2>5, <2>6, <2>7, <2>8, <2>9, <2>10, <2>11, <2>12,
       <2>13 DEF Next
<1>. QED  BY <1>1, <1>2

\* The state of every stage in every reachable state.
THEOREM RuntimeInvariance == Spec => []RuntimeInv
BY RuntimeInvInductive, PTL DEF Spec

-----------------------------------------------------------------------------
\* A stage runs on the device that it reports and that the job asked for,
\* whatever devices earlier jobs used (_get_cached_model,
\* _send_pipeline_to_device).
THEOREM StagesRunWhereReported == Spec => []RunsWhereReported
<1>1. RuntimeInv => RunsWhereReported
  <2> SUFFICES ASSUME RuntimeInv  PROVE RunsWhereReported
    OBVIOUS
  <2>1. ASSUME pc \in {"transcribe", "segments"},
               NEW m \in Cached(ModelKey(job.profile, device))
        PROVE  m.on = device
    <3>1. m \in AllModels /\ m.key = ModelKey(job.profile, device)
      BY DEF RuntimeInv, Cached
    <3>2. m.on = m.key[2]
      BY <3>1 DEF AllModels
    <3>. QED  BY <3>1, <3>2 DEF ModelKey
  <2>. QED
    BY <2>1 DEF RunsWhereReported, RuntimeInv, AsrStages, DiarizationStages
<1>. QED  BY <1>1, RuntimeInvariance, PTL

-----------------------------------------------------------------------------
(* Preflight.                                                              *)

\* What a READY preflight said stays true while the environment stays.
LEMMA ReadyInvInductive ==
    /\ Init => ReadyInv
    /\ ReadyInv /\ [Next]_vars => ReadyInv'
<1>1. Init => ReadyInv
  BY DEF Init, ReadyInv
<1>2. ASSUME ReadyInv, [Next]_vars  PROVE ReadyInv'
  <2>1. CASE ChangeEnvironment
    BY <2>1 DEF ChangeEnvironment, ReadyInv
  <2>2. CASE UNCHANGED <<installed, env>>
    <3>1. \A dev : /\ AsrIssue(dev)' = AsrIssue(dev)
                   /\ DiarizationIssue(dev)' = DiarizationIssue(dev)
      BY <2>2 DEF AsrIssue, DiarizationIssue
    <3>2. CASE Preflight
      BY <3>1, <3>2 DEF Preflight, WorkerReady, ReadyInv
    <3>3. CASE ready' = ready
      BY <1>2, <3>1, <3>3 DEF ReadyInv
    <3>. QED
      BY <1>2, <2>1, <3>2, <3>3
      DEF Next, ChangeEnvironment, TakeJob, Restart, InspectAsrRuntime,
          GetCachedModel, StartTranscription, CollectSegments,
          InspectDiarizationRuntime, GetCachedPipeline, SendPipelineToDevice,
          DiarizeAudio, Proceed, End, vars
  <2>. QED
    BY <1>2, <2>1, <2>2
    DEF Next, Preflight, TakeJob, Restart, InspectAsrRuntime, GetCachedModel,
        StartTranscription, CollectSegments, InspectDiarizationRuntime,
        GetCachedPipeline, SendPipelineToDevice, DiarizeAudio, Proceed, End, vars
<1>. QED  BY <1>1, <1>2

\* As long as nothing changes after a READY preflight, no stage refuses a job
\* of that device: preflight and the adapters apply the same checks
\* (inspect_worker_runtime, inspect_asr_runtime, inspect_diarization_runtime).
THEOREM ReadyPredicts == Spec => PreflightPredicts
<1> DEFINE Step == outcome.cause # "refused" /\ outcome'.cause = "refused"
                      => ready # job.device
<1>1. RuntimeInv /\ ReadyInv /\ [Next]_vars => [Step]_vars
  <2> SUFFICES ASSUME RuntimeInv, ReadyInv, [Next]_vars,
                      outcome.cause # "refused", outcome'.cause = "refused",
                      ready = job.device
               PROVE  FALSE
    OBVIOUS
  <2>1. AsrIssue(job.device) = "none" /\ DiarizationIssue(job.device) = "none"
    BY DEF RuntimeInv, ReadyInv, Devices
  <2>2. InspectAsrRuntime \/ InspectDiarizationRuntime
    BY DEF Next, ChangeEnvironment, Preflight, TakeJob, Restart, GetCachedModel,
           StartTranscription, CollectSegments, GetCachedPipeline,
           SendPipelineToDevice, DiarizeAudio, Proceed, End, NoOutcome, vars
  <2>. QED
    BY <2>1, <2>2 DEF InspectAsrRuntime, InspectDiarizationRuntime, Proceed
<1>. QED
  BY <1>1, RuntimeInvariance, ReadyInvInductive, PTL DEF Spec, PreflightPredicts

-----------------------------------------------------------------------------
(* The cache.                                                              *)

\* No more models than keys.
LEMMA FewModels ==
    ASSUME IsFiniteSet(Profiles)
    PROVE  /\ IsFiniteSet(AllModels)
           /\ Cardinality(AllModels) <= 2 * Cardinality(Profiles)
<1>1. IsFiniteSet(Resolved) /\ Cardinality(Resolved) = 2
  <2>1. IsFiniteSet({"cpu"}) /\ Cardinality({"cpu"}) = 1
    BY FS_Singleton
  <2>2. Resolved = {"cpu"} \cup {"cuda"} /\ "cuda" \notin {"cpu"}
    BY DEF Resolved
  <2>. QED  BY <2>1, <2>2, FS_AddElement
<1>2. /\ IsFiniteSet(AllKeys)
      /\ Cardinality(AllKeys) = Cardinality(Profiles) * Cardinality(Resolved)
  BY <1>1, FS_Product DEF AllKeys
<1> DEFINE f == [key \in AllKeys |-> [key |-> key, on |-> key[2]]]
<1>3. f \in Surjection(AllKeys, AllModels)
  BY DEF Surjection, AllModels
<1>4. IsFiniteSet(AllModels) /\ Cardinality(AllModels) <= Cardinality(AllKeys)
  BY <1>2, <1>3, FS_Surjection
<1>5. Cardinality(Profiles) \in Nat
  BY FS_CardinalityType
<1>. QED  BY <1>1, <1>2, <1>4, <1>5

\* A cache with room for every model drops none.
LEMMA CacheHasRoom ==
    ASSUME IsFiniteSet(Profiles), CacheSize >= 2 * Cardinality(Profiles),
           models \subseteq AllModels, NEW m \in AllModels, m \notin models
    PROVE  Keep(m) = models \cup {m}
<1>1. /\ IsFiniteSet(AllModels)
      /\ Cardinality(AllModels) <= 2 * Cardinality(Profiles)
  BY FewModels
<1>2. /\ IsFiniteSet(models) /\ Cardinality(models) <= Cardinality(AllModels)
      /\ Cardinality(models) # Cardinality(AllModels)
  BY <1>1, FS_Subset
<1>3. /\ Cardinality(models) \in Nat /\ Cardinality(AllModels) \in Nat
      /\ Cardinality(Profiles) \in Nat /\ CacheSize \in Nat
  BY <1>1, <1>2, FS_CardinalityType, RuntimeAssumption
<1>4. Cardinality(models) < CacheSize
  BY <1>1, <1>2, <1>3
<1>. QED  BY <1>4 DEF Keep

\* What a step may do to the cache, if it has room for every model.
LEMMA CacheSteps ==
    ASSUME IsFiniteSet(Profiles), CacheSize >= 2 * Cardinality(Profiles),
           RuntimeInv, [Next]_vars
    PROVE  \/ UNCHANGED <<models, loaded>>
           \/ models' = {} /\ loaded' = {}
           \/ \E m \in AllModels : /\ Cached(m.key) = {}
                                   /\ models' = models \cup {m}
                                   /\ loaded' = loaded \cup {m.key}
<1>1. CASE GetCachedModel
  <2> DEFINE key == ModelKey(job.profile, device)
             new == [key |-> key, on |-> device]
  <2>1. CASE UNCHANGED <<models, loaded>>
    BY <2>1
  <2>2. CASE Cached(key) = {} /\ models' = Keep(new) /\ loaded' = loaded \cup {key}
    <3>1. job.profile \in Profiles /\ device \in Resolved
      BY <1>1 DEF GetCachedModel, RuntimeInv, AsrStages
    <3>2. new \in AllModels /\ new.key = key
      BY <3>1, NewModel
    <3>3. new \notin models
      BY <2>2 DEF Cached
    <3>4. Keep(new) = models \cup {new}
      BY <3>2, <3>3, CacheHasRoom DEF RuntimeInv
    <3>. QED  BY <2>2, <3>2, <3>4
  <2>. QED  BY <1>1, <2>1, <2>2 DEF GetCachedModel
<1>2. CASE Restart
  BY <1>2 DEF Restart
<1>. QED
  BY <1>1, <1>2
  DEF Next, ChangeEnvironment, Preflight, TakeJob, InspectAsrRuntime,
      StartTranscription, CollectSegments, InspectDiarizationRuntime,
      GetCachedPipeline, SendPipelineToDevice, DiarizeAudio, vars

\* A process loads each model at most once if the cache has room for every
\* profile on every device: lru_cache(maxsize=12) and three profiles
\* (_get_cached_model).
THEOREM ModelsAreLoadedOnce ==
    ASSUME IsFiniteSet(Profiles), CacheSize >= 2 * Cardinality(Profiles)
    PROVE  Spec => LoadsModelsOnce
<1> DEFINE Step == \A m \in models' \ models : m.key \notin loaded
<1>1. Init => CacheInv
  BY DEF Init, CacheInv
<1>2. RuntimeInv /\ CacheInv /\ [Next]_vars => CacheInv' /\ [Step]_vars
  <2> SUFFICES ASSUME RuntimeInv, CacheInv, [Next]_vars
               PROVE  CacheInv' /\ Step
    OBVIOUS
  <2> USE DEF CacheInv, Cached
  <2>1. CASE UNCHANGED <<models, loaded>>
    BY <2>1
  <2>2. CASE models' = {} /\ loaded' = {}
    BY <2>2
  <2>3. ASSUME NEW m \in AllModels, Cached(m.key) = {},
               models' = models \cup {m}, loaded' = loaded \cup {m.key}
        PROVE  CacheInv' /\ Step
    BY <2>3
  <2>. QED  BY <2>1, <2>2, <2>3, CacheSteps
<1>. QED
  BY <1>1, <1>2, RuntimeInvariance, PTL DEF Spec, LoadsModelsOnce
=============================================================================
