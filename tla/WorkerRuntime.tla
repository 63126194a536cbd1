--------------------------- MODULE WorkerRuntime ---------------------------
(***************************************************************************)
(* The runtime of one worker process: readiness checks shared by preflight *)
(* and both adapters (src/app/worker/runtime_checks.py), resolution of the *)
(* requested device, the models the process keeps between jobs (src/app/   *)
(* worker/asr.py, diarization.py), and how every failure of an adapter is  *)
(* classified.                                                             *)
(*                                                                         *)
(* Jobs ask for different devices one after the other; the GPU, and the    *)
(* access to the diarization model, come and go between any two steps.     *)
(***************************************************************************)
EXTENDS Integers, FiniteSets

CONSTANTS
    Profiles,       \* processing profiles; each names one ASR model
    Installations,  \* what is installed and configured (fixed for a process)
    CacheSize       \* maxsize of the cache of ASR models

Devices == {"auto", "cpu", "cuda"}          \* SUPPORTED_DEVICE_PREFERENCES
Resolved == {"cpu", "cuda"}
GpuStates == {"none", "some", "error"}

\* ctranslate2 and faster-whisper, torch and pyannote.audio can be imported;
\* DIARIZATION_MODEL_ID and HUGGINGFACE_TOKEN are set.
InstallationType ==
    [ctranslate2 : BOOLEAN, fasterWhisper : BOOLEAN, torch : BOOLEAN,
     pyannote : BOOLEAN, modelId : BOOLEAN, token : BOOLEAN]

ASSUME RuntimeAssumption ==
    /\ Installations \subseteq InstallationType
    /\ CacheSize \in Nat \ {0}

VARIABLES
    installed,  \* an installation
    env,        \* what ctranslate2, torch and the model hub report right now
    models,     \* cached ASR models, with the device each was loaded on
    loaded,     \* keys this process has ever loaded (history)
    pipeline,   \* where the cached diarization pipeline is, "none" without one
    job,        \* device and profile of the job being processed
    pc,         \* where the worker is with it
    device,     \* resolved device of the running stage: what it reports
    outcome,    \* how the last job ended, and why
    ready       \* device preflight found READY in this very environment

vars == <<installed, env, models, loaded, pipeline, job, pc, device, outcome, ready>>

Environments == [asrGpu : GpuStates, torchGpu : GpuStates, access : BOOLEAN]

Outcomes == {"completed", "degraded", "asr_error", "processing_error"}
NoOutcome == [code |-> "none", cause |-> "none"]
NoJob == [device |-> "cpu", profile |-> "none"]

-----------------------------------------------------------------------------
(* Bugs that the properties below would catch.                             *)

\* A cached pipeline stays where it was.
Placed_OnlyIfNew(dev) == IF pipeline = "new" THEN dev ELSE pipeline

\* The cache holds one model.
Keep_One(m) == {m}

\* Preflight checks the ASR runtime only.
WorkerReady_AsrOnly(asr, diarization) == asr = "none"

-----------------------------------------------------------------------------
(* Readiness checks: the first check that fails is the issue reported.     *)

FirstIssue(checks) ==
    LET failing == {k \in DOMAIN checks : checks[k][1]}
    IN  IF failing = {} THEN "none"
        ELSE checks[CHOOSE k \in failing : \A m \in failing : k <= m][2]

\* inspect_asr_runtime
AsrIssue(dev) == FirstIssue(<<
    <<dev \notin Devices, "runtime_error">>,
    <<~ installed.ctranslate2, "dependency_missing">>,
    <<~ installed.fasterWhisper, "dependency_missing">>,
    <<dev # "cpu" /\ env.asrGpu = "error", "runtime_error">>,
    <<dev = "cuda" /\ env.asrGpu = "none", "cuda_unavailable">> >>)

\* inspect_diarization_runtime
DiarizationIssue(dev) == FirstIssue(<<
    <<dev \notin Devices, "runtime_error">>,
    <<~ installed.torch, "dependency_missing">>,
    <<~ installed.pyannote, "dependency_missing">>,
    <<~ installed.modelId, "config_missing">>,
    <<~ installed.token, "config_missing">>,
    <<~ env.access, "runtime_error">>,
    <<dev # "cpu" /\ env.torchGpu = "error", "runtime_error">>,
    <<dev = "cuda" /\ env.torchGpu = "none", "cuda_unavailable">> >>)

\* The device a stage that is ready runs on.
Resolve(dev, gpu) ==
    IF dev \in Resolved THEN dev ELSE IF gpu = "some" THEN "cuda" ELSE "cpu"

\* inspect_worker_runtime
WorkerReady(asr, diarization) == asr = "none" /\ diarization = "none"

-----------------------------------------------------------------------------
(* The models a process keeps.                                             *)

\* Key of _get_cached_model; the compute type follows from the device.
ModelKey(profile, dev) == <<profile, dev>>

Cached(key) == {m \in models : m.key = key}

\* A full cache drops some model for the new one.
Keep(m) ==
    IF Cardinality(models) < CacheSize THEN models \cup {m}
    ELSE {m} \cup (models \ {CHOOSE x \in models : TRUE})

\* pipeline.to(device), for every job, whether the pipeline is new or cached.
Placed(dev) == dev

-----------------------------------------------------------------------------
Init ==
    /\ installed \in Installations
    /\ env \in Environments
    /\ models = {}
    /\ loaded = {}
    /\ pipeline = "none"
    /\ job = NoJob
    /\ pc = "idle"
    /\ device = "none"
    /\ outcome = NoOutcome
    /\ ready = "none"

ChangeEnvironment ==
    /\ env' \in Environments \ {env}
    /\ ready' = "none"
    /\ UNCHANGED <<installed, models, loaded, pipeline, job, pc, device, outcome>>

\* python -m app.worker.main --preflight, with the device of the command line
\* or of the settings, which nothing has validated.
Preflight ==
    /\ \E dev \in Devices \cup {"unsupported"} :
        ready' = IF WorkerReady(AsrIssue(dev), DiarizationIssue(dev)) THEN dev ELSE "none"
    /\ UNCHANGED <<installed, env, models, loaded, pipeline, job, pc, device, outcome>>

\* The next job; upload_job admits supported devices and profiles only.
TakeJob ==
    /\ pc = "idle"
    /\ \E dev \in Devices, p \in Profiles : job' = [device |-> dev, profile |-> p]
    /\ pc' = "asr_runtime"
    /\ outcome' = NoOutcome
    /\ UNCHANGED <<installed, env, models, loaded, pipeline, device, ready>>

End(code, cause) ==
    /\ pc' = "idle"
    /\ job' = NoJob
    /\ device' = "none"
    /\ outcome' = [code |-> code, cause |-> cause]
    /\ UNCHANGED <<installed, env, ready>>

Proceed(next) ==
    /\ pc' = next
    /\ UNCHANGED <<installed, env, job, outcome, ready>>

-----------------------------------------------------------------------------
(* transcribe_audio.                                                       *)

InspectAsrRuntime ==
    /\ pc = "asr_runtime"
    /\ IF AsrIssue(job.device) = "none"
       THEN Proceed("asr_model") /\ device' = Resolve(job.device, env.asrGpu)
       ELSE End("asr_error", "refused")
    /\ UNCHANGED <<models, loaded, pipeline>>

\* _get_cached_model.  A failed load is not cached.
GetCachedModel ==
    LET key == ModelKey(job.profile, device)
    IN  /\ pc = "asr_model"
        /\ \/ /\ Cached(key) # {}
              /\ Proceed("transcribe")
              /\ UNCHANGED <<models, loaded, device>>
           \/ /\ Cached(key) = {}
              /\ models' = Keep([key |-> key, on |-> device])
              /\ loaded' = loaded \cup {key}
              /\ Proceed("transcribe")
              /\ UNCHANGED device
           \/ /\ Cached(key) = {}
              /\ End("asr_error", "load")
              /\ UNCHANGED <<models, loaded>>
        /\ UNCHANGED pipeline

\* model.transcribe decodes the audio and returns a generator ...
StartTranscription ==
    /\ pc = "transcribe"
    /\ \/ Proceed("segments") /\ UNCHANGED device
       \/ End("asr_error", "engine")
    /\ UNCHANGED <<models, loaded, pipeline>>

\* ... that transcribes while it is iterated, outside the try statement.
CollectSegments ==
    /\ pc = "segments"
    /\ \/ Proceed("diarization_runtime") /\ device' = "none"
       \/ End("processing_error", "engine")
    /\ UNCHANGED <<models, loaded, pipeline>>

-----------------------------------------------------------------------------
(* diarize_audio.  DiarizationExecutionError degrades the result.          *)

InspectDiarizationRuntime ==
    /\ pc = "diarization_runtime"
    /\ IF DiarizationIssue(job.device) = "none"
       THEN Proceed("pipeline") /\ device' = Resolve(job.device, env.torchGpu)
       ELSE End("degraded", "refused")
    /\ UNCHANGED <<models, loaded, pipeline>>

\* _get_cached_pipeline
GetCachedPipeline ==
    /\ pc = "pipeline"
    /\ \/ /\ pipeline # "none"
          /\ Proceed("place")
          /\ UNCHANGED <<pipeline, device>>
       \/ /\ pipeline = "none"
          /\ pipeline' = "new"
          /\ Proceed("place")
          /\ UNCHANGED device
       \/ /\ pipeline = "none"
          /\ End("degraded", "load")
          /\ UNCHANGED pipeline
    /\ UNCHANGED <<models, loaded>>

\* _send_pipeline_to_device.  A move that fails may have moved some parts.
SendPipelineToDevice ==
    /\ pc = "place"
    /\ \/ pipeline' = Placed(device) /\ Proceed("diarize") /\ UNCHANGED device
       \/ pipeline' \in {pipeline, "mixed"} /\ End("degraded", "device")
    /\ UNCHANGED <<models, loaded>>

\* _load_audio_input, the pipeline itself, and the reading of its tracks,
\* which is lazy too.
DiarizeAudio ==
    /\ pc = "diarize"
    /\ \/ End("completed", "none")
       \/ End("degraded", "engine")
       \/ End("processing_error", "engine")
    /\ UNCHANGED <<models, loaded, pipeline>>

\* The process dies, and the next one starts with nothing cached.
Restart ==
    /\ models' = {}
    /\ loaded' = {}
    /\ pipeline' = "none"
    /\ job' = NoJob
    /\ pc' = "idle"
    /\ device' = "none"
    /\ outcome' = NoOutcome
    /\ UNCHANGED <<installed, env, ready>>

Next ==
    \/ ChangeEnvironment \/ Preflight \/ TakeJob \/ Restart
    \/ InspectAsrRuntime \/ GetCachedModel \/ StartTranscription \/ CollectSegments
    \/ InspectDiarizationRuntime \/ GetCachedPipeline \/ SendPipelineToDevice
    \/ DiarizeAudio

Spec == Init /\ [][Next]_vars

-----------------------------------------------------------------------------
\* Whatever device earlier jobs left a cached model or the pipeline on, a
\* stage runs on the device it reports in the metadata of the result, and on
\* the device the job asked for when it asked for one (_get_cached_model,
\* _send_pipeline_to_device).
RunsWhereReported ==
    /\ pc \in {"transcribe", "segments"} =>
        /\ \A m \in Cached(ModelKey(job.profile, device)) : m.on = device
        /\ job.device # "auto" => device = job.device
    /\ pc = "diarize" =>
        /\ pipeline = device
        /\ job.device # "auto" => device = job.device

\* A process loads each model at most once: the cache never has to drop one
\* (lru_cache(maxsize=12) against the combinations of profile and device).
LoadsModelsOnce ==
    [][\A m \in models' \ models : m.key \notin loaded]_vars

\* A READY preflight predicts: as long as nothing changes, neither stage
\* refuses a job of that device (ARCHITECTURE.md: "runtime readiness is shared
\* with the preflight path").
PreflightPredicts ==
    [][outcome.cause # "refused" /\ outcome'.cause = "refused"
        => ready # job.device]_vars

\* "Model runtime failures should surface as the adapter's controlled error"
\* (tests/test_worker_asr.py): a failing engine is an asr_error, or degrades
\* the result.  The code does not keep this.
EngineFailuresAreControlled ==
    outcome.cause = "engine" => outcome.code # "processing_error"

=============================================================================
