\* The three profiles, three installations, any environment.
SPECIFICATION Spec
CONSTANTS
    Profiles = {"fast", "balanced", "accurate"}
    Installations <- MCInstallations
    CacheSize = 12
INVARIANT
    RunsWhereReported
PROPERTIES
    LoadsModelsOnce
    PreflightPredicts
