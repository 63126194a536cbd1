\* The engine fails while its segments are read.
SPECIFICATION Spec
CONSTANTS
    Profiles = {"fast"}
    Installations <- MCInstallations
    CacheSize = 12
INVARIANT
    EngineFailuresAreControlled
