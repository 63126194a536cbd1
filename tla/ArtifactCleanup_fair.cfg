\* Two workers clean one tree.
SPECIFICATION FairSpec
CONSTANTS
    Root <- MCRoot
    Files <- MCFiles
    Dirs <- MCDirs
    Links <- MCLinks
    Targets <- MCTargets
    Locked <- MCLocked
    Retention = 1
    MaxTime = 1
    Cleaners = {k1, k2}
INVARIANTS
    RootAndOutsideStay
    OnePassPrunes
PROPERTIES
    NothingFreshGoes
    TreeGetsPruned
