CONSTANTS
    MaxAttempts = 2
    MaxWork = 2
    Scenes <- MCScenes
SPECIFICATION Spec
INVARIANTS
    RepairsBounded
    KeptUntilLanded
    RuntimeHasRunner
PROPERTIES
    MergedIsLanded
    LoopsEnd
CHECK_DEADLOCK FALSE
