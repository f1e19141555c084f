CONSTANTS
    Models = {"opus", "sonnet"}
    MaxPrompts = 2
    MaxCalls = 2
    Scenes <- MCScenes
SPECIFICATION Spec
INVARIANTS
    PromptsAccounted
    ModeOfProcess
    TurnReported
    ShownIsAsked
PROPERTIES
    TakenInOrder
    NothingStuck
CHECK_DEADLOCK FALSE
