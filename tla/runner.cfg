CONSTANTS
    MaxProcs = 3
    MaxTries = 2
    Sessions = {s1}
    Scenes <- MCScenes
SPECIFICATION FilesSpec
INVARIANTS
    HandedOver
    SuccessIsKnown
    TreeKept
PROPERTIES
    DuplicatesEnd
    RunnersSettle
    SessionsSettle
CHECK_DEADLOCK FALSE
