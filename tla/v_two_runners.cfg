CONSTANTS
    MaxProcs = 3
    MaxTries = 2
    Sessions = {}
    Scenes <- Looks
SPECIFICATION Safety
INVARIANT OneRunner
CHECK_DEADLOCK FALSE
