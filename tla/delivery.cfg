CONSTANTS
    Limit = 2
    MaxMessages = 5
    MaxResends = 1
    MaxDrops = 2
    MaxFailures = 1
SPECIFICATION Spec
INVARIANTS
    TypeOK
    InOrder
PROPERTIES
    JumpsExplained
    EveryMessageArrives
\* The messages are finitely many: the system stops when all is delivered.
CHECK_DEADLOCK FALSE
