CONSTANTS
    Projects = {p1, p2}
    MaxRestarts = 2
SPECIFICATION Spec
INVARIANTS
    NoLostRequest
PROPERTIES
    EveryRequestServed
