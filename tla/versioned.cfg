CONSTANTS
    c1 = c1
    c2 = c2
    u1 = u1
    u2 = u2
    u3 = u3
    e1 = e1
    Clients = {c1, c2}
    Updates = {u1, u2, u3}
    HubEdits = {e1}
    Owner <- MCOwner
    MaxDrops = 1
    MaxErrors = 1
SPECIFICATION Spec
INVARIANTS
    NoLostEdit
    OneAtATime
PROPERTIES
    CopyNeverOlder
    EveryCallEnds
\* The calls and the edits are finitely many: the system stops when all are done.
CHECK_DEADLOCK FALSE
