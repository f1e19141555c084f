CONSTANTS
    g1 = g1
    g2 = g2
    p1 = p1
    Tasks = {g1}
    GoalTasks = {g1}
    InitSource <- MCInitSource
    Rank <- MCRank
    Sessions = {s1, s2}
    NoTask = NoTask
    NoSession = NoSession
    LaneLimit <- MCLaneLimit
    Packets = {"done"}
    UserOps = {}
    Faults = {}
    MaxRestarts = 1
SPECIFICATION Safety
INVARIANTS
    AcceptedByEvaluator
