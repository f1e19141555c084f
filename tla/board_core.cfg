CONSTANTS
    g1 = g1
    g2 = g2
    p1 = p1
    Tasks = {g1, p1}
    GoalTasks = {g1}
    InitSource <- MCInitSource
    Rank <- MCRank
    Sessions = {s1, s2, s3}
    NoTask = NoTask
    NoSession = NoSession
    LaneLimit <- MCLaneLimit
    Packets = {"done", "planning", "blocked", "none"}
    UserOps = {}
    Faults = {"die", "interrupt", "spawn", "mute"}
    MaxRestarts = 0
SPECIFICATION CoreSafety
SYMMETRY MCSymmetry
INVARIANTS
    OneWorker
    AcceptedByEvaluator
    EvaluatorAttemptsBounded
PROPERTIES
    DoneIsFinal
