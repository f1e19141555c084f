CONSTANTS
    g1 = g1
    g2 = g2
    p1 = p1
    Tasks = {g1, g2}
    GoalTasks = {g1, g2}
    InitSource <- MCInitSource
    Rank <- MCRank
    Sessions = {s1, s2, s3}
    NoTask = NoTask
    NoSession = NoSession
    LaneLimit <- MCLaneLimit
    Packets = {"done", "planning", "blocked", "none"}
    UserOps = {}
    Faults = {"spawn", "mute"}
    MaxRestarts = 0
SPECIFICATION SettleSpec
PROPERTIES
    GoalTasksSettle
