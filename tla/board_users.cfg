CONSTANTS
    g1 = g1
    g2 = g2
    p1 = p1
    Tasks = {g1, g2, p1}
    GoalTasks = {g1, g2}
    InitSource <- MCInitSource
    Rank <- MCRank
    Sessions = {s1, s2}
    NoTask = NoTask
    NoSession = NoSession
    LaneLimit <- MCLaneLimit
    Packets = {"done", "none"}
    UserOps = {"pause", "autoRun", "rename", "delete", "archive", "prompt", "start", "move"}
    Faults = {"die", "spawn", "runner", "partition"}
    MaxRestarts = 1
SPECIFICATION UsersSafety
SYMMETRY MCSymmetry
PROPERTIES
    GateSafety
    LinkHolds
    NoShortcut
    PausedNotStarted
    ArchivedUntouched
