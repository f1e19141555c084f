---------------------------- MODULE MCTaskBoard -----------------------------
(* TLC instances of TaskBoard.  g1 and g2 are tasks of the goal, p1 is a   *)
(* plain task; each configuration chooses which of them exist.             *)
EXTENDS TaskBoard, TLC

CONSTANTS g1, g2, p1

MCInitSource == [t \in Tasks |-> "manual"]
MCRank == [t \in Tasks |-> IF t = g1 THEN 1 ELSE IF t = g2 THEN 2 ELSE 3]
MCLaneLimit == [l \in Lanes |-> 1]

MCSymmetry == Permutations(Sessions)
=============================================================================
