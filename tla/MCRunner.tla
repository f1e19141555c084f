------------------------------ MODULE MCRunner ------------------------------
(* TLC instances of Runner: the files with up to three runner processes,   *)
(* and a session with as many.  Two runners start side by side only in the *)
(* scenes with "again"; one command at a time looks for a runner in all.   *)
EXTENDS Runner

MCScenes == {
    {"again", "stop"},
    {"stop"},
    {"again", "crash"},
    {"upgrade", "stop"},
    {"upgrade", "fail", "crash"},
    {"spawn", "kill", "worktree", "crash"},
    {"spawn", "kill", "external", "upgrade"}}

(* The largest scenes have one runner process less. *)
Large == "spawn" \in scene \/ {"again", "stop"} \subseteq scene

FilesInit == Init /\ (Large <=> proc[MaxProcs].pc = "gone")

FilesSpec == FilesInit /\ [][Next]_vars /\ Fairness

(* One start at a time, and the command that looks for what it started. *)
Looks == {{"crash"}}
=============================================================================
