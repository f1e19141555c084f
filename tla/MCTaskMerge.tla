---------------------------- MODULE MCTaskMerge ----------------------------
(* TLC instances of TaskMerge.  In the first scene the auto-merge is alone *)
(* with everything that may fail; in the others users take part.           *)
EXTENDS TaskMerge

Alone == [clashes |-> 3, restarts |-> 2, requests |-> 0, faults |-> {"die", "error", "unfixed", "timeout"}]
Requests == [clashes |-> 1, restarts |-> 0, requests |-> 1, faults |-> {"error", "timeout"}]
Prompts == [clashes |-> 1, restarts |-> 0, requests |-> 1, faults |-> {"prompt", "timeout"}]
Moves == [clashes |-> 1, restarts |-> 0, requests |-> 0, faults |-> {"prompt", "move", "cancel", "timeout"}]

MCScenes == {Alone, Requests, Prompts, Moves}
=============================================================================
