---------------------------- MODULE MCRemoteAgent ----------------------------
(* TLC instances of RemoteAgent: few prompts, and in each scene what is    *)
(* hard to get right together.                                             *)
EXTENDS RemoteAgent

MCScenes == {
    {"special", "abort", "switch", "say"},
    {"local", "abort", "switch", "crash"},
    {"tool", "early", "abort", "crash"},
    {"tool", "plan", "bypass", "switch"},
    {"tool", "say", "crash"}}
=============================================================================
