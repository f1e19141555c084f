----------------------------- MODULE MCTickGate -----------------------------
(* TLC instance of TickGate: two projects, up to two restarts. *)
EXTENDS TickGate
=============================================================================
