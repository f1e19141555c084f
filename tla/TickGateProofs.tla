--------------------------- MODULE TickGateProofs ---------------------------
(* The tick discipline of TickGate, for every set of projects and every    *)
(* number of restarts.                                                     *)
EXTENDS TickGate, TLAPS

(* The discipline is inductive: each of its parts needs the others, e.g.   *)
(* FinishTick keeps NoLostRequest only because a pending project runs, and *)
(* StartTick keeps it only because no timer is armed for a running one.    *)
LEMMA TickDiscipline == Safety => []Inv
<1>1. Init => Inv
  BY RestartsAssumption
     DEF Init, Inv, TypeOK, NoSwallowedTick, PendingWhileRunning, NoLostRequest
<1>2. Inv /\ [Next]_vars => Inv'
  <2> SUFFICES ASSUME Inv, [Next]_vars PROVE Inv'
    OBVIOUS
  <2> USE RestartsAssumption
          DEF Inv, TypeOK, NoSwallowedTick, PendingWhileRunning, NoLostRequest
  <2>1. CASE \E p \in Projects : Request(p)
    BY <2>1 DEF Request, Arm
  <2>2. CASE RequestKnown
    BY <2>2 DEF RequestKnown, Arm
  <2>3. CASE \E p \in Projects : StartTick(p)
    BY <2>3 DEF StartTick
  <2>4. CASE \E p \in Projects : FinishTick(p)
    BY <2>4 DEF FinishTick
  <2>5. CASE \E p \in Projects : Archive(p)
    BY <2>5 DEF Archive, Arm
  <2>6. CASE Restart
    BY <2>6 DEF Restart
  <2>7. CASE UNCHANGED vars
    BY <2>7 DEF vars
  <2>8. QED
    BY <2>1, <2>2, <2>3, <2>4, <2>5, <2>6, <2>7 DEF Next
<1>3. QED
  BY <1>1, <1>2, PTL DEF Safety

(* Every variable keeps its type: the maps only ever hold projects. *)
THEOREM TickTypeCorrect == Spec => []TypeOK
BY TickDiscipline, PTL DEF Spec, Inv

(* No requested tick is ever lost between two turns of the hub, whatever   *)
(* the interleaving of requests, ticks, archiving and restarts.            *)
THEOREM TickNoLostRequest == Spec => []NoLostRequest
BY TickDiscipline, PTL DEF Spec, Inv

(* A request is remembered only for the tick that will re-arm it: no mark  *)
(* outlives its tick, so tickProject's finally block finds every one.      *)
THEOREM TickPendingWhileRunning == Spec => []PendingWhileRunning
BY TickDiscipline, PTL DEF Spec, Inv

(* The early return of tickProject is dead code. *)
THEOREM TickNeverSwallowed == Spec => []NoSwallowedTick
BY TickDiscipline, PTL DEF Spec, Inv
=============================================================================
