---------------------------- MODULE ControlBarrier ----------------------------
(***************************************************************************)
(* What the control barrier (aclshmemi_control_barrier_all) promises to the *)
(* host library: a PE that gets OK leaves its barrier after every PE has    *)
(* entered that barrier; a PE may also get an error, which tells it nothing *)
(* about the others.  GroupEngine is shown to implement this, and           *)
(* SymmetricHeap is built on it.                                            *)
(***************************************************************************)
EXTENDS Integers

CONSTANT PEs

VARIABLES
    entered,  \* PE -> how many barriers it has entered
    left,     \* PE -> how many of them it has left again
    result    \* PE -> how the last one ended: "none" | "OK" | "ERROR"

barrierVars == <<entered, left, result>>

BarrierInit ==
    /\ entered = [p \in PEs |-> 0]
    /\ left = [p \in PEs |-> 0]
    /\ result = [p \in PEs |-> "none"]

Outside(p) == left[p] = entered[p]

Enter(p) ==
    /\ Outside(p)
    /\ entered' = [entered EXCEPT ![p] = @ + 1]
    /\ UNCHANGED <<left, result>>

Leave(p, r) ==
    /\ ~Outside(p)
    /\ left' = [left EXCEPT ![p] = entered[p]]
    /\ result' = [result EXCEPT ![p] = r]
    /\ UNCHANGED entered

\* Variant of Pass that lets a PE out as soon as it has entered.
PassAlone(p) == Leave(p, "OK")

Pass(p) == (\A q \in PEs : entered[q] >= entered[p]) /\ Leave(p, "OK")

Fail(p) == Leave(p, "ERROR")

BarrierNext == \E p \in PEs : Enter(p) \/ Pass(p) \/ Fail(p)

BarrierSpec == BarrierInit /\ [][BarrierNext]_barrierVars
=============================================================================
