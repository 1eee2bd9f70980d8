-------------------------- MODULE MCEventDelivery ---------------------------
(***************************************************************************)
(* Model of EventDelivery for TLC: one event, two dispatchers, two         *)
(* deliveries in parallel.                                                 *)
(***************************************************************************)
EXTENDS EventDelivery, TLC

CONSTANTS e1, k1, w1, w2, c1, c2

MCEvents == {e1}
MCKeys == {k1}
MCKeyOf == (e1 :> k1)
MCWorkers == {w1, w2}
MCCalls == {c1, c2}

Symmetry == Permutations(MCWorkers) \cup Permutations(MCCalls)
=============================================================================
