--------------------------- MODULE MCEdmsWorkflow ---------------------------
(***************************************************************************)
(* Model of EdmsWorkflow for TLC: a review, a step the document skips, and *)
(* an approval that may reject the document or return it.                  *)
(***************************************************************************)
EXTENDS EdmsWorkflow, TLC

CONSTANTS i1, i2, r1, r2, r3, r4, c1, c2

MCSteps == {1, 2, 3}
MCTypeOf == <<"review", "signing", "approval">>
MCSkips == {2}
MCThreshold == <<0, 0, 0>>
MCReturnTo == <<1, 1, 2>>

Symmetry == Permutations({i1, i2}) \cup Permutations({r1, r2, r3, r4}) \cup Permutations({c1, c2})
=============================================================================
