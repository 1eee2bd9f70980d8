-------------------------- MODULE MCEdmsDocuments ---------------------------
(***************************************************************************)
(* Model of EdmsDocuments for TLC: two documents of one series and two     *)
(* calls at a time.                                                        *)
(***************************************************************************)
EXTENDS EdmsDocuments, TLC

CONSTANTS d1, d2, s1, c1, c2

MCDocs == {d1, d2}
MCSeries == {s1}
MCSeriesOf == (d1 :> s1 @@ d2 :> s1)
MCCalls == {c1, c2}

Symmetry == Permutations(MCCalls) \cup Permutations({d1, d2})
=============================================================================
