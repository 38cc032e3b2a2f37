------------------------------ MODULE MCCutMap ------------------------------
(***************************************************************************)
(* CutMap on three endpoints, from the start of cutting (one or two blocks *)
(* in the first round, then as many as endpoints) and from every parts     *)
(* file. Cones overlap, so that growth and total size order merges         *)
(* differently, and a part can absorb the others one after the other.      *)
(***************************************************************************)
EXTENDS CutMap, TLC

CONSTANTS e1, e2, e3

MCEndpoint == {e1, e2, e3}

MCNode == 1..4

MCCone == e1 :> {1, 2} @@ e2 :> {1, 2, 3} @@ e3 :> {3, 4}

MCStageCounts == 0..2
=============================================================================
