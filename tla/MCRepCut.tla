------------------------------ MODULE MCRepCut ------------------------------
(***************************************************************************)
(* Staging and RepCut together, on every graph of a few pins and a given   *)
(* shape: how many leaves, outputs of macros and gates it has, the inner   *)
(* pins in every order.  The first endpoint reads one inner pin, the       *)
(* second one or none.  Pins past the last of the shape are not read.      *)
(***************************************************************************)
EXTENDS RepCut, FiniteSetsExt, TLC

CONSTANTS NumPins, NumEndpoints, Shapes

Shape(l, m, g) == [leaves |-> l, macros |-> m, gates |-> g]

MCPins == 1 .. NumPins
MCEndpoints == 1 .. NumEndpoints
AllShapes == {Shape(2, 0, 2), Shape(1, 1, 2), Shape(1, 0, 4)}
MCSplits == {<<>>, <<1>>, <<1, 2>>, <<1, 3>>}

Inner(sh) == sh.leaves + 1 .. sh.leaves + sh.macros + sh.gates

\* The inputs of each pin, pin by pin.
Wirings(sh) ==
  LET upTo[p \in 0 .. NumPins] ==
        IF p = 0 THEN {<<>>}
        ELSE {Append(w, s) : w \in upTo[p - 1],
                s \in IF p \in Inner(sh)
                        THEN {<<a, b>> \in (1 .. p - 1) \X (1 .. p - 1) : a < b \/ (a = b /\ p = 2)}
                        ELSE {<<>>}}
  IN upTo[NumPins]

DesignsOf(sh) ==
  {[ands |-> w, comb |-> [p \in MCPins |-> {w[p][i] : i \in DOMAIN w[p]}],
    macros |-> m, gates |-> Inner(sh) \ m, needs |-> n] :
      w \in Wirings(sh), m \in kSubset(sh.macros, Inner(sh)),
      n \in {[e \in MCEndpoints |-> IF e = 1 THEN {a} ELSE b] :
               a \in Inner(sh), b \in {{}} \cup {{x} : x \in Inner(sh)}}}

MCDesigns == UNION {DesignsOf(sh) : sh \in Shapes}
=============================================================================
