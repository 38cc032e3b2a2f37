---------------------------- MODULE MCGridCycle ----------------------------
(***************************************************************************)
(* GridCycle on three blocks, two major stages and two cycles.             *)
(* MCGridCycle.cfg: registers x, y and z, an input, two staged words, an   *)
(* SRAM and an SRL; one block has two partitions in a stage, one has a     *)
(* header of no stages.  MCSharedSrl.cfg: two endpoints of different       *)
(* blocks read the same SRL, so both partitions hold a copy of it.         *)
(***************************************************************************)
EXTENDS GridCycle, TLC

CONSTANTS b1, b2, b3, in, x, y, z, s, t, ram, srl

MCBlock == {b1, b2, b3}

MCWord == {in, x, y, z, s, t}

MCInputWord == {in}

MCMemory == {ram, srl}

MCCapacities == 2 .. 3

P(old, new, srls, rams, out) ==
  [stages |-> 1, old |-> old, new |-> new, srls |-> srls, rams |-> rams, out |-> out]

Header == [stages |-> 0, old |-> {}, new |-> {}, srls |-> {}, rams |-> {}, out |-> {}]

FirstStage ==
  b1 :> <<P({in, x}, {}, {srl}, {}, {s})>> @@
  b2 :> <<P({y}, {}, {}, {}, {t}), P({x}, {}, {}, {}, {z})>> @@
  b3 :> <<Header>>

SecondStage ==
  b1 :> <<P({x}, {s, t}, {}, {}, {x})>> @@
  b2 :> <<Header>> @@
  b3 :> <<P({z}, {s}, {}, {ram}, {y})>>

MCScript == <<FirstStage, SecondStage>>

\* b1 and b2 both need the SRL's output for their endpoints.
SharedScript ==
  << b1 :> <<P({in, x}, {}, {srl}, {}, {x})>> @@
     b2 :> <<P({y}, {}, {srl}, {}, {y})>> @@
     b3 :> <<Header>> >>

\* The theorems' hypotheses hold of the first script.
ASSUME HypothesesHold == Script = MCScript => OneOwner /\ EveryWordWritten
=============================================================================
