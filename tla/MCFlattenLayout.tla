--------------------------- MODULE MCFlattenLayout ---------------------------
(***************************************************************************)
(* FlattenLayout on small designs. Pins 1 and 2 are computed by the tree,  *)
(* 3 and 6 are an SRAM's and a DSP's output that logic reads. The first    *)
(* partition has up to MaxEnds endpoints in any order, or one more that    *)
(* share a pin, so that copies cross a word boundary; the second has a DSP *)
(* and a flip-flop that the first may have an output alike of; the third a *)
(* DSP and an SRAM; there are fewer blocks than partitions.                *)
(*   MCFlattenLayout: what the code keeps                                  *)
(*   MCLatchedOutput, MCZeroFlops: two properties that it does not keep    *)
(*   MCManySrams: as many SRAMs as a descriptor cannot address behind      *)
(***************************************************************************)
EXTENDS FlattenLayout

CONSTANTS MaxEnds, Zeros, MaxSrams

Dff(d, en) == [kind |-> "dff", d |-> d, en |-> en]

Po(iv) == [kind |-> "po", iv |-> iv]

Ram(rd) == [kind |-> "ram", rd |-> rd, re |-> <<2, 1>>, a |-> <<1, 1>>]

Dsp(p) == [kind |-> "dsp", p |-> p, a |-> <<2, 0>>]

\* Endpoints that share pin 1 under several polarities and enables.
Shared ==
  {Po(<<1, 0>>), Po(<<1, 1>>), [kind |-> "io", iv |-> <<1, 0>>],
   Dff(<<1, 0>>, One), Dff(<<1, 0>>, <<2, 0>>), Dff(<<1, 1>>, <<2, 1>>)}

\* Zeros adds a second enable under which a flip-flop is always zero.
EndsUsed ==
  Shared \cup {Ram(3), Ram(4), Dsp(6), Dsp(7), Po(<<3, 0>>), Po(<<6, 0>>), Dff(<<3, 0>>, <<1, 0>>),
              Dff(<<0, 0>>, <<1, 0>>), Dff(<<0, 1>>, <<1, 0>>)}
         \cup (IF Zeros THEN {Dff(<<0, 0>>, <<2, 0>>)} ELSE {})

\* Only flip-flops can be alike.
Legal(s) == \A j, k \in DOMAIN s : j # k /\ s[j].kind # "dff" => s[j] # s[k]

PartOf(ends, stages) == [outs |-> <<1, 0, 3, 2, 6, 0>>, stages |-> stages, ends |-> ends]

Firsts ==
  {s \in [1 .. MaxEnds + 1 -> Shared] \cup UNION {[1 .. n -> EndsUsed] : n \in 1 .. MaxEnds} : Legal(s)}

MCDesigns ==
  {[srls |-> 1, parts |-> <<PartOf(s, 2), PartOf(<<Dsp(8), Dff(<<1, 0>>, One)>>, k), PartOf(<<Ram(5), Dsp(9)>>, 1)>>] :
     s \in Firsts, k \in 1 .. 2}

\* An SRL behind up to MaxSrams SRAMs.
SramDesigns ==
  {[srls |-> 1, parts |-> <<PartOf([k \in 1 .. n |-> Ram(10 + k)], 1), PartOf(<<Dff(<<1, 0>>, One)>>, 1)>>] : n \in 1 .. MaxSrams}
=============================================================================
