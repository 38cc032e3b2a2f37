------------------------------ MODULE MCLadder ------------------------------
(* Small netlists for Ladder, and what a VCD changes in each.              *)
EXTENDS Ladder

\* A netlist of cells given as name :> <<type, inputs, outputs>>.
LOCAL INSTANCE TLC

Clk == Port("clk")
D == Port("d")
E == Port("e")

List(ports, cells, drives) ==
  [ports |-> ports, type |-> [c \in DOMAIN cells |-> cells[c][1]],
   in |-> [c \in DOMAIN cells |-> cells[c][2]], outs |-> [c \in DOMAIN cells |-> cells[c][3]],
   drives |-> drives]

Flop(clk, d) == <<"DFF", [CLK |-> clk, D |-> d], {"Q"}>>
Two(type, a, b) == <<type, [A |-> a, B |-> b], {"Y"}>>
One1(type, a) == <<type, [A |-> a], {"Y"}>>

\* A flip-flop that feeds itself; the two gates are one in the graph.
Toggle ==
  List({"clk", "d"},
       "f" :> Flop(Clk, <<"x", "Y">>) @@ "x" :> Two("AND2_01_0", D, <<"f", "Q">>)
         @@ "y" :> Two("AND2_10_0", <<"f", "Q">>, D),
       [o |-> <<"y", "Y">>, q |-> <<"f", "Q">>])

\* Constants fold; a buffer of an inverter.
Constants ==
  List({"clk", "d"},
       "f" :> Flop(Clk, <<"x", "Y">>) @@ "x" :> Two("AND2_00_0", D, One)
         @@ "y" :> Two("AND2_11_1", <<"f", "Q">>, Zero) @@ "i" :> One1("INV", <<"y", "Y">>)
         @@ "b" :> One1("BUF", <<"i", "Y">>),
       [o |-> <<"b", "Y">>, z |-> Zero])

\* Two flip-flops on the two edges of the clock.
BothEdges ==
  List({"clk", "d"},
       "i" :> One1("INV", Clk) @@ "f" :> Flop(<<"i", "Y">>, D) @@ "g" :> Flop(Clk, <<"f", "Q">>),
       [o |-> <<"g", "Q">>])

Gated ==
  List({"clk", "d", "e"},
       "k" :> <<"CKLNQD", [CP |-> Clk, E |-> E], {"Q"}>> @@ "f" :> Flop(<<"k", "Q">>, D)
         @@ "g" :> Flop(Clk, <<"f", "Q">>),
       [o |-> <<"g", "Q">>])

TwoClocks ==
  List({"clk", "d", "e"},
       "f" :> Flop(Clk, D) @@ "g" :> Flop(E, <<"f", "Q">>) @@ "x" :> Two("AND2_11_0", D, <<"g", "Q">>),
       [o |-> <<"x", "Y">>])

SetReset ==
  List({"clk", "d", "r"},
       "i" :> One1("INV", D)
         @@ "f" :> <<"DFFSR", [CLK |-> Clk, D |-> D, S |-> <<"i", "Y">>, R |-> Port("r")], {"Q"}>>,
       [o |-> <<"f", "Q">>])

Memory ==
  List({"clk", "d", "e"},
       "m" :> <<"RAM", [PORT_R_CLK |-> Clk, PORT_W_CLK |-> Clk, PORT_W_WR_EN |-> E, PORT_W_WR_DATA |-> D],
                {"PORT_R_RD_DATA"}>>,
       [o |-> <<"m", "PORT_R_RD_DATA">>])

\* A shift register behind a clock gate; CE is tied high.
Shift ==
  List({"clk", "d", "e"},
       "k" :> <<"CKLNQD", [CP |-> Clk, E |-> E], {"Q"}>>
         @@ "s" :> <<"SRLC32E", [CLK |-> <<"k", "Q">>, D |-> D, CE |-> One, A |-> E], {"Q", "Q31"}>>
         @@ "x" :> Two("AND2_00_0", <<"s", "Q">>, <<"s", "Q31">>),
       [o |-> <<"x", "Y">>])

Looped ==
  List({"d"},
       "x" :> Two("AND2_00_0", D, <<"i", "Y">>) @@ "i" :> One1("INV", <<"x", "Y">>),
       [o |-> <<"x", "Y">>])

Rippled ==
  List({"clk", "d"},
       "f" :> Flop(Clk, D) @@ "g" :> Flop(<<"f", "Q">>, D),
       [o |-> <<"g", "Q">>])

MCNetlists ==
  {Toggle, Constants, BothEdges, Gated, TwoClocks, SetReset, Memory, Shift, Looped, Rippled}

MCShift == {Shift}

MCTwoClocks == {TwoClocks}

\* The graphs of a netlist for different orders of its pins have the same
\* values (AigExact): only those with the leaves in this order are driven.
\* cuda_test does not notice an output read from the slot of a register; it has
\* only the output maps with a slot for each output.
Leaves == <<"clk", "d", "e", "r", "f", "g", "m", "s">>

InOrderOfLeaves(g) ==
  LET rank(i) == LET d == g.drivers[i]
                     name == IF d.kind = "input" THEN d.key ELSE d.key[1]
                 IN IF d.kind \in {"and", "flag"} THEN 0 ELSE CHOOSE r \in DOMAIN Leaves : Leaves[r] = name
      leaves == {i \in DOMAIN g.drivers : rank(i) > 0}
  IN \A i, j \in leaves : i < j => rank(i) <= rank(j)

AllDriven(g, driver, map) == InOrderOfLeaves(g)

MCDriven(g, driver, map) ==
  /\ InOrderOfLeaves(g)
  /\ driver = "cuda_test" => \A l \in DOMAIN map : map[l] = Own

\* No clock is high at time zero in flatten_test, whose flag of that edge stays
\* up; and the shift register, which does not look at its clock, is not driven.
MCStimulus(n, driver, t) ==
  IF \E c \in DOMAIN n.type : n.type[c] = "SRLC32E" THEN {}
  ELSE IF driver = "flatten_test" /\ t = 0 THEN n.ports \ (IF n = TwoClocks THEN {"clk", "e"} ELSE {"clk"})
  ELSE n.ports

AllSignals(n, driver, t) == n.ports

=============================================================================
