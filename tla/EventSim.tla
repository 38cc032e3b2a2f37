------------------------------ MODULE EventSim ------------------------------
(***************************************************************************)
(* What an event-driven simulator shows of a netlist of library cells, the *)
(* reference that the rungs of docs/TECHNICAL_REPORT.md:292 compare with.  *)
(* Cells have their values from the ports and the registers; at a clock    *)
(* edge the registers take what their inputs were before the edge.         *)
(* NetlistAig builds the graph of the same netlist, and the simulation of  *)
(* that graph in Ladder implements this specification.                     *)
(***************************************************************************)
EXTENDS Integers

VARIABLES
  netlist,
  settled,   \* values of the ports before this timestamp
  now,       \* and with the changes of this timestamp
  regs,      \* bits of the flip-flops, memories and shift registers
  fresh,     \* no timestamp has ended yet
  shown      \* outputs as last written

simvars == <<netlist, settled, now, regs, fresh, shown>>

Cells == DOMAIN netlist.type
In(c, pin) == netlist.in[c][pin]

\* The bits a cell keeps.
BitsOf(c) ==
  CASE netlist.type[c] \in {"DFF", "DFFSR"} -> {"q"}
    [] netlist.type[c] = "RAM" -> {"read", "word"}
    [] netlist.type[c] = "SRLC32E" -> {"b0", "b1"}
    [] OTHER -> {}

RegBits == UNION {{<<c, b>> : b \in BitsOf(c)} : c \in Cells}

Bool(b) == IF b THEN 1 ELSE 0

\* The value of a net for values v of the ports and q of the registers.
RECURSIVE Value(_, _, _)
Value(source, v, q) ==
  LET c == source[1]
      pin(p) == Value(In(c, p), v, q)
  IN CASE c = "net" -> Bool(source[2] = "one")
       [] c = "top" -> v[source[2]]
       [] OTHER ->
            LET t == netlist.type[c]
            IN CASE t = "AND2_00_0" -> Bool(pin("A") = 1 /\ pin("B") = 1)
                 [] t = "AND2_01_0" -> Bool(pin("A") = 1 /\ pin("B") = 0)
                 [] t = "AND2_10_0" -> Bool(pin("A") = 0 /\ pin("B") = 1)
                 [] t = "AND2_11_0" -> Bool(pin("A") = 0 /\ pin("B") = 0)
                 [] t = "AND2_11_1" -> Bool(pin("A") = 1 \/ pin("B") = 1)
                 [] t = "INV" -> 1 - pin("A")
                 [] t = "BUF" -> pin("A")
                 [] t = "DFF" -> q[<<c, "q">>]
                 [] t = "DFFSR" ->
                      Bool(pin("R") = 1 /\ (pin("S") = 0 \/ q[<<c, "q">>] = 1))
                 [] t = "RAM" -> q[<<c, "read">>]
                 [] t = "SRLC32E" ->
                      IF source[2] = "Q31" \/ pin("A") = 1 THEN q[<<c, "b1">>] ELSE q[<<c, "b0">>]

Flip(edge) == IF edge = "pos" THEN "neg" ELSE "pos"

\* A clock net has the edge: a gated clock only while its gate is enabled.
RECURSIVE HasEdge(_, _, _, _, _)
HasEdge(source, edge, edges, v, q) ==
  LET c == source[1]
  IN CASE c = "net" -> FALSE
       [] c = "top" -> <<source[2], edge>> \in edges
       [] OTHER ->
            CASE netlist.type[c] = "INV" -> HasEdge(In(c, "A"), Flip(edge), edges, v, q)
              [] netlist.type[c] = "BUF" -> HasEdge(In(c, "A"), edge, edges, v, q)
              [] netlist.type[c] = "CKLNQD" ->
                   HasEdge(In(c, "CP"), edge, edges, v, q) /\ Value(In(c, "E"), v, q) = 1
              [] OTHER -> FALSE

\* A bit of a register after the edges, from values before them.  Set and
\* reset of a flip-flop do not wait for its clock; reset wins.
Latched(c, b, edges, v, q) ==
  LET pin(p) == Value(In(c, p), v, q)
      rises(p) == HasEdge(In(c, p), "pos", edges, v, q)
      t == netlist.type[c]
      old == q[<<c, b>>]
  IN CASE t = "DFF" -> IF rises("CLK") THEN pin("D") ELSE old
       [] t = "DFFSR" ->
            IF pin("R") = 0 THEN 0 ELSE IF pin("S") = 0 THEN 1
            ELSE IF rises("CLK") THEN pin("D") ELSE old
       [] t = "RAM" /\ b = "read" -> IF rises("PORT_R_CLK") THEN q[<<c, "word">>] ELSE old
       [] t = "RAM" /\ b = "word" ->
            IF rises("PORT_W_CLK") /\ pin("PORT_W_WR_EN") = 1 THEN pin("PORT_W_WR_DATA") ELSE old
       [] t = "SRLC32E" ->
            IF rises("CLK") /\ pin("CE") = 1 THEN (IF b = "b0" THEN pin("D") ELSE q[<<c, "b0">>])
            ELSE old

AfterEdges(edges, v, q) == [r \in RegBits |-> Latched(r[1], r[2], edges, v, q)]

Outputs(v, q) == [o \in DOMAIN netlist.drives |-> Value(netlist.drives[o], v, q)]

EdgesFrom(v, w) ==
  {<<p, "pos">> : p \in {r \in DOMAIN v : v[r] = 0 /\ w[r] = 1}}
    \cup {<<p, "neg">> : p \in {r \in DOMAIN v : v[r] = 1 /\ w[r] = 0}}

-----------------------------------------------------------------------------
\* A netlist comes with nothing settled: ports, registers are zero.
Start ==
  /\ settled = [p \in netlist.ports |-> 0] /\ now = settled
  /\ regs = [r \in RegBits |-> 0]
  /\ fresh = TRUE
  /\ shown = [o \in DOMAIN netlist.drives |-> 0]

Change(p) ==
  /\ now' = [now EXCEPT ![p] = 1 - @]
  /\ UNCHANGED <<netlist, settled, regs, fresh, shown>>

\* A timestamp ends.  What stood before its edges is shown, and latched.
Edge ==
  /\ settled' = now
  /\ regs' = AfterEdges(EdgesFrom(settled, now), settled, regs)
  /\ fresh' = FALSE
  /\ shown' = IF fresh THEN shown ELSE Outputs(settled, regs)
  /\ UNCHANGED <<netlist, now>>

\* One without an edge of a clock may be passed over: then nobody sees the set
\* and the reset of a flip-flop either.
Quiet ==
  /\ \A r \in RegBits :
       netlist.type[r[1]] # "DFFSR" =>
         Latched(r[1], r[2], EdgesFrom(settled, now), settled, regs) = regs[r]
  /\ \A c \in Cells :
       netlist.type[c] = "DFFSR" =>
         ~HasEdge(In(c, "CLK"), "pos", EdgesFrom(settled, now), settled, regs)
  /\ settled' = now
  /\ UNCHANGED <<netlist, now, regs, fresh, shown>>

Next == Edge \/ Quiet \/ \E p \in DOMAIN now : Change(p)

Spec == Start /\ [][Next]_simvars

=============================================================================
