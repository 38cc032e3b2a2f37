----------------------------- MODULE NetlistAig -----------------------------
(***************************************************************************)
(* AIG::from_netlistdb (aig.rs): a netlist of library cells becomes an     *)
(* and-inverter graph.  Clock pins are traced to their ports; every pin    *)
(* gets a literal once the pins it depends on have one; flip-flops,        *)
(* memories and macros get their inputs and enables in a last pass.        *)
(*                                                                         *)
(* A pin is a net here: what drives it.  The recursion over pins, whose    *)
(* numbers come from the parser, is any order that puts prerequisites      *)
(* first, and a netlist without such an order is the loop it panics on.    *)
(* Buses are one bit wide, a memory has one word, a shift register two     *)
(* bits and one address bit.                                               *)
(***************************************************************************)
EXTENDS Integers, Sequences, FiniteSets

CONSTANT Netlists   (* the netlists considered *)

VARIABLES
  pc,         \* "clocks", "build", "resolve", "built", "panic"
  netlist,
  untraced,   \* clock pins the first loop has still to trace
  unvisited,  \* pins without topo_vis
  aig,        \* drivers, clock_pin2aigpins, dffs, srams and macros
  iv,         \* pin2aigpin_iv
  unresolved  \* cells the last loop has still to visit

aigvars == <<pc, netlist, untraced, unvisited, aig, iv, unresolved>>

-----------------------------------------------------------------------------
(* The netlist.  A source is a constant net, a port or an output of a cell. *)

Zero == <<"net", "zero">>
One == <<"net", "one">>

Port(p) == <<"top", p>>

Cells == DOMAIN netlist.type
Type(c) == netlist.type[c]

\* The source of an input pin.
In(c, pin) == netlist.in[c][pin]

Nodes == {Port(p) : p \in netlist.ports} \cup UNION {{<<c, o>> : o \in netlist.outs[c]} : c \in Cells}

\* The inversions of A, B and Y in the names of AND gates.
And2 ==
  [AND2_00_0 |-> <<0, 0, 0>>, AND2_01_0 |-> <<0, 1, 0>>, AND2_10_0 |-> <<1, 0, 0>>,
   AND2_11_0 |-> <<1, 1, 0>>, AND2_11_1 |-> <<1, 1, 1>>]

\* The clock pins that trace_clock_pin starts from.
ClockPins(c) ==
  CASE Type(c) \in {"DFF", "DFFSR", "SRLC32E"} -> {"CLK"}
    [] Type(c) = "RAM" -> {"PORT_R_CLK", "PORT_W_CLK"}
    [] OTHER -> {}

\* Mutant of Before: set and reset are left to the last pass.
BeforeData(n) ==
  IF n[1] = "top" THEN {}
  ELSE {In(n[1], p) : p \in DOMAIN netlist.in[n[1]] \cap {"A", "B", "CP", "E"}} \ {Zero, One}

\* What the recursion visits before a pin: macros and memories stop it.
Before(n) ==
  IF n[1] = "top" THEN {}
  ELSE LET c == n[1]
           pins == CASE Type(c) \in DOMAIN And2 -> {"A", "B"}
                     [] Type(c) \in {"INV", "BUF"} -> {"A"}
                     [] Type(c) = "DFFSR" -> {"S", "R"}
                     [] Type(c) = "CKLNQD" -> {"CP", "E"}
                     [] OTHER -> {}
       IN {In(c, p) : p \in pins} \ {Zero, One}

-----------------------------------------------------------------------------
(* Literals: twice the number of a pin, plus one if inverted. *)

Undefined == -1

Not(l) == IF l = Undefined THEN Undefined ELSE IF l % 2 = 0 THEN l + 1 ELSE l - 1

NotIf(b, l) == IF b = 1 THEN Not(l) ELSE l

\* A step of the construction: the graph it leaves and the literal it returns.
Made(g, l) == [ok |-> TRUE, aig |-> g, iv |-> l]

Failed(g) == [ok |-> FALSE, aig |-> g, iv |-> Undefined]

AddPin(g, driver) ==
  LET h == [g EXCEPT !.drivers = Append(@, driver)] IN Made(h, 2 * Len(h.drivers))

Gate(a, b) == [kind |-> "and", a |-> a, b |-> b]

\* add_and_gate: constants are folded, inputs ordered, equal gates shared.
Shared(g, a, b) ==
  LET d == IF a < b THEN Gate(a, b) ELSE Gate(b, a)
  IN IF \E i \in DOMAIN g.drivers : g.drivers[i] = d
       THEN Made(g, 2 * CHOOSE i \in DOMAIN g.drivers : g.drivers[i] = d)
       ELSE AddPin(g, d)

\* Mutant of Fold: a constant one is taken for a zero.
FoldToZero(g, a, b) == IF a <= 1 \/ b <= 1 THEN Made(g, 0) ELSE Shared(g, a, b)

Fold(g, a, b) ==
  IF a = 0 \/ b = 0 THEN Made(g, 0)
  ELSE IF a = 1 THEN Made(g, b)
  ELSE IF b = 1 THEN Made(g, a)
  ELSE Shared(g, a, b)

And(g, a, b) == IF Undefined \in {a, b} THEN Failed(g) ELSE Fold(g, a, b)

\* a OR NOT b, which set and reset are built from.
OrNot(g, a, b) == LET s == And(g, Not(a), b) IN [s EXCEPT !.iv = Not(@)]

Then(step, Op(_, _)) == IF step.ok THEN Op(step.aig, step.iv) ELSE step

\* The flag of an edge at a clock port, one for each edge that is used.
Flag(g, p, edge) ==
  IF <<p, edge>> \in DOMAIN g.flags THEN Made(g, 2 * g.flags[<<p, edge>>])
  ELSE LET s == AddPin(g, [kind |-> "flag", key |-> <<p, edge>>])
       IN Made([s.aig EXCEPT !.flags = [k \in DOMAIN g.flags \cup {<<p, edge>>} |->
                                          IF k = <<p, edge>> THEN Len(s.aig.drivers) ELSE g.flags[k]]], s.iv)

Other(edge) == IF edge = "pos" THEN "neg" ELSE "pos"

LitOf(source) == IF source = Zero THEN 0 ELSE IF source = One THEN 1 ELSE iv[source]

\* trace_clock_pin: to the port, past the gates of the clock or through them.
RECURSIVE Trace(_, _, _, _)
Trace(g, source, edge, past) ==
  IF source \in {Zero, One} THEN Made(g, 0)
  ELSE IF source[1] = "top" THEN Flag(g, source[2], edge)
  ELSE LET c == source[1]
       IN CASE Type(c) = "INV" -> Trace(g, In(c, "A"), Other(edge), past)
            [] Type(c) = "BUF" -> Trace(g, In(c, "A"), edge, past)
            [] Type(c) = "CKLNQD" ->
                 LET s == Trace(g, In(c, "CP"), edge, past)
                 IN IF past \/ ~s.ok THEN s ELSE And(s.aig, s.iv, LitOf(In(c, "E")))
            [] OTHER -> Failed(g)

-----------------------------------------------------------------------------
NoPins == [drivers |-> <<>>, flags |-> [k \in {} |-> 0], dffs |-> [c \in {} |-> 0],
           srams |-> [c \in {} |-> 0], macros |-> [c \in {} |-> 0], outputs |-> {}]

InitAig ==
  /\ netlist \in Netlists
  /\ pc = "clocks"
  /\ untraced = UNION {{<<c, p>> : p \in ClockPins(c)} : c \in Cells}
  /\ unvisited = Nodes
  /\ aig = NoPins
  /\ iv = [n \in Nodes |-> Undefined]
  /\ unresolved = {}

Panic ==
  /\ pc' = "panic"
  /\ UNCHANGED <<netlist, untraced, unvisited, aig, iv, unresolved>>

\* The first loop creates the flags, so that none is created for a gated clock
\* before its enable is known.
TraceClock(c, p) ==
  /\ pc = "clocks" /\ <<c, p>> \in untraced
  /\ LET s == Trace(aig, In(c, p), "pos", TRUE)
     IN IF ~s.ok THEN Panic
        ELSE /\ aig' = s.aig
             /\ untraced' = untraced \ {<<c, p>>}
             /\ UNCHANGED <<pc, netlist, unvisited, iv, unresolved>>

ClocksTraced ==
  /\ pc = "clocks" /\ untraced = {}
  /\ pc' = "build"
  /\ UNCHANGED <<netlist, untraced, unvisited, aig, iv, unresolved>>

\* Q of a flip-flop shows set and reset at once; reset wins.
Polyfill(g, q, s, r) == Then(OrNot(g, q, s), LAMBDA h, l : And(h, l, r))

\* The literal of a pin, and the graph with what it takes.
Build(n) ==
  LET c == n[1]
      lit(pin) == LitOf(In(c, pin))
  IN IF c = "top" THEN AddPin(aig, [kind |-> "input", key |-> n[2]])
     ELSE CASE Type(c) \in DOMAIN And2 ->
                 LET i == And2[Type(c)]
                     s == And(aig, NotIf(i[1], lit("A")), NotIf(i[2], lit("B")))
                 IN [s EXCEPT !.iv = NotIf(i[3], @)]
            [] Type(c) = "INV" -> Made(aig, Not(lit("A")))
            [] Type(c) = "BUF" -> Made(aig, lit("A"))
            [] Type(c) = "DFF" -> AddPin(aig, [kind |-> "state", key |-> n])
            [] Type(c) = "DFFSR" ->
                 Then(AddPin(aig, [kind |-> "state", key |-> n]),
                      LAMBDA g, q : Polyfill(g, q, lit("S"), lit("R")))
            [] Type(c) = "RAM" -> AddPin(aig, [kind |-> "state", key |-> n])
            [] Type(c) = "SRLC32E" -> AddPin(aig, [kind |-> "macro", key |-> n])
            [] Type(c) = "CKLNQD" -> Made(aig, Undefined)
            [] OTHER -> Failed(aig)

BuildPin(n) ==
  /\ pc = "build" /\ n \in unvisited
  /\ Before(n) \cap unvisited = {}
  /\ LET s == Build(n)
     IN IF ~s.ok THEN Panic
        ELSE /\ aig' = s.aig
             /\ iv' = [iv EXCEPT ![n] = s.iv]
             /\ unvisited' = unvisited \ {n}
             /\ UNCHANGED <<pc, netlist, untraced, unresolved>>

\* "circuit has a loop around pin"
Loop ==
  /\ pc = "build" /\ unvisited # {}
  /\ \A n \in unvisited : Before(n) \cap unvisited # {}
  /\ Panic

PinsBuilt ==
  /\ pc = "build" /\ unvisited = {}
  /\ aig' = [aig EXCEPT !.outputs = {LitOf(s) : s \in {netlist.drives[o] : o \in DOMAIN netlist.drives} \ {Zero, One}}]
  /\ unresolved' = Cells
  /\ pc' = "resolve"
  /\ UNCHANGED <<netlist, untraced, unvisited, iv>>

Store(g, field, c, value) ==
  [g EXCEPT ![field] = [x \in DOMAIN @ \cup {c} |-> IF x = c THEN value ELSE @[x]]]

\* The enable of a flip-flop: set and reset enable it too.
Enable(g, clk, s, r) == Then(OrNot(g, clk, s), LAMBDA h, l : OrNot(h, l, r))

ResolveFlop(c) ==
  LET set == IF Type(c) = "DFFSR" THEN LitOf(In(c, "S")) ELSE 1
      reset == IF Type(c) = "DFFSR" THEN LitOf(In(c, "R")) ELSE 1
      clk == Trace(aig, In(c, "CLK"), "pos", FALSE)
      d == Then(clk, LAMBDA g, l : Polyfill(g, LitOf(In(c, "D")), set, reset))
      en == Then(d, LAMBDA g, l : Enable(g, clk.iv, set, reset))
  IN [ok |-> en.ok /\ netlist.outs[c] # {},
      aig |-> Store(en.aig, "dffs", c, [d |-> d.iv, en |-> en.iv])]

ResolveRam(c) ==
  LET rd == Trace(aig, In(c, "PORT_R_CLK"), "pos", FALSE)
      wr == Then(rd, LAMBDA g, l : Trace(g, In(c, "PORT_W_CLK"), "pos", FALSE))
      we == Then(wr, LAMBDA g, l : And(g, LitOf(In(c, "PORT_W_WR_EN")), l))
  IN [ok |-> we.ok,
      aig |-> Store(we.aig, "srams", c,
                [ren |-> rd.iv, wen |-> we.iv, data |-> LitOf(In(c, "PORT_W_WR_DATA"))])]

\* An input that is not connected has a default (default_input), one for CE.
MacroInput(c, pin) ==
  IF pin \in DOMAIN netlist.in[c] THEN LitOf(In(c, pin)) ELSE IF pin = "CE" THEN 1 ELSE 0

\* A macro none of whose outputs is a pin is skipped as dead.
ResolveMacro(c) ==
  LET clk == Trace(aig, In(c, "CLK"), "pos", FALSE)
  IN IF netlist.outs[c] = {} THEN [ok |-> TRUE, aig |-> aig]
     ELSE [ok |-> clk.ok,
           aig |-> Store(clk.aig, "macros", c,
                     [clken |-> clk.iv, data |-> MacroInput(c, "D"), ce |-> MacroInput(c, "CE"),
                      addr |-> MacroInput(c, "A")])]

Resolved(c) ==
  CASE Type(c) \in {"DFF", "DFFSR"} -> ResolveFlop(c)
    [] Type(c) = "RAM" -> ResolveRam(c)
    [] Type(c) = "SRLC32E" -> ResolveMacro(c)
    [] OTHER -> [ok |-> TRUE, aig |-> aig]

Resolve(c) ==
  /\ pc = "resolve" /\ c \in unresolved
  /\ LET s == Resolved(c)
     IN IF ~s.ok THEN Panic
        ELSE /\ aig' = s.aig
             /\ unresolved' = unresolved \ {c}
             /\ UNCHANGED <<pc, netlist, untraced, unvisited, iv>>

AigBuilt ==
  /\ pc = "resolve" /\ unresolved = {}
  /\ pc' = "built"
  /\ UNCHANGED <<netlist, untraced, unvisited, aig, iv, unresolved>>

NextAig ==
  \/ ClocksTraced \/ Loop \/ PinsBuilt \/ AigBuilt
  \/ \E c \in Cells : Resolve(c) \/ \E p \in ClockPins(c) : TraceClock(c, p)
  \/ \E n \in Nodes : BuildPin(n)

SpecAig == InitAig /\ [][NextAig]_aigvars

=============================================================================
