------------------------------- MODULE Ladder -------------------------------
(***************************************************************************)
(* The rungs that a design is compared on (docs/TECHNICAL_REPORT.md:292):  *)
(* once its graph is built, one VCD drives GEM's simulation of the graph   *)
(* (the token loops of flatten_test.rs and cuda_test.rs, which read the    *)
(* inputs of a cycle from the VCD) and the interpretation of the netlist   *)
(* by naive_sim.rs.  EventSim is what both should show.                    *)
(*                                                                         *)
(* GEM propagates, then updates: a change of an input waits until the next *)
(* timestamp, while an edge of a clock raises a flag at once, and the      *)
(* timestamp is simulated when the next one arrives.                       *)
(***************************************************************************)
EXTENDS NetlistAig

CONSTANTS
  Driven(_, _, _),   \* the graphs that are simulated: by a driver, with an output map
  MaxTime,     \* bound on the timestamps of a VCD
  Stimulus(_, _, _)  \* the signals that a VCD changes: of a netlist, with a driver, at a time

VARIABLES
  time,     \* vcd_time
  now,      \* values of the signals in the VCD
  setup,    \* the driver, whether it writes wires (include_wires), whether the
            \* VCD keeps rule 3 of docs/SIMULATION_GUIDE.md:309, the output map
  gem,      \* state: inputs, flags, delayed_bit_changes, active, last_active,
            \* and whether its assertion failed
  gq,       \* the registers in GEM's state
  gshown,   \* output values GEM wrote last
  naive     \* naive_sim: registers, inputs of the last propagation, edge, outputs

drivervars == <<time, now, setup, gem, gq, gshown, naive>>

Sim == INSTANCE EventSim WITH
  settled <- gem.in, regs <- gq, fresh <- (gem.last_active = -1), shown <- gshown

Drivers == {"flatten_test", "cuda_test"}

-----------------------------------------------------------------------------
(* The graph *)

\* A pin's driver over inputs, flags and registers.
RECURSIVE ValueOf(_, _, _, _)
ValueOf(l, v, flags, q) ==
  IF l <= 1 THEN l
  ELSE LET d == aig.drivers[l \div 2]
           c == d.key[1]
           value ==
             CASE d.kind = "and" -> ValueOf(d.a, v, flags, q) * ValueOf(d.b, v, flags, q)
               [] d.kind = "input" -> v[d.key]
               [] d.kind = "flag" -> IF d.key \in flags THEN 1 ELSE 0
               [] d.kind = "state" -> q[<<c, IF Type(c) = "RAM" THEN "read" ELSE "q">>]
               [] d.kind = "macro" ->
                    IF d.key[2] = "Q31" \/ ValueOf(aig.macros[c].addr, v, flags, q) = 1
                      THEN q[<<c, "b1">>] ELSE q[<<c, "b0">>]
       IN IF l % 2 = 1 THEN 1 - value ELSE value

\* A register bit after a cycle: flip-flops and read data keep their value
\* unless enabled; a shift register looks at CE alone.
NextBit(c, b, v, flags, q) ==
  LET at(l) == ValueOf(l, v, flags, q)
      old == q[<<c, b>>]
  IN CASE Type(c) \in {"DFF", "DFFSR"} -> IF at(aig.dffs[c].en) = 1 THEN at(aig.dffs[c].d) ELSE old
       [] Type(c) = "RAM" /\ b = "read" -> IF at(aig.srams[c].ren) = 1 THEN q[<<c, "word">>] ELSE old
       [] Type(c) = "RAM" /\ b = "word" -> IF at(aig.srams[c].wen) = 1 THEN at(aig.srams[c].data) ELSE old
       [] Type(c) = "SRLC32E" ->
            IF at(aig.macros[c].ce) = 1 THEN (IF b = "b0" THEN at(aig.macros[c].data) ELSE q[<<c, "b0">>])
            ELSE old

Cycle(v, flags, q) == [r \in Sim!RegBits |-> NextBit(r[1], r[2], v, flags, q)]

PortLit(o) == LitOf(netlist.drives[o])

-----------------------------------------------------------------------------
(* The output map: where in the state the literal of an output is read *)

\* The slot of the output's own endpoint, committed in every cycle.
Own == <<"top", "own">>

\* Ports that pass an input through are not written, and constants not looked up.
MappedLits == {l \in aig.outputs : l > 1 /\ aig.drivers[l \div 2].kind # "input"}

\* The endpoints that enter a literal: its output, flip-flops with this D and a
\* memory with this read data, whose slots are committed when enabled.
Entrants(l) ==
  {Own} \cup {<<c, "q">> : c \in {x \in DOMAIN aig.dffs : aig.dffs[x].d = l}}
    \cup {<<c, "read">> : c \in {x \in DOMAIN aig.srams : iv[<<x, "PORT_R_RD_DATA">>] = l}}

\* The last one to enter a literal keeps it; partitions and their endpoints come
\* in any order.
OutputMaps ==
  {m \in [MappedLits -> {Own} \cup Sim!RegBits] : \A l \in MappedLits : m[l] \in Entrants(l)}

-----------------------------------------------------------------------------
(* GEM's token loop *)

\* When a new timestamp arrives and this one is active, it is simulated with
\* the flags, and without the changes, of this timestamp.
\* flatten_test.rs lowers the flags only after a simulation it writes.
Simulated ==
  [gem EXCEPT !.flags = IF setup.driver = "flatten_test" /\ gem.last_active = -1 THEN @ ELSE {},
              !.last_active = time]

Flushed(g) ==
  [g EXCEPT !.in = [p \in DOMAIN @ |-> IF p \in g.delayed THEN 1 - @[p] ELSE @[p]],
            !.delayed = {}, !.active = setup.wires]

Computed(o) == ValueOf(PortLit(o), gem.in, gem.flags, gq)

\* The bit that the output map points at, in the state after the cycle.
ReadBack(o, q) ==
  IF PortLit(o) <= 1 \/ setup.map[PortLit(o)] = Own THEN Computed(o) ELSE q[setup.map[PortLit(o)]]

Written == {o \in DOMAIN netlist.drives : PortLit(o) <= 1 \/ PortLit(o) \in MappedLits}

\* flatten_test asserts, when it writes, that it reads the value that the blocks
\* computed for the pin in this cycle.
Mismatch(q) ==
  /\ setup.driver = "flatten_test" /\ gem.last_active # -1
  /\ \E o \in Written : ReadBack(o, q) # Computed(o)

GemIdle ==
  /\ ~gem.active
  /\ gem' = Flushed(gem)
  /\ UNCHANGED <<gq, gshown>>

GemSimulates(q) ==
  /\ gem.active /\ ~Mismatch(q)
  /\ gq' = q
  /\ gshown' = [o \in DOMAIN netlist.drives |->
                 IF gem.last_active # -1 /\ o \in Written THEN ReadBack(o, q) ELSE gshown[o]]
  /\ gem' = Flushed(Simulated)

GemPanics(q) ==
  /\ gem.active /\ Mismatch(q)
  /\ gem' = [gem EXCEPT !.failed = TRUE]
  /\ UNCHANGED <<gq, gshown>>

GemTimestamp ==
  LET q == Cycle(gem.in, gem.flags, gq) IN GemIdle \/ GemSimulates(q) \/ GemPanics(q)

\* Mutant of GemValue: an input changes at once.
GemValueAtOnce(p) ==
  LET raised == {<<p, IF gem.in[p] = 0 THEN "pos" ELSE "neg">>} \cap DOMAIN aig.flags
  IN gem' = [gem EXCEPT !.flags = @ \cup raised, !.active = @ \/ raised # {},
                        !.in[p] = 1 - @]

GemValue(p) ==
  LET k == <<p, IF gem.in[p] = 0 THEN "pos" ELSE "neg">>
      raised == {k} \cap DOMAIN aig.flags
  IN gem' = [gem EXCEPT !.flags = @ \cup raised, !.active = @ \/ raised # {},
                        !.delayed = @ \cup {p}]

-----------------------------------------------------------------------------
(* naive_sim: one clock domain, clocks straight from ports, no set or reset *)

ClockPinsOf == UNION {{<<c, p>> : p \in ClockPins(c)} : c \in Cells}

Monitored == {In(k[1], k[2])[2] : k \in {j \in ClockPinsOf : In(j[1], j[2])[1] = "top"}}

\* Otherwise it panics, or leaves registers as they are.
NaiveRuns ==
  /\ \A c \in Cells : Type(c) \in DOMAIN And2 \cup {"INV", "BUF", "DFF", "RAM"}
  /\ \A k \in ClockPinsOf : In(k[1], k[2])[1] = "top"

Unseen == <<>>

\* A pin as the last propagation left it; before the first, only those on the
\* net of ones are set.
Pin(source) ==
  IF naive.seen = Unseen THEN (IF source = One THEN 1 ELSE 0)
  ELSE Sim!Value(source, naive.seen, naive.q)

NaiveLatched(c, b) ==
  CASE Type(c) = "DFF" -> Pin(In(c, "D"))
    [] Type(c) = "RAM" /\ b = "read" -> naive.q[<<c, "word">>]
    [] Type(c) = "RAM" /\ b = "word" ->
         IF Pin(In(c, "PORT_W_WR_EN")) = 1 THEN Pin(In(c, "PORT_W_WR_DATA")) ELSE naive.q[<<c, b>>]

\* Ports are written at once, and clocks lowered at the end of a timestamp.
NaivePorts == [p \in netlist.ports |-> IF p \in Monitored \ gem.delayed THEN 0 ELSE now[p]]

\* Latch, then propagate.
\* Mutant of NaiveCycle: propagate, then latch.
NaivePropagatesFirst(q) ==
  [q |-> q, seen |-> NaivePorts, rose |-> FALSE, shown |-> Sim!Outputs(NaivePorts, naive.q)]

NaiveCycle(q) == [q |-> q, seen |-> NaivePorts, rose |-> FALSE, shown |-> Sim!Outputs(NaivePorts, q)]

NaiveTimestamp ==
  naive' = IF naive.rose THEN NaiveCycle([r \in Sim!RegBits |-> NaiveLatched(r[1], r[2])]) ELSE naive

NaiveValue(p) == naive' = [naive EXCEPT !.rose = @ \/ (p \in Monitored /\ now[p] = 0)]

-----------------------------------------------------------------------------
NoSetup == [driver |-> "none", wires |-> FALSE, rule |-> FALSE, map |-> <<>>]

Init ==
  /\ InitAig
  /\ time = 0
  /\ now = [p \in netlist.ports |-> 0]
  /\ setup = NoSetup
  /\ gem = [in |-> now, flags |-> {}, delayed |-> {}, active |-> TRUE, last_active |-> -1,
            failed |-> FALSE]
  /\ gq = [r \in Sim!RegBits |-> 0]
  /\ gshown = [o \in DOMAIN netlist.drives |-> 0]
  /\ naive = [q |-> gq, seen |-> Unseen, rose |-> FALSE, shown |-> gshown]

\* A driver is started on the graph, and flattens it.
Drive(driver, wires, rule) ==
  /\ pc = "built" /\ setup = NoSetup
  /\ wires => driver = "flatten_test" /\ ~rule
  /\ \E map \in OutputMaps :
       /\ Driven(aig, driver, map)
       /\ setup' = [driver |-> driver, wires |-> wires, rule |-> rule, map |-> map]
  /\ UNCHANGED <<aigvars, time, now, gem, gq, gshown, naive>>

\* Rule 3: inputs change while the clocks are low.
InOrder(p) ==
  IF p \in Monitored THEN time > 0 /\ gem.delayed \subseteq Monitored
  ELSE \A k \in Monitored : now[k] = 0

\* A VCD gives a signal at most one new value in a timestamp.
Signal(p) ==
  /\ setup # NoSetup /\ ~gem.failed /\ time < MaxTime
  /\ p \in Stimulus(netlist, setup.driver, time) \ gem.delayed
  /\ setup.rule => InOrder(p)
  /\ now' = [now EXCEPT ![p] = 1 - @]
  /\ GemValue(p)
  /\ IF NaiveRuns THEN NaiveValue(p) ELSE UNCHANGED naive
  /\ UNCHANGED <<aigvars, time, setup, gq, gshown>>

Timestamp ==
  /\ setup # NoSetup /\ ~gem.failed /\ time < MaxTime
  /\ time' = time + 1
  /\ GemTimestamp
  /\ IF NaiveRuns THEN NaiveTimestamp ELSE UNCHANGED naive
  /\ UNCHANGED <<aigvars, now, setup>>

Next ==
  \/ NextAig /\ UNCHANGED drivervars
  \/ \E driver \in Drivers, wires, rule \in BOOLEAN : Drive(driver, wires, rule)
  \/ Timestamp
  \/ \E p \in netlist.ports : Signal(p)

Spec == Init /\ [][Next]_<<aigvars, drivervars>>

-----------------------------------------------------------------------------
(* Properties *)

Acyclic == \A S \in SUBSET Nodes : S # {} => \E n \in S : Before(n) \cap S = {}

\* A clock net goes to a port through inverters, buffers and gates.
RECURSIVE ClockNet(_)
ClockNet(source) ==
  \/ source[1] \in {"net", "top"}
  \/ /\ source[1] \in Cells
     /\ CASE Type(source[1]) \in {"INV", "BUF"} -> ClockNet(In(source[1], "A"))
          [] Type(source[1]) = "CKLNQD" -> ClockNet(In(source[1], "CP"))
          [] OTHER -> FALSE

\* The output of a clock gate feeds clock pins only.
GatesFeedClocks ==
  \A c \in Cells : \A p \in DOMAIN netlist.in[c] :
    /\ In(c, p)[1] \in Cells
    /\ Type(In(c, p)[1]) = "CKLNQD"
    => <<c, p>> \in ClockPinsOf \/ p = "CP"

\* The construction panics on no netlist of the supported form, whatever the
\* order of its pins, and builds no graph of one with a loop or an untraceable
\* clock.
BuiltWhenLegal ==
  LET traceable == \A k \in ClockPinsOf : ClockNet(In(k[1], k[2]))
  IN /\ pc = "panic" => ~(Acyclic /\ traceable /\ GatesFeedClocks)
     /\ pc = "built" => Acyclic /\ traceable

\* The graph has the values of the netlist it was built from, on all inputs and
\* in all states, and its enables latch what the cells latch on all edges; the
\* clock enable of a shift register is its clock.
AigExact ==
  pc = "built" /\ setup = NoSetup =>
    \A v \in [netlist.ports -> 0 .. 1], q \in [Sim!RegBits -> 0 .. 1] :
      /\ \A n \in {m \in Nodes : iv[m] # Undefined} : ValueOf(iv[n], v, {}, q) = Sim!Value(n, v, q)
      /\ \A edges \in SUBSET DOMAIN aig.flags, r \in Sim!RegBits :
           IF Type(r[1]) = "SRLC32E"
             THEN ValueOf(aig.macros[r[1]].clken, v, edges, q) = 1
                    <=> Sim!HasEdge(In(r[1], "CLK"), "pos", edges, v, q)
             ELSE NextBit(r[1], r[2], v, edges, q) = Sim!Latched(r[1], r[2], edges, v, q)

\* GEM shows, for the last active timestamp, what an event-driven simulator has
\* before the next one, and its registers step at the same edges: delayed
\* changes, flags, enables and folded set and reset are no more than that, and
\* an output read from the slot of a register ends in a panic of flatten_test.
GemImplementsEventSim == Sim!Spec

\* Where inputs change while the clock is low, naive_sim shows at an edge what
\* GEM shows for the edge before, the lag of tests/macro_gold_check.py:219: on
\* the same stimulus the two print the same values, one edge apart.
NaiveFollowsGem ==
  /\ NaiveRuns /\ Cardinality(Monitored) = 1 /\ setup.rule
  /\ naive.seen # Unseen /\ ~gem.failed
  => naive.shown = gshown

\* "with {actived edge flags from vcd_time}" (flatten_test.rs:756): a flag is
\* one of an edge in this timestamp.
FlagsOfTimestamp == \A k \in gem.flags : k[1] \in gem.delayed

\* "a gated clock feeding a DSP or SRL maps onto the existing enable machinery
\* unchanged" (macros.rs:534): without an edge of its clock, a shift register
\* keeps its bits.
ShiftsOnItsClock ==
  [][\A r \in Sim!RegBits :
       /\ Type(r[1]) = "SRLC32E"
       /\ ~Sim!HasEdge(In(r[1], "CLK"), "pos", Sim!EdgesFrom(gem.in, now), gem.in, gq)
       => gq'[r] = gq[r]]_<<aigvars, drivervars>>

=============================================================================
