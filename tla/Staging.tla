------------------------------ MODULE Staging -------------------------------
(***************************************************************************)
(* build_staged_aigs and StagedAIG::from_split (staging.rs): a deep        *)
(* and-inverter graph is cut at given levels into major stages.  What is   *)
(* alive at a cut leaves its stage through a staged pin and enters the     *)
(* next as an input; which pins are alive is found by counting readers and *)
(* striking them off in topological order.                                 *)
(*                                                                         *)
(* A count of readers is the set of the readers still to come.  The order  *)
(* topo_traverse_generic returns is any order that puts fan-in first, and  *)
(* pins are numbered here so that fan-in is lower; the code's own numbers  *)
(* play no part.  The last stage has no upper level (usize::MAX).          *)
(***************************************************************************)
EXTENDS Integers, Sequences, FiniteSets

CONSTANTS
  Pins,         (* aigpins                                                *)
  Endpoints,    (* the endpoint groups of the whole graph                 *)
  Designs,      (* the graphs considered                                  *)
  Splits        (* the values of --level-split considered                 *)

\* ands[p]: the two inputs of an AND gate; comb[p]: the pins an output of a
\* macro is a function of in this cycle; needs[e]: the inputs of an endpoint
\* group that are not constant.  Other pins are leaves.
ASSUME DesignAssumption ==
  /\ Pins \subseteq Nat /\ IsFiniteSet(Pins)
  /\ \A d \in Designs :
       /\ d.gates \subseteq Pins /\ d.macros \subseteq Pins \ d.gates
       /\ \A p \in d.gates : d.ands[p] \in (Pins \X Pins) /\ d.ands[p][1] < p /\ d.ands[p][2] < p
       /\ \A p \in d.macros : d.comb[p] \subseteq {q \in Pins : q < p}
       /\ d.needs \in [Endpoints -> SUBSET Pins]

ASSUME SplitAssumption ==
  \A s \in Splits : /\ s \in Seq(Nat \ {0})
                    /\ \A k \in 1 .. Len(s) - 1 : s[k] < s[k + 1]

VARIABLES
  pc,           \* "start", "rank", "visit", "settle", "done", "panic"
  design, split,
  unrealized,   \* unrealized_orig_endpoints
  inputs,       \* primary_inputs: pins staged so far
  stageds,      \* ret, the stages built
  order,        \* what topo_traverse_generic returned
  todo,         \* the part of it that a loop has still to visit
  level,        \* level_id
  wanted,       \* num_fanouts: the readers of a pin that are not struck off
  live,         \* nodes_at_split
  open,         \* endpoints the last loop has still to visit
  before        \* endpoints_before_split

vars == <<pc, design, split, unrealized, inputs, stageds, order, todo, level, wanted, live, open, before>>

-----------------------------------------------------------------------------
(* The graph. *)

FaninOf(d, p) ==
  IF p \in d.gates THEN {d.ands[p][1], d.ands[p][2]}
  ELSE IF p \in d.macros THEN d.comb[p] ELSE {}

\* topo_traverse_generic: all that is reached from some pins, not going past
\* those of stop.
Cone(d, from, stop) ==
  LET closed == {S \in SUBSET Pins :
                   from \subseteq S /\ \A p \in S \ stop : FaninOf(d, p) \subseteq S}
  IN {p \in Pins : \A S \in closed : p \in S}

Needs(d, E) == UNION {d.needs[e] : e \in E}

\* The gates this stage computes: an input is not computed again.
Gates == design.gates \ inputs

Gate(p) == <<"gate", p>>

Endpoint(e) == <<"endpoint", e>>

\* The stage in progress, the level it starts from and whether it goes as far
\* as a level counted from there.
Current == Len(stageds) + 1

\* Mutant of From: every stage counts its levels from the leaves.
FromLeaves(k) == 0

From(k) == IF k = 1 THEN 0 ELSE split[k - 1]

Within(l) == Current <= Len(split) => l <= split[Current] - From(Current)

-----------------------------------------------------------------------------
Init ==
  /\ pc = "start"
  /\ design \in Designs /\ split \in Splits
  /\ unrealized = Endpoints /\ inputs = {} /\ stageds = <<>>
  /\ order = {} /\ todo = {} /\ level = [p \in Pins |-> 0] /\ wanted = [p \in Pins |-> {}]
  /\ live = {} /\ open = {} /\ before = {}

\* Collect the inputs of what is not realized yet, and traverse.
Start ==
  /\ pc = "start"
  /\ Needs(design, unrealized) # {}
  /\ order' = Cone(design, Needs(design, unrealized), inputs)
  /\ todo' = order'
  /\ level' = [p \in Pins |-> 0]
  /\ wanted' = [p \in Pins |-> {}]
  /\ live' = {} /\ before' = {}
  /\ pc' = "rank"
  /\ UNCHANGED <<design, split, unrealized, inputs, stageds, open>>

\* The assertion that something is left to realize.
NothingLeft ==
  /\ pc = "start"
  /\ Needs(design, unrealized) = {}
  /\ pc' = "panic"
  /\ UNCHANGED <<design, split, unrealized, inputs, stageds, order, todo, level, wanted, live, open, before>>

\* A pin whose turn a topological order allows.
NextPin(p) == p \in todo /\ (p \notin inputs => FaninOf(design, p) \cap todo = {})

Higher(a, b) == IF a >= b THEN a ELSE b

\* Levels and readers count AND gates alone.
Rank(p) ==
  /\ pc = "rank"
  /\ NextPin(p)
  /\ todo' = todo \ {p}
  /\ IF p \in Gates
       THEN /\ level' = [level EXCEPT ![p] = Higher(level[design.ands[p][1]], level[design.ands[p][2]]) + 1]
            /\ wanted' = [q \in Pins |-> wanted[q] \cup (IF q \in FaninOf(design, p) THEN {Gate(p)} ELSE {})]
       ELSE UNCHANGED <<level, wanted>>
  /\ UNCHANGED <<pc, design, split, unrealized, inputs, stageds, order, live, open, before>>

EndpointsReading(q) == {Endpoint(e) : e \in {x \in unrealized : q \in design.needs[x]}}

\* The endpoints are readers too; the walk begins.
RankEnd ==
  /\ pc = "rank" /\ todo = {}
  /\ wanted' = [q \in Pins |-> wanted[q] \cup EndpointsReading(q)]
  /\ todo' = order
  /\ pc' = "visit"
  /\ UNCHANGED <<design, split, unrealized, inputs, stageds, order, level, live, open, before>>

\* Mutant of StrikeOff: endpoints stay readers of their inputs.
StrikeGateOff(r, P) == [q \in Pins |-> IF q \in P /\ r[1] = "gate" THEN wanted[q] \ {r} ELSE wanted[q]]

\* A reader that is done is struck off what it read.
StrikeOff(r, P) == [q \in Pins |-> IF q \in P THEN wanted[q] \ {r} ELSE wanted[q]]

\* Pins no other reader is left for are alive no longer; the assertion is that
\* each of them was (swap_remove).
Drop(r, P, alive) ==
  LET dead == {q \in P : StrikeOff(r, P)[q] = {}}
  IN /\ wanted' = StrikeOff(r, P)
     /\ live' = alive \ dead
     /\ pc' = IF dead \subseteq alive THEN pc ELSE "panic"

\* Mutant of Entered: gates are not entered as alive.
EnteredLeaf(p) == IF p \in Gates THEN live ELSE live \cup {p}

Entered(p) == live \cup {p}

Visit(p) ==
  /\ pc = "visit"
  /\ NextPin(p)
  /\ todo' = todo \ {p}
  /\ \/ ~Within(level[p]) /\ UNCHANGED <<pc, live, wanted>>
     \/ Within(level[p]) /\ p \notin Gates /\ live' = Entered(p) /\ UNCHANGED <<pc, wanted>>
     \/ Within(level[p]) /\ p \in Gates /\ Drop(Gate(p), FaninOf(design, p), Entered(p))
  /\ UNCHANGED <<design, split, unrealized, inputs, stageds, order, level, open, before>>

VisitEnd ==
  /\ pc = "visit" /\ todo = {}
  /\ open' = unrealized
  /\ pc' = "settle"
  /\ UNCHANGED <<design, split, unrealized, inputs, stageds, order, todo, level, wanted, live, before>>

\* endpt_level_id is the highest level of an endpoint's inputs.
Reached(e) == \A p \in design.needs[e] : Within(level[p])

Settle(e) ==
  /\ pc = "settle"
  /\ e \in open
  /\ open' = open \ {e}
  /\ IF Reached(e)
       THEN before' = before \cup {e} /\ Drop(Endpoint(e), design.needs[e], live)
       ELSE UNCHANGED <<pc, live, wanted, before>>
  /\ UNCHANGED <<design, split, unrealized, inputs, stageds, order, todo, level>>

StagedPins == live \ inputs

StageBuilt ==
  [from |-> From(Current), pins |-> StagedPins, endpoints |-> before, inputs |-> inputs]

\* Mutant of StillUnrealized: what a stage realizes is not taken out.
NeverRealized == unrealized

StillUnrealized == unrealized \ before

Handed == inputs \cup StagedPins

\* A stage is complete; without staged pins nothing is left for another.
NextStage ==
  /\ pc = "settle" /\ open = {}
  /\ Current <= Len(split)
  /\ stageds' = Append(stageds, StageBuilt)
  /\ unrealized' = StillUnrealized
  /\ inputs' = Handed
  /\ pc' = IF StagedPins = {} THEN "done" ELSE "start"
  /\ UNCHANGED <<design, split, order, todo, level, wanted, live, open, before>>

LastStage ==
  /\ pc = "settle" /\ open = {}
  /\ Current > Len(split)
  /\ stageds' = Append(stageds, StageBuilt)
  /\ pc' = "done"
  /\ UNCHANGED <<design, split, unrealized, inputs, order, todo, level, wanted, live, open, before>>

Next ==
  \/ Start \/ NothingLeft \/ RankEnd \/ VisitEnd \/ NextStage \/ LastStage
  \/ \E p \in Pins : Rank(p) \/ Visit(p)
  \/ \E e \in Endpoints : Settle(e)

Spec == Init /\ [][Next]_vars

-----------------------------------------------------------------------------
(* Properties. *)

Readers == {Gate(p) : p \in Pins} \cup {Endpoint(e) : e \in Endpoints}

Stages == [from : Int, pins : SUBSET Pins, endpoints : SUBSET Endpoints, inputs : SUBSET Pins]

TypeOK ==
  /\ pc \in {"start", "rank", "visit", "settle", "done", "panic"}
  /\ design \in Designs /\ split \in Splits
  /\ unrealized \subseteq Endpoints /\ open \subseteq unrealized /\ before \subseteq Endpoints
  /\ inputs \subseteq Pins /\ order \subseteq Pins /\ todo \subseteq order /\ live \subseteq Pins
  /\ level \in [Pins -> Nat]
  /\ wanted \in [Pins -> SUBSET Readers]
  /\ stageds \in Seq(Stages)
  /\ pc # "done" => Len(stageds) <= Len(split)

\* Who reads a pin in the stage in progress, and who of them comes after it.
GateReaders(p) == {r \in Gates \cap order : p \in FaninOf(design, r)}

EndpointReaders(p) == {e \in unrealized : p \in design.needs[e]}

LateReader(p) ==
  \/ \E r \in GateReaders(p) : ~Within(level[r])
  \/ \E e \in EndpointReaders(p) : ~Reached(e)

Unread(p) == GateReaders(p) = {} /\ EndpointReaders(p) = {}

\* The pins a stage hands on are exactly those within its levels that some gate
\* or endpoint beyond them reads, whatever order the pins were visited in; and
\* those no gate or endpoint reads at all, which only a macro can have brought
\* in (staging.rs:126-169).
LiveAreWanted ==
  pc = "settle" /\ open = {} =>
    live = {p \in order : Within(level[p]) /\ (LateReader(p) \/ Unread(p))}

\* Counting never drops a pin that is not alive: the assertions on swap_remove
\* hold, and the only one that fails is that something is left to realize
\* (staging.rs:103-105, 144-165).
PanicOnlyIdle == pc = "panic" => Needs(design, unrealized) = {}

\* Every endpoint is realized in exactly one stage: ending early loses none,
\* and none is realized again (staging.rs:204-217).
EndpointsOnce ==
  /\ \A i, j \in DOMAIN stageds : i # j => stageds[i].endpoints \cap stageds[j].endpoints = {}
  /\ pc = "done" => UNION {stageds[i].endpoints : i \in DOMAIN stageds} = Endpoints

\* Levels of the uncut graph.
Depth ==
  LET depth[p \in Pins] ==
        IF p \in design.gates THEN Higher(depth[design.ands[p][1]], depth[design.ands[p][2]]) + 1 ELSE 0
  IN depth

\* In a graph without macros an endpoint is realized in the stage its depth in
\* the uncut graph falls into, although every stage counts levels from its own
\* inputs (staging.rs:107-125, 156-158, 199-203).
OnTime ==
  pc = "done" /\ design.macros = {} =>
    LET depth == Depth
    IN \A k \in DOMAIN stageds : \A e \in stageds[k].endpoints :
         /\ k <= Len(split) => \A p \in design.needs[e] : depth[p] <= split[k]
         /\ k > 1 => \E p \in design.needs[e] : depth[p] > split[k - 1]

\* What a stage computes: the gates its staged pins and endpoints need that it
\* does not take as inputs.
Computes(s) == (Cone(design, s.pins \cup Needs(design, s.endpoints), s.inputs) \cap design.gates) \ s.inputs

\* In a graph without macros no gate is computed by two stages
\* (staging.rs:100-106, 171-178).
ComputedOnce ==
  pc = "done" /\ design.macros = {} =>
    \A i, j \in DOMAIN stageds : i # j => Computes(stageds[i]) \cap Computes(stageds[j]) = {}

\* A cut of a graph without macros: every endpoint in the stage of its depth,
\* every gate in one stage (staging.rs:188-229).
StagedAsCut == OnTime /\ ComputedOnce

\* "If the netlist ends early before all split points, the length might be
\* shorter" (staging.rs:186): a graph that has endpoints to compute is staged.
StagedWheneverDue == pc = "panic" => Needs(design, Endpoints) = {}

=============================================================================
