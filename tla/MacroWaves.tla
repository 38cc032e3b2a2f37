----------------------------- MODULE MacroWaves -----------------------------
(***************************************************************************)
(* order_macro_waves (pe.rs): the macros a partition evaluates between its *)
(* boomerang stages, grouped into waves.  A wave becomes one macro phase,  *)
(* whose lanes run in parallel, so whatever a macro reads must have been   *)
(* produced by an earlier wave, except the carry a CARRY4 takes from the   *)
(* lane just before it through the scan.                                   *)
(*                                                                         *)
(* Slots are grouped by what they feed.  CARRY4: ci, lo (CYINIT, S and DI  *)
(* of the low bits), hi (S and DI of bit 3); outputs o (O[0]) and co       *)
(* (CO[3]).  SRLC32E: a (address), d (D, CE and the clock enable); outputs *)
(* q and q31.  A pin is <<cell, port>>, a cell a macro or a gate.  The     *)
(* orders the code takes from its index sets are left open where the sweep *)
(* may visit pins in more than one topological order.                      *)
(***************************************************************************)
EXTENDS Integers, FiniteSets, SequencesExt

CONSTANTS
  Macro,     (* indices into aig.macros                                     *)
  Gate,      (* AND gates between macros                                    *)
  Nets,      (* the netlists considered: records kind, wire, gate, targets  *)
  MaxLanes,  (* 32 in the source: MACRO_MAX_LANES                           *)
  MaxDepth   (* bound: depths are counted up to here                        *)

ASSUME IndexAssumption ==
  /\ Macro \subseteq Nat /\ Gate \subseteq Nat /\ Macro \cap Gate = {}
  /\ IsFiniteSet(Macro) /\ IsFiniteSet(Gate)

ASSUME BoundAssumption == MaxLanes \in Nat \ {0} /\ MaxDepth \in Nat

Kind == {"carry4", "srl"}

Ports == [carry4 |-> {"o", "co"}, srl |-> {"q", "q31"}]

Slots == [carry4 |-> {"ci", "lo", "hi"}, srl |-> {"a", "d"}]

\* The slots an output is a combinational function of: triangular for CARRY4,
\* the address only for an SRL's Q, nothing for its Q31.
CombSlots == [o |-> {"ci", "lo"}, co |-> {"ci", "lo", "hi"}, q |-> {"a"}, q31 |-> {}]

\* The slots that feed the state a phase commits.
StateSlots == [carry4 |-> {}, srl |-> {"d"}]

NoPin == <<>>

VARIABLES
  pc,         \* "sweep", "link", "fixpoint", "heads", "tails", "pack", "done"
  net,        \* the netlist
  order,      \* the pins in the cone of the targets
  swept,      \* those the forward sweep has passed
  pinDepth,
  macroDepth,
  succ,       \* <<p, m>>: m's CI is p's CO[3], and m continues p's chain
  chains,     \* chains not packed yet: [depth, lanes]
  waves       \* [depth, lanes], in the order of their phases

vars == <<pc, net, order, swept, pinDepth, macroDepth, succ, chains, waves>>

-----------------------------------------------------------------------------
(* The netlist. *)

Outputs(n) == UNION {{<<m, o>> : o \in Ports[n.kind[m]]} : m \in Macro}

Pin(n) == Outputs(n) \cup {<<g, "y">> : g \in Gate}

\* Depths are counted as far as the netlists go.
ASSUME NetAssumption ==
  \A n \in Nets :
    /\ n.kind \in [Macro -> Kind]
    /\ \A m \in Macro : n.wire[m] \in [Slots[n.kind[m]] -> Pin(n) \cup {NoPin}]
    /\ n.gate \in [Gate -> SUBSET Pin(n)]
    /\ n.targets \subseteq Pin(n)
    /\ Cardinality(Outputs(n)) <= MaxDepth

IsCarry4(m) == net.kind[m] = "carry4"

IsMacroPin(pin) == pin[1] \in Macro

Wired(n, m, slots) == {n.wire[m][s] : s \in slots} \ {NoPin}

\* for_each_comb_fanin, and an AND gate's inputs.
Fanin(n, pin) ==
  IF pin[1] \in Macro THEN Wired(n, pin[1], CombSlots[pin[2]]) ELSE n.gate[pin[1]]

EvalFanin(m) == Wired(net, m, UNION {CombSlots[o] : o \in Ports[net.kind[m]]})

StateFanin(m) == Wired(net, m, StateSlots[net.kind[m]])

\* topo_traverse_generic: all that the targets reach through their fan-in.
ConeOf(n) ==
  LET size == Cardinality(Pin(n))
      reach[k \in 0 .. size] ==
        IF k = 0 THEN n.targets
        ELSE LET r == reach[k - 1] IN r \cup UNION {Fanin(n, pin) : pin \in r}
  IN reach[size]

InCone == {m \in Macro : \E o \in Ports[net.kind[m]] : <<m, o>> \in order}

-----------------------------------------------------------------------------
MaxOf(S) == CHOOSE x \in S : \A y \in S : y <= x

Saturate(k) == IF k > MaxDepth THEN MaxDepth ELSE k

Init ==
  /\ pc = "sweep"
  /\ net \in Nets
  /\ order = ConeOf(net)
  /\ swept = {}
  /\ pinDepth = [pin \in Pin(net) |-> 0]
  /\ macroDepth = [m \in Macro |-> 0]
  /\ succ = {} /\ chains = {} /\ waves = <<>>

\* One pin of the topological order.  A pin not swept yet counts as depth 0:
\* an SRL's D cone may come later in the order, or not be in it.
Sweep(pin) ==
  /\ pc = "sweep"
  /\ pin \in order \ swept
  /\ Fanin(net, pin) \subseteq swept
  /\ LET read  == Fanin(net, pin) \cup (IF IsMacroPin(pin) THEN StateFanin(pin[1]) ELSE {})
         fanin == MaxOf({0} \cup {pinDepth[q] : q \in read})
     IN IF IsMacroPin(pin)
          THEN /\ pinDepth' = [pinDepth EXCEPT ![pin] = fanin + 1]
               /\ macroDepth' = [macroDepth EXCEPT ![pin[1]] = MaxOf({@, fanin + 1})]
          ELSE /\ pinDepth' = [pinDepth EXCEPT ![pin] = fanin]
               /\ UNCHANGED macroDepth
  /\ swept' = swept \cup {pin}
  /\ UNCHANGED <<pc, net, order, succ, chains, waves>>

SweepEnd ==
  /\ pc = "sweep"
  /\ swept = order
  /\ pc' = IF InCone = {} THEN "done" ELSE "link"
  /\ UNCHANGED <<net, order, swept, pinDepth, macroDepth, succ, chains, waves>>

\* CARRY4s whose CI is an in-cone CARRY4's CO[3].
Links == {l \in InCone \X InCone :
            IsCarry4(l[1]) /\ IsCarry4(l[2]) /\ net.wire[l[2]]["ci"] = <<l[1], "co">>}

\* Only the first of several CARRY4s on one CO[3] continues its chain.
LinkChains ==
  /\ pc = "link"
  /\ \E S \in SUBSET Links :
       /\ \A l \in Links : \E k \in S : k[1] = l[1]
       /\ \A k, l \in S : k[1] = l[1] => k = l
       /\ succ' = S
  /\ pc' = "fixpoint"
  /\ UNCHANGED <<net, order, swept, pinDepth, macroDepth, chains, waves>>

\* Mutant of HasPred: every macro heads a chain.
NoPred(m) == FALSE

HasPred(m) == \E l \in succ : l[2] = m

\* Mutant of Producers: a macro may wait for itself.
SelfProducers(m) ==
  LET deps == (EvalFanin(m) \cup StateFanin(m))
                \ (IF HasPred(m) THEN {net.wire[m]["ci"]} ELSE {})
  IN {pin[1] : pin \in deps} \cap InCone

\* The macros m reads directly, other than through a scanned CI.
Producers(m) ==
  LET deps == (EvalFanin(m) \cup StateFanin(m))
                \ (IF HasPred(m) THEN {net.wire[m]["ci"]} ELSE {})
  IN {pin[1] : pin \in deps} \cap (InCone \ {m})

Need(m) == MaxOf({macroDepth[m]} \cup {macroDepth[p] + 1 : p \in Producers(m)})

\* One change of the fixpoint; the passes over in_cone may take them in any order.
Deepen(m) ==
  /\ pc = "fixpoint"
  /\ m \in InCone
  /\ Need(m) > macroDepth[m]
  /\ macroDepth' = [macroDepth EXCEPT ![m] = Saturate(Need(m))]
  /\ UNCHANGED <<pc, net, order, swept, pinDepth, succ, chains, waves>>

FixpointEnd ==
  /\ pc = "fixpoint"
  /\ \A m \in InCone : Need(m) <= macroDepth[m]
  /\ pc' = "heads"
  /\ UNCHANGED <<net, order, swept, pinDepth, macroDepth, succ, chains, waves>>

Following(m) == {l[2] : l \in {k \in succ : k[1] = m}}

\* The chain from m: up to MaxLanes links, stopping before one in used.
Walk(m, used) ==
  LET walk[n \in 1 .. MaxLanes] ==
        IF n = 1 THEN <<m>>
        ELSE LET c == walk[n - 1]
                 nexts == Following(Last(c)) \ used
             IN IF Len(c) = n - 1 /\ nexts # {} THEN Append(c, CHOOSE x \in nexts : TRUE) ELSE c
  IN walk[MaxLanes]

\* A chain is keyed by the depth of its head.
Chain(m, used) == [depth |-> macroDepth[m], lanes |-> Walk(m, used)]

HeadChains ==
  /\ pc = "heads"
  /\ chains' = {Chain(m, {}) : m \in {h \in InCone : ~HasPred(h)}}
  /\ pc' = "tails"
  /\ UNCHANGED <<net, order, swept, pinDepth, macroDepth, succ, waves>>

Placed == UNION {ToSet(c.lanes) : c \in chains}

\* What lies beyond a split starts a chain of its own.  in_cone holds a chain's
\* links in chain order, since a link's outputs are swept after its CI.
TailChain(m) ==
  /\ pc = "tails"
  /\ m \in InCone \ Placed
  /\ \A l \in succ : l[2] = m => l[1] \in Placed
  /\ chains' = chains \cup {Chain(m, Placed)}
  /\ UNCHANGED <<pc, net, order, swept, pinDepth, macroDepth, succ, waves>>

TailsEnd ==
  /\ pc = "tails"
  /\ InCone \subseteq Placed
  /\ pc' = "pack"
  /\ UNCHANGED <<net, order, swept, pinDepth, macroDepth, succ, chains, waves>>

\* Mutant of SortsBefore: by first lane alone.
SortsByLane(b, c) == b.lanes[1] <= c.lanes[1]

SortsBefore(b, c) ==
  b.depth < c.depth \/ (b.depth = c.depth /\ b.lanes[1] <= c.lanes[1])

\* The next chain in the sorted order joins the last wave if it has its depth
\* and room for it.
PackChain ==
  /\ pc = "pack"
  /\ \E c \in chains :
       /\ \A b \in chains : SortsBefore(c, b)
       /\ LET fits == /\ waves # <<>>
                      /\ Last(waves).depth = c.depth
                      /\ Len(Last(waves).lanes) + Len(c.lanes) <= MaxLanes
          IN waves' = IF fits
                        THEN [waves EXCEPT ![Len(waves)] =
                                [depth |-> c.depth, lanes |-> @.lanes \o c.lanes]]
                        ELSE Append(waves, c)
       /\ chains' = chains \ {c}
  /\ UNCHANGED <<pc, net, order, swept, pinDepth, macroDepth, succ>>

PackEnd ==
  /\ pc = "pack"
  /\ chains = {}
  /\ pc' = "done"
  /\ UNCHANGED <<net, order, swept, pinDepth, macroDepth, succ, chains, waves>>

Finished == pc = "done" /\ UNCHANGED vars

Next ==
  \/ \E pin \in order : Sweep(pin)
  \/ SweepEnd \/ LinkChains
  \/ \E m \in Macro : Deepen(m) \/ TailChain(m)
  \/ FixpointEnd \/ HeadChains \/ TailsEnd
  \/ PackChain \/ PackEnd
  \/ Finished

Spec == Init /\ [][Next]_vars /\ WF_vars(Next)

-----------------------------------------------------------------------------
TypeOK ==
  /\ pc \in {"sweep", "link", "fixpoint", "heads", "tails", "pack", "done"}
  /\ swept \subseteq order /\ order \subseteq Pin(net)
  /\ pinDepth \in [Pin(net) -> Nat]
  /\ macroDepth \in [Macro -> 0 .. MaxDepth]
  /\ succ \subseteq Macro \X Macro
  /\ \A c \in chains \cup ToSet(waves) : c.depth \in 1 .. MaxDepth /\ c.lanes \in Seq(Macro)

\* The lanes a macro has been given, as <<wave, lane>>.
LanesOf(m) ==
  {x \in (1 .. Len(waves)) \X (1 .. MaxLanes) :
     x[2] <= Len(waves[x[1]].lanes) /\ waves[x[1]].lanes[x[2]] = m}

WaveOf(m) == CHOOSE k \in 1 .. Len(waves) : m \in ToSet(waves[k].lanes)

\* is_chain_start, for lane l of wave k.
IsChainStart(k, l) ==
  \/ l = 1
  \/ LET me == waves[k].lanes[l]
         prev == waves[k].lanes[l - 1]
     IN ~(IsCarry4(me) /\ IsCarry4(prev) /\ net.wire[me]["ci"] = <<prev, "co">>)

(***************************************************************************)
(* Every macro of the cone gets exactly one lane of one wave, however the  *)
(* chains were split and packed: an SRL in two lanes would shift twice a   *)
(* cycle, a CARRY4 in none would leave its outputs unwritten.  The sweep   *)
(* and the packing are well formed on the way.                             *)
(***************************************************************************)
PlacedOnce ==
  /\ TypeOK
  /\ pc = "done" =>
    /\ \A m \in InCone : Cardinality(LanesOf(m)) = 1
    /\ \A k \in 1 .. Len(waves) : ToSet(waves[k].lanes) \subseteq InCone /\ waves[k].lanes # <<>>

\* The macro outputs a pin is computed from within the phase's cone.
Sources(pin) ==
  LET through[n \in 0 .. Cardinality(Gate)] ==
        IF n = 0 THEN {pin}
        ELSE LET r == through[n - 1]
             IN r \cup UNION {net.gate[x[1]] : x \in {y \in r : ~IsMacroPin(y)}}
  IN {q \in through[Cardinality(Gate)] : IsMacroPin(q)}

\* The slots that outputs in the cone are a function of.
Needed(m) == UNION {CombSlots[o] : o \in {x \in Ports[net.kind[m]] : <<m, x>> \in order}}

\* The in-cone macros that lane l of wave k gathers from shared state: all that
\* either of its outputs reads, in the cone or not.  An SRL reads its own
\* register before it shifts.
Gathered(k, l) ==
  LET m    == waves[k].lanes[l]
      own  == UNION {CombSlots[o] : o \in Ports[net.kind[m]]}
      deps == Wired(net, m, own \ (IF IsChainStart(k, l) THEN {} ELSE {"ci"})) \cup StateFanin(m)
      pins == UNION {Sources(pin) : pin \in deps}
  IN {pin[1] : pin \in {q \in pins : ~(q = <<m, "q31">> \/ q = <<m, "q">>)}} \cap InCone

(***************************************************************************)
(* Every macro in wave k depends only on ordinary logic and on macros in   *)
(* waves before k (pe.rs:793-794).                                         *)
(***************************************************************************)
WavesOrdered ==
  pc = "done" =>
    \A k \in 1 .. Len(waves) : \A l \in 1 .. Len(waves[k].lanes) :
      \A p \in Gathered(k, l) : WaveOf(p) < k

\* The lane whose depth keys the chain that lane l of wave k belongs to.
HeadOf(k, l) ==
  waves[k].lanes[MaxOf({j \in 1 .. l : IsChainStart(k, j)})]

\* The assumption of the key (pe.rs:938-940): a chain's later links take only
\* their carry from inside the chain, nothing that its head does not wait for
\* as well, and the fixpoint has not pushed a head past its links.
KeyedByHead ==
  \A k \in 1 .. Len(waves) : \A l \in 1 .. Len(waves[k].lanes) :
    /\ ~IsChainStart(k, l) =>
         \A p \in Gathered(k, l) : macroDepth[p] < macroDepth[HeadOf(k, l)]
    /\ \A m \in Following(waves[k].lanes[l]) : macroDepth[HeadOf(k, l)] < macroDepth[m]

\* What gates read of a macro is as deep as the macro, and no SRL shifts in, and
\* no output outside the cone is a function of, what a gate computes: the
\* fixpoint only sees the pins a macro reads directly.
GatesSeeDepth ==
  /\ \A pin \in order : ~IsMacroPin(pin) =>
       \A q \in Fanin(net, pin) : IsMacroPin(q) => pinDepth[q] = macroDepth[q[1]]
  /\ \A m \in InCone :
       \A pin \in (EvalFanin(m) \ Wired(net, m, Needed(m))) \cup StateFanin(m) : IsMacroPin(pin)

\* No CARRY4 has its own low bit wired to its high bits (through a gate, the
\* bit would be less deep than its macro).
NoneReadsItself ==
  \A m \in InCone : \A pin \in EvalFanin(m) : IsCarry4(m) => pin[1] # m

(***************************************************************************)
(* Where these hold, the waves are ordered: consumers of a scanned link, of *)
(* a split chain's tail, of a CARRY4's low sum bit and of a cascaded SRL   *)
(* all wait for the wave that produces what they gather.                   *)
(***************************************************************************)
OrderedWhenKeyed ==
  pc = "done" /\ KeyedByHead /\ GatesSeeDepth /\ NoneReadsItself => WavesOrdered

(***************************************************************************)
(* Crossing a macro costs one wave (pe.rs:859): a macro lies no deeper     *)
(* than the cone has macro outputs to cross.                               *)
(***************************************************************************)
DepthBounded ==
  \A m \in InCone : macroDepth[m] <= Cardinality({pin \in order : IsMacroPin(pin)})

(***************************************************************************)
(* The waves are returned: the fixpoint over the macros ends.              *)
(***************************************************************************)
Terminates == <>(pc = "done")

=============================================================================
