------------------------------- MODULE RepCut -------------------------------
(***************************************************************************)
(* RCHyperGraph (repcut.rs): once the graph is staged (Staging), the       *)
(* endpoint groups of a stage, or those of them that are still unmapped,   *)
(* become the vertices of a hypergraph, and the groups whose logic shares  *)
(* pins an edge weighted by how many pins they share.  A partitioner that  *)
(* is not part of this repository then divides the vertices (CutMap).      *)
(*                                                                         *)
(* Groups are swept in blocks, each in reverse of the order in which       *)
(* topo_traverse_generic reaches the logic of that block; the blocks are   *)
(* independent of each other and are taken one by one here.  A pin that is *)
(* not in the order of a block has no set there (None), here the empty     *)
(* one.  The weights of vertices, which are sums of fractions, are left    *)
(* out.  Which aigpin has the highest number is open: one no gate reads.   *)
(***************************************************************************)
EXTENDS Staging, SequencesExt

CONSTANTS
  BlockSize,    (* REPCUT_BITSET_BLOCK_SIZE: 4096 in the source            *)
  EdgeLimit     (* REPCUT_HYPERGRAPH_EDGE_SIZE_LIMIT: 1000 in the source   *)

ASSUME RepCutAssumption ==
  BlockSize \in Nat \ {0} /\ EdgeLimit \in Nat \ {0} /\ IsFiniteSet(Endpoints)

VARIABLES
  step,       \* "idle", "sweep", "edges", "done"
  sub,        \* the StagedAIG whose groups are divided
  last,       \* num_aigpins, the pin with the highest number
  block,      \* the block that is swept
  ahead,      \* what of its order is not swept yet
  segments,   \* segments_blockid_nodeid
  clusters,   \* sets of groups with the number of pins they share
  edges       \* to_edges

rcvars == <<step, sub, last, block, ahead, segments, clusters, edges>>

-----------------------------------------------------------------------------
NumGroups == Len(sub.pins) + Len(sub.endpoints)

\* get_endpoint_group and for_each_input: staged pins come first.
GroupNeeds(g) ==
  IF g <= Len(sub.pins) THEN {sub.pins[g]} ELSE design.needs[sub.endpoints[g - Len(sub.pins)]]

GroupsOf(b) == {g \in 1 .. NumGroups : (b - 1) * BlockSize < g /\ g <= b * BlockSize}

NumBlocks == (NumGroups + BlockSize - 1) \div BlockSize

BlockOrder(b) == Cone(design, UNION {GroupNeeds(g) : g \in GroupsOf(b)}, sub.inputs)

\* Mutant of Fanouts: a gate is entered under its first input alone.
FanoutsOfFirst(p) == {r \in design.gates : p = design.ands[r][1]} \cup {r \in design.macros : p \in design.comb[r]}

\* The fan-out table of the whole graph.
Fanouts(p) == {r \in Pins : p \in FaninOf(design, r)}

\* The groups of a block that read a pin themselves (ess_init).
ReadBy(b, p) == {g \in GroupsOf(b) : p \in GroupNeeds(g)}

-----------------------------------------------------------------------------
InitRC ==
  /\ Init
  /\ step = "idle"
  /\ last = 0
  /\ sub = [pins |-> <<>>, endpoints |-> <<>>, inputs |-> {}]
  /\ block = 0 /\ ahead = {} /\ segments = <<>> /\ clusters = <<>> /\ edges = {}

\* to_endpoint_subset: some of the groups of a stage, in their order.
Divide(k, pins, endpoints) ==
  /\ pc = "done" /\ step = "idle"
  /\ pins \subseteq stageds[k].pins /\ endpoints \subseteq stageds[k].endpoints
  /\ sub' = [pins |-> SetToSeq(pins), endpoints |-> SetToSeq(endpoints), inputs |-> stageds[k].inputs]
  /\ step' = "sweep" /\ block' = 0 /\ ahead' = {} /\ segments' = <<>>
  /\ UNCHANGED <<vars, last, clusters, edges>>

NoSets == [p \in Pins |-> {}]

NextBlock ==
  /\ step = "sweep" /\ ahead = {} /\ block < NumBlocks
  /\ block' = block + 1
  /\ ahead' = BlockOrder(block + 1)
  /\ segments' = Append(segments, NoSets)
  /\ UNCHANGED <<vars, step, sub, last, clusters, edges>>

\* A pin comes after the pins that made the traversal reach it.
Sweep(p) ==
  /\ step = "sweep" /\ p \in ahead
  /\ \A r \in ahead \ sub.inputs : p \notin FaninOf(design, r)
  /\ ahead' = ahead \ {p}
  /\ segments' = [segments EXCEPT ![block][p] =
                    ReadBy(block, p) \cup UNION {segments[block][r] : r \in Fanouts(p)}]
  /\ UNCHANGED <<vars, step, sub, last, block, clusters, edges>>

\* EndpointSet: what the blocks found for a pin.
SetOf(p) == UNION {segments[b][p] : b \in DOMAIN segments}

\* The loop over pins (1..aig.num_aigpins) leaves out the last.
CountedPins(highest) == Pins \ {highest}

Shared(P) == {S \in {SetOf(p) : p \in P} : Cardinality(S) >= 2}

Cluster(highest) ==
  /\ step = "sweep" /\ ahead = {} /\ block = NumBlocks
  /\ \A r \in design.gates : highest \notin FaninOf(design, r)
  /\ last' = highest
  /\ LET P == CountedPins(highest)
     IN clusters' = [S \in Shared(P) |-> Cardinality({p \in P : SetOf(p) = S})]
  /\ step' = "edges"
  /\ UNCHANGED <<vars, sub, block, ahead, segments, edges>>

\* A set above the limit is sampled: its first members fill the edge, the next
\* replaces one of them for certain, a later one perhaps (num_prev_nodes is
\* drawn below, not up to).
Samples(S) ==
  LET upTo[n \in 0 .. NumGroups] ==
        IF n = 0 THEN {{}}
        ELSE LET earlier == upTo[n - 1]
                 taken == Cardinality(S \cap (1 .. n))
                 replaced == UNION {{(e \ {m}) \cup {n} : m \in e} : e \in earlier}
             IN IF n \notin S THEN earlier
                ELSE IF taken <= EdgeLimit THEN {e \cup {n} : e \in earlier}
                ELSE IF taken = EdgeLimit + 1 THEN replaced ELSE earlier \cup replaced
  IN upTo[NumGroups]

ToEdges ==
  /\ step = "edges"
  /\ step' = "done"
  /\ \E pick \in [DOMAIN clusters -> UNION {Samples(S) : S \in DOMAIN clusters}] :
       /\ \A S \in DOMAIN clusters : pick[S] \in Samples(S)
       /\ edges' = {<<S, clusters[S], pick[S]>> : S \in DOMAIN clusters}
  /\ UNCHANGED <<vars, sub, last, block, ahead, segments, clusters>>

StageNext == Next /\ UNCHANGED rcvars

NextRC ==
  \/ StageNext
  \/ \E k \in DOMAIN stageds :
       \E pins \in SUBSET stageds[k].pins, endpoints \in SUBSET stageds[k].endpoints :
         Divide(k, pins, endpoints)
  \/ NextBlock \/ ToEdges
  \/ \E p \in Pins : Sweep(p) \/ Cluster(p)

SpecRC == InitRC /\ [][NextRC]_<<vars, rcvars>>

-----------------------------------------------------------------------------
(* Properties. *)

RepTypeOK ==
  /\ step \in {"idle", "sweep", "edges", "done"}
  /\ block \in 0 .. NumBlocks /\ Len(segments) = block
  /\ ahead \subseteq Pins /\ last \in Pins \cup {0}
  /\ \A b \in DOMAIN segments : \A p \in Pins : segments[b][p] \subseteq GroupsOf(b)

\* The groups a pin is computed for.
Users(p) == {g \in 1 .. NumGroups : p \in Cone(design, GroupNeeds(g), sub.inputs)}

\* In a graph without macros a pin the stage computes is charged to exactly the
\* groups whose logic it is part of, although the sweep follows the fan-out of
\* the whole graph, past the stage's inputs.  Those inputs, and a pin that an
\* output of a macro staged earlier is a function of, may be charged to more
\* groups, never to fewer (repcut.rs:88-106).
SegmentsExact ==
  step = "edges" =>
    \A p \in Pins : /\ Users(p) \subseteq SetOf(p)
                    /\ p \notin sub.inputs /\ design.macros = {} => SetOf(p) = Users(p)

\* Each edge joins two or more groups that share a pin, no more of them than
\* allowed, and weighs the pins that exactly these groups share, but for the
\* last pin (repcut.rs:112-123, 195-226).
EdgesWeighed ==
  step = "done" /\ sub.inputs = {} =>
    /\ \A e \in edges :
         /\ Cardinality(e[3]) = IF Cardinality(e[1]) > EdgeLimit THEN EdgeLimit ELSE Cardinality(e[1])
         /\ e[3] \subseteq e[1]
         /\ e[2] = Cardinality({p \in CountedPins(last) : Users(p) = e[1]})
    /\ \A p \in CountedPins(last) : Cardinality(Users(p)) >= 2 => \E e \in edges : e[1] = Users(p)

\* The hypergraph weighs what groups share, and nothing else (repcut.rs:57-226).
HypergraphExact == SegmentsExact /\ EdgesWeighed

\* "AIG pins are numbered from 1 to num_aigpins inclusive" (aig.rs:143): every
\* pin that two groups share is in an edge.
EveryPinWeighed ==
  step = "done" /\ sub.inputs = {} =>
    \A p \in Pins : Cardinality(Users(p)) >= 2 => \E e \in edges : e[1] = Users(p)

=============================================================================
