------------------------------ MODULE BuildOne ------------------------------
(***************************************************************************)
(* Partition::build_one (pe.rs): a partition's logic cone is cut into      *)
(* boomerang stages, between which the phases of its macros run.  A stage  *)
(* reads pins from the shared state the previous stage left, and leaves    *)
(* only what its own tree holds: a pin stays addressable as long as each   *)
(* stage is made to pass it through, and the flattener panics on a pin     *)
(* that is not there (flatten.rs:875-887, macros.rs:501-505).              *)
(*                                                                         *)
(* A macro stands for one mid-partition output of its own, and a carry     *)
(* chain is one macro: MacroWaves says how chains and lanes are packed.    *)
(* Pins are numbered as the graph creates them, fan-in first.  Which nodes *)
(* a stage takes and which of its targets it writes depends on rows of     *)
(* 8192 slots and the write-out budget.  A Roomy partition is far below    *)
(* both, so that these choices are the code's own; otherwise any choice    *)
(* may be the one that fits.                                               *)
(***************************************************************************)
EXTENDS Integers, FiniteSets, Sequences, FiniteSetsExt

CONSTANTS
  Pins,     (* aigpins, 1 .. n                                              *)
  Nets,     (* the designs considered, with the targets of one partition    *)
  Depth,    (* BOOMERANG_NUM_STAGES: levels of the tree, 13 in the source   *)
  Roomy     (* the partition is far below every capacity                    *)

\* fanin: the pins an AND gate or a macro output is a function of in this cycle;
\* state: those a macro's phase commits; early: staged inputs and DSP outputs;
\* targets: the inputs of the partition's endpoints.  Other pins are leaves.
ASSUME NetAssumption ==
  \A n \in Nets :
    /\ n.gates \subseteq Pins /\ n.macros \subseteq Pins /\ n.early \subseteq Pins
    /\ n.gates \cap n.macros = {} /\ (n.gates \cup n.macros) \cap n.early = {}
    /\ n.targets \subseteq Pins
    /\ \A p \in Pins : /\ n.fanin[p] \subseteq {q \in Pins : q < p}
                       /\ n.state[p] \subseteq {q \in Pins : q < p}
                       /\ p \in n.gates => n.fanin[p] # {}
                       /\ p \notin n.gates \cup n.macros => n.fanin[p] = {}
                       /\ p \notin n.macros => n.state[p] = {}

ASSUME ShapeAssumption ==
  IsFiniteSet(Pins) /\ Pins = 1 .. Cardinality(Pins) /\ Depth \in Nat \ {0} /\ Roomy \in BOOLEAN

VARIABLES
  pc,         \* "wave", "stages", "done", "refused" (None), "panic"
  net,
  waves,      \* macro_waves: a sequence of sets of macros
  wi,         \* the wave in progress; past the end, the final run of stages
  realized,   \* realized_inputs
  pending,    \* pending_outputs: no phase has produced them yet
  targets,    \* all_targets: what the partition still owes
  keep,       \* keep_live: what stages must pass through
  blocked,    \* targets that read a pending output
  stages,     \* [reads, holds, wrote] of each boomerang stage
  phases      \* [macros, after] of each macro phase

vars == <<pc, net, waves, wi, realized, pending, targets, keep, blocked, stages, phases>>

-----------------------------------------------------------------------------
(* The graph. *)

\* The pins reachable from a set of pins without passing one of stop.
Cone(n, through, stop, from) ==
  LET reach[p \in Pins] ==
        {p} \cup (IF p \in through \ stop THEN UNION {reach[q] : q \in n.fanin[p]} ELSE {})
  IN UNION {reach[p] : p \in from}

Inputs(n, m) == n.fanin[m] \cup n.state[m]

\* order_macro_waves: the macros in the cone of the targets, by how many of them
\* lie in sequence.  A pin that feeds committed state counts only where the cone
\* contains it and the sweep does not come to it late; producers that feed a
\* macro directly are counted afterwards.
WavesOf(n, late) ==
  LET cone == Cone(n, n.gates \cup n.macros, n.early, n.targets)
      macros == cone \cap n.macros
      swept[p \in Pins] ==
        IF p \notin cone \/ p \in n.early THEN 0
        ELSE Max({0} \cup {swept[q] : q \in n.fanin[p] \cup (n.state[p] \ late)})
             + (IF p \in macros THEN 1 ELSE 0)
      depth[m \in Pins] ==
        Max({swept[m]} \cup {depth[q] + 1 : q \in Inputs(n, m) \cap macros})
      depths == {depth[m] : m \in macros}
      rank(m) == Cardinality({d \in depths : d <= depth[m]})
  IN [d \in 1 .. Cardinality(depths) |-> {m \in macros : rank(m) = d}]

InWaves(w) == UNION {w[d] : d \in DOMAIN w}

\* Wave inputs that have to be computed.
Req(n, w, d) == (UNION {Inputs(n, m) : m \in w[d]}) \ (n.early \cup InWaves(w))

ReqFrom(d) == UNION {Req(net, waves, e) : e \in d .. Len(waves)}

-----------------------------------------------------------------------------
(* One boomerang stage. *)

\* Levels in the part of the cone that is not realized yet.
Level ==
  LET level[p \in Pins] ==
        IF p \in net.gates \ realized THEN 1 + Max({level[q] : q \in net.fanin[p]}) ELSE 0
  IN level

\* The nodes that take up a tree when n is placed at its own level: its fan-ins
\* below a first-level node are only read.
TreeOf(level, n) == Cone(net, {p \in Pins : level[p] >= 2}, {}, {n})

\* compute_lvl1_necessary_nodes: beside the trees, what the first level must
\* hold: targets that need no gate, gates of level one, and the leaves that a
\* later stage will want.
Necessary(level, trees) ==
  LET open == Cone(net, net.gates, realized \cup trees, targets) \ trees
      deep == {p \in open : level[p] >= 2}
  IN {p \in open : (level[p] = 0 /\ p \in targets) \/ level[p] = 1}
     \cup ({p \in UNION {net.fanin[x] : x \in deep} : level[p] = 0} \ trees)

\* The pins at level zero of the tree: what the stage reads.
ReadsOf(level, holds) ==
  {p \in holds : level[p] = 0} \cup UNION {net.fanin[p] : p \in {x \in holds : level[x] = 1}}

\* The nodes the tree is built around.
Chosen(level) ==
  LET nodes == {p \in Cone(net, net.gates, realized, targets) : level[p] \in 2 .. Depth}
  IN IF Roomy THEN {nodes} ELSE SUBSET nodes

\* The targets written out: all, when all are held and fit; else those that fill
\* whole words.
Writable(holds) ==
  IF ~Roomy THEN SUBSET (targets \cap holds)
  ELSE IF targets \subseteq holds THEN {targets} ELSE {{}}

-----------------------------------------------------------------------------

Init ==
  /\ pc = "wave" /\ wi = 1
  /\ net \in Nets
  /\ \E late \in SUBSET (UNION {net.state[p] : p \in net.macros}) :
       waves = WavesOf(net, late)
  /\ realized = net.early \cup InWaves(waves)
  /\ pending = InWaves(waves)
  /\ targets = (net.targets \ InWaves(waves)) \cup UNION {Req(net, waves, d) : d \in DOMAIN waves}
  /\ keep = {} /\ blocked = {}
  /\ stages = <<>> /\ phases = <<>>

\* Mutant of ReadsPending: nothing is put on hold.
NothingBlocked(p) == FALSE

\* Mutant of ReadsPending: outputs that phases have produced still count.
ReadsAnyOutput(p) ==
  Cone(net, net.gates \cup net.macros, realized, {p}) \cap InWaves(waves) # {}

\* Does p depend on an output that no phase has produced?
ReadsPending(p) ==
  Cone(net, net.gates \cup net.macros, realized, {p}) \cap pending # {}

Leaves(ts) == Cone(net, net.gates \cup net.macros, realized, ts) \cap realized

StartWave ==
  /\ pc = "wave" /\ wi \in DOMAIN waves
  /\ LET wanted == targets \cup (ReqFrom(wi) \ realized)
     IN /\ blocked' = {p \in wanted : ReadsPending(p)}
        /\ keep' = ReqFrom(wi) \cup (Leaves(blocked') \ pending)
        /\ targets' = wanted \ blocked'
  /\ pc' = "stages"
  /\ UNCHANGED <<net, waves, wi, realized, pending, stages, phases>>

\* With every phase run, what is still owed.
StartLast ==
  /\ pc = "wave" /\ wi \notin DOMAIN waves
  /\ blocked' = {} /\ keep' = {}
  /\ pc' = "stages"
  /\ UNCHANGED <<net, waves, wi, realized, pending, targets, stages, phases>>

Finished == IF wi \in DOMAIN waves THEN Req(net, waves, wi) \subseteq realized ELSE targets = {}

\* Mutant of NoProgress: the check is left out.
AlwaysOn(rz, ts) == FALSE

\* run_boomerang_stages_until_realized gives up when nothing moved.
NoProgress(rz, ts) == Cardinality(ts) = Cardinality(targets) /\ rz = realized

\* Mutant of Rearmed: pins are not passed through for later phases.
NothingRearmed(rz) == {}

\* Pins that the next stage is made to pass through.
Rearmed(rz) == keep \cap rz

BuildStage ==
  /\ pc = "stages" /\ ~Finished /\ targets # {}
  /\ LET level == Level
     IN \E nodes \in Chosen(level) :
          LET trees == UNION {TreeOf(level, n) : n \in nodes}
              holds == trees \cup Necessary(level, trees)
          IN \E wrote \in Writable(holds) :
               /\ stages' = Append(stages, [reads |-> ReadsOf(level, holds),
                                            holds |-> holds, wrote |-> wrote])
               /\ realized' = realized \cup holds
               /\ targets' = (targets \ wrote) \cup Rearmed(realized')
               /\ pc' = IF NoProgress(realized', targets') THEN "refused" ELSE "stages"
  /\ UNCHANGED <<net, waves, wi, pending, keep, blocked, phases>>

\* A stage for no target: the maximum of no levels.
EmptyStage ==
  /\ pc = "stages" /\ ~Finished /\ targets = {}
  /\ pc' = "panic"
  /\ UNCHANGED <<net, waves, wi, realized, pending, targets, keep, blocked, stages, phases>>

\* Write-outs reserved or used up, or a first-level row with no slot left.
Overflow ==
  /\ pc = "stages" /\ ~Finished /\ ~Roomy
  /\ pc' = "refused"
  /\ UNCHANGED <<net, waves, wi, realized, pending, targets, keep, blocked, stages, phases>>

\* Mutant of Resumed: outputs that endpoints take directly are forgotten.
ResumedBlocked == blocked \ realized

\* What is owed again after the phase.
Resumed == (blocked \ realized) \cup (waves[wi] \cap net.targets)

\* The wave's inputs are there: its phase runs here, and its outputs exist.
EndWave ==
  /\ pc = "stages" /\ wi \in DOMAIN waves /\ Finished
  /\ phases' = Append(phases, [macros |-> waves[wi], after |-> Len(stages)])
  /\ targets' = targets \cup Resumed
  /\ pending' = pending \ waves[wi]
  /\ wi' = wi + 1 /\ pc' = "wave"
  /\ UNCHANGED <<net, waves, realized, keep, blocked, stages>>

Finish ==
  /\ pc = "stages" /\ wi \notin DOMAIN waves /\ Finished
  /\ pc' = "done"
  /\ UNCHANGED <<net, waves, wi, realized, pending, targets, keep, blocked, stages, phases>>

Done == pc \in {"done", "refused", "panic"} /\ UNCHANGED vars

Next ==
  \/ StartWave \/ StartLast
  \/ BuildStage \/ EmptyStage \/ Overflow
  \/ EndWave \/ Finish
  \/ Done

\* The mapper calls the function and runs it to its end.
Spec == Init /\ [][Next]_vars /\ WF_vars(Next)

-----------------------------------------------------------------------------
(* Where a pin can be found when the script of the partition runs. *)

\* The pins the global read loads: phases supply the others.
Loaded == stages[1].reads \ net.macros

\* What is addressable after a stage and before the phases that follow it.
Held(a) == IF a = 0 THEN Loaded ELSE stages[a].holds

\* What phases placed before the k-th, in the same gap, have published.
PublishedBefore(k) ==
  UNION {phases[j].macros : j \in {i \in 1 .. k - 1 : phases[i].after = phases[k].after}}

Published(a) == UNION {phases[j].macros : j \in {i \in DOMAIN phases : phases[i].after = a}}

Mapped == pc = "done" /\ stages # <<>>

-----------------------------------------------------------------------------
(* Properties. *)

\* What the mapper keeps between stages: nothing pending was ever missing from
\* the realized set, the stages never read a target they do not hold, and a wave
\* is never behind the phases it has emitted.
TypeOK ==
  /\ pc \in {"wave", "stages", "done", "refused", "panic"}
  /\ wi \in 1 .. Len(waves) + 1 /\ wi = Len(phases) + 1
  /\ pending \subseteq realized /\ realized \subseteq Pins
  /\ targets \subseteq Pins /\ keep \subseteq Pins /\ blocked \subseteq Pins
  /\ \A s \in DOMAIN stages : stages[s].wrote \subseteq stages[s].holds

\* Each stage finds every pin it reads in the shared state: held by the stage
\* before it, loaded if it is the first, or published by a phase in between
\* (comments pe.rs:1176-1177 and 679-683, panic flatten.rs:875-887).
StageReadsLive ==
  Mapped => \A s \in DOMAIN stages :
              stages[s].reads \subseteq Held(s - 1) \cup Published(s - 1)

\* How many waves a pin has to wait for.
Rank ==
  LET rank[p \in Pins] ==
        IF p \in net.macros THEN Max({0} \cup {d \in DOMAIN waves : p \in waves[d]})
        ELSE IF p \in net.gates THEN Max({rank[q] : q \in net.fanin[p]}) ELSE 0
  IN rank

Demanded == UNION {Req(net, waves, d) : d \in DOMAIN waves}

\* What a pin on hold is computed from and could be had before the last wave it
\* waits for.
Frontier(rank, p) ==
  LET last == {x \in Cone(net, net.gates, {q \in Pins : rank[q] < rank[p]}, {p}) : rank[x] = rank[p]}
  IN {f \in UNION {net.fanin[x] : x \in last \cap net.gates} : rank[f] < rank[p]}

\* What it finds realized while it is on hold.
FromStart(rank, p) ==
  {q \in Cone(net, net.gates, net.early \cup InWaves(waves), {p}) :
     q \in net.early \cup InWaves(waves) /\ rank[q] < rank[p]}

\* No pin on hold has an input of its own: those that are there from the start
\* are inputs of endpoints too, the others are asked for by the first wave that
\* can have them.
SharesInputs ==
  LET rank == Rank IN
  \A p \in (net.targets \cup Demanded) \cap net.gates :
    rank[p] > 0 => /\ FromStart(rank, p) \subseteq net.targets
                   /\ \A f \in Frontier(rank, p) \ FromStart(rank, p) :
                        f \in Req(net, waves, rank[f] + 1)

\* The waves are in order: what a macro reads or commits comes from macros of
\* earlier waves.
InOrder ==
  \A d \in DOMAIN waves : \A m \in waves[d] :
    LET cone == Cone(net, net.gates \cup net.macros, net.early, Inputs(net, m))
    IN cone \cap net.macros \subseteq UNION {waves[e] : e \in 1 .. d - 1}

\* StageReadsLive on the designs where the pins on hold have no input of their
\* own, and on those without macros: whatever the stages have room for.
LiveWhenShared == InOrder /\ SharesInputs => StageReadsLive

\* Each macro finds its inputs when its phase gathers them (comment
\* pe.rs:1163-1164, panic macros.rs:501-505).
PhaseReadsLive ==
  Mapped => \A k \in DOMAIN phases : \A m \in phases[k].macros :
              Inputs(net, m) \subseteq Held(phases[k].after) \cup PublishedBefore(k)

\* The inputs a wave asks stages for are there when its phase gathers them,
\* however many stages other pins made necessary in between.
DemandedLive ==
  Mapped => \A k \in DOMAIN phases : Req(net, waves, k) \subseteq Held(phases[k].after)

\* A partition that was mapped has a word with each input of its endpoints, and what a
\* stage keeps and writes is well formed until then.
EndpointsWritten ==
  /\ TypeOK
  /\ pc = "done" => net.targets \subseteq UNION {stages[s].wrote : s \in DOMAIN stages}

\* No stage is asked for when nothing is left that it could build.
NeverEmpty == InOrder => pc # "panic"

\* The loop that builds stages ends: each of them realizes a pin, settles one that
\* is not owed again before its wave ends, or is the one in its wave that takes up
\* what must be kept.
StagesBounded == Len(stages) <= Cardinality(realized) + wi * (Cardinality(Pins) + 1)

=============================================================================
