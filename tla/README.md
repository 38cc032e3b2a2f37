# Verification of the GEM macro simulator

GEM compiles a gate-level netlist into scripts that a GPU interprets cycle by
cycle. This fork adds three *macro* cells which are evaluated as words instead
of gates: CARRY4 (combinational), SRLC32E (state committed in the middle of a
cycle) and DSP48E2 (state committed at its end). The modules in this directory
model the compiler's decisions and the kernel's execution; TLC checks them on
small instances, and TLAPS proves the invariants of nine of the modules for every size.

Sections: [inventory](#inventory), [modules](#modules), [runs](#runs),
[disagreements](#where-code-and-comments-disagree), [proofs](#proofs),
[assumptions](#fairness-and-bounds), [plan](#plan).

## Inventory

Data flows one way: netlist, AIG, major stages, parts of endpoints, partitions
(boomerang stages and macro phases), script, kernel. Each arrow is a place where
one program's bookkeeping has to agree with the next one's.

| component | state | operations | hard behaviour |
|---|---|---|---|
| `aig.rs` netlist to AIG | pins, drivers, literals, edge flags | clock tracing, depth-first build, last pass over registers | order of pins; clock gates; set and reset |
| `macros.rs` macro cells | kinds, slots, lane encoding | fan-in of outputs and of state | outputs that depend on some inputs only |
| `staging.rs` major stages | levels, counts of readers, pins alive at the split | split at levels | counts raised and lowered in different loops |
| `repcut.rs` partitioning | sets of groups per pin, clusters | sweep against fan-out, edge weights, external partitioner | blocks; large edges sampled; the answer is arbitrary |
| `cut_map_interactive.rs`, `process_partitions` | parts, trials, costs, blacklist | rounds of cutting, merging with speculative trials | stale trials, budgets, termination |
| `order_macro_waves` (`pe.rs`) | depths, chains, waves | sweep, fixpoint, chain packing | order between lanes and phases |
| `build_one` (`pe.rs`) | realized, pending, targets, keep_live | stages, phases, hold back, restore | pins that lose their slot |
| layout (`flatten.rs`) | state words, positions, maps | place each endpoint | shared pins, counts of two passes |
| script (`flatten.rs`) | words of a block | header, rounds, phases, stages, tail | no tags: readers count |
| kernel (`csrc/`) | state rows, SRAM buffer, per-block cursors | load, stages, phases, commit, store, grid barrier | blocks run freely between barriers |
| `flatten_test.rs` (oracle) | the same on the CPU | walk the script, macro phase | a second reader of one format |
| `flatten_test.rs`, `cuda_test.rs` (drivers) | input state, edge flags, delayed changes | one step per VCD token | *update, then propagate* emulated by *propagate, then update* |
| `naive_sim.rs` | values of pins | latch, propagate | reference semantics, one edge late |

What makes each correct:

- *AIG*: every literal has the value of its pin, every enable is up exactly when the
  cell latches, whatever the order of pins; illegal netlists are refused.
- *Major stages*: each endpoint in one stage, each gate computed by one stage within
  its levels, and staged pins are exactly those a later reader needs.
- *Hypergraph*: an edge weighs the pins its groups share, and nothing else.
- *Drivers*: what is written is what an event-driven simulator shows.
- *Cutting and merging*: every endpoint ends in exactly one partition; merges
  stay in budget; the process ends.
- *Waves*: a macro runs after everything its lane gathers.
- *build_one*: every pin is in the shared state when it is read; every endpoint
  input is written.
- *Layout*: a reader of an endpoint finds what the kernel commits for it, under
  its own enable; no two memories overlap.
- *Script*: each reader uses each section as what it is, once, in order.
- *Kernel*: a grid of blocks is equivalent to a synchronous circuit; the parallel
  carry scan is equivalent to the ripple.

## Modules

`PROJECT.json` maps each definition to its lines.

**NetlistAig** (used by `MCLadder`). `AIG::from_netlistdb`. A netlist gives each cell
a type and a source for each input: a port, a constant or another cell's output.
`TraceClock` is the first loop (`trace_clock_pin` past the gates of a clock),
`BuildPin` one return of `dfs_netlistdb_build_aig` and `Loop` its panic, `PinsBuilt`
the primary outputs, `Resolve` the last pass over flip-flops, memories and macros.
The depth-first order depends on the numbers the parser gave to pins; the model takes
every order that puts prerequisites first. Literals, constant folding, sharing of
gates, the polyfill of set and reset and the enables are the code's. Buses are one
bit wide, a memory has one word and a shift register two bits.

**EventSim, Ladder** (`MCLadder`). `EventSim` is the abstract specification: an
event-driven simulator of the netlist with the cells of `aigpdk.v`, where `Edge` shows
what stood before the edges of a timestamp and lets registers take it. `Ladder` puts
side by side what `docs/TECHNICAL_REPORT.md:292` compares: the token loop of
`flatten_test.rs` or of `cuda_test.rs` over the graph NetlistAig built, and
`naive_sim.rs` over the netlist, both fed with the same VCD one token (`Signal`,
`Timestamp`) at a time. `gem` holds inputs, flags, delayed changes and activity;
`setup` says which driver runs, whether it writes wires, and whether the VCD keeps
inputs still while clocks are high, and holds the output map. A driver reads an output after
the cycle from the state bit that `script.output_map` has for its literal: the slot
of the output's own endpoint, or of a flip-flop with this D or a memory with this
read data that was entered later (`Entrants`; `OutputMaps` is every order of
partitions and endpoints). `GemPanics` is the assertion of `flatten_test.rs:836`, that
this bit is the value computed for the pin in this cycle; a pin with an output
endpoint is in some hierarchy, so that value is always recorded. `cuda_test.rs` has no such
assertion. A cycle of the kernel is one evaluation of the
graph here; that it is one is the business of the modules below.

**Staging** (`MCRepCut`, `StagingProofs`). `build_staged_aigs` and `from_split`, pin by pin: `Rank`
and `RankEnd` raise levels and counts of readers, `Visit` and `Settle` lower them and
keep `live` (`nodes_at_split`), `NextStage` hands endpoints and pins on. A count is the
set of the readers it counts, so that a reader counted twice or struck off twice would
show. Assertions of the code are steps to `"panic"`.

**RepCut** (`MCRepCut`, `StagingProofs`). Extends Staging. `RCHyperGraph` of any subset of a stage's
groups: blocks of groups, the sweep of a block in reverse topological order against the
fan-out of the whole graph, clusters of equal sets, edges with the sampling of those
above the limit. The division itself is an external program; CutMap takes any answer.

**Clustering, CutMap** (`MCCutMap`, `CutMapProofs`). `Clustering` says what may
happen to endpoints: a group may be taken apart while dividing, groups may be
united while merging, and what is published is a partition of the endpoints.
`CutMap` implements it: `Repartition`, `PlaceGood`, `PlaceFailed`, `GiveUp` and
`EndRound` are the loop of `cut_map_interactive.rs`; `BuildAll` to `SortParts`
are `process_partitions`. Trials are built in batches and may be stale when they
are used, as in the code. The partitioner may return any division, and `build_one`
may give any answer, except that a set of endpoints it has refused while cutting is
refused again. Parts may also come from a file (`InitFromFile`), where they are
whatever the file says.

**CarryScan** (`MCCarryScan`, `KernelProofs`). `gem_macro_phase` of the kernel
on a warp of CARRY4 lanes, one action per doubling of the scan distance, against
`run_macro_phase` of the CPU oracle, which walks lanes in order. `gen`, `prop` and
`dist` are the kernel's `g`, `p` and `d`; `refO` and `refCO` are the oracle's. Lanes that are not
CARRY4s break chains in both.

**MacroWaves** (`MCMacroWaves`, `MacroWavesProofs`). `order_macro_waves`: the sweep that computes
depths in topological order, chain links, the fixpoint that deepens macros over
their producers, chains and tails, sorting, and packing into waves of at most
`MaxLanes` lanes. Slots of a cell are grouped by what they feed. What a lane gathers
(`Gathered`) are, as in `build_one`, the slots any of its outputs needs, in the cone
or not.

**BuildOne** (`MCBuildOne`, `BuildOneProofs`). `Partition::build_one`. A stage is the record of the
pins it reads, those it holds at its end and those it writes. What a stage takes
is decided by 8192 slots and a budget in the code; here a `Roomy` partition takes
all it can, any other makes an arbitrary choice. `realized`, `pending`, `targets`, `keep`, `blocked` are the code's sets. A
macro has one output of its own, and a carry chain is one macro (MacroWaves has
the detail).

**FlattenLayout** (`MCFlattenLayout`, `FlattenLayoutProofs`). One action for each kind of endpoint in
`make_inputs_outputs`, the counting pass `init_afters_writeouts` as operators, the
allocation of words to partitions in block order and of offsets to macro state. A sum
that the code accumulates in a loop is the size of what comes before: `WordsBefore` are
the words of the partitions before one in block order, `StateBefore` those of the DSPs and
SRLs before one; which block a partition gets (`Block`) is the code's loop over the work
of the blocks (`Loads`).
The second part of the module is the kernel's reading of the layout: what it puts
at a position and under which enable. One bit stands for a DSP's or an SRAM's
words, so the width of their ports is not checked.

**ScriptWalk** (`MCScriptWalk`, `ScriptWalkProofs`). `build_script` emits sections of a kind, an
address and a length; `Kernel...` and `Oracle...` actions walk them with the two
readers' own arithmetic; `reader` says which. The kernel's prefetch is kept: `fetch` is where the data of the next section was read from.

**SyncCircuit, GridCycle** (`MCGridCycle`, `KernelProofs`). `SyncCircuit` is a register that moves
one cycle at a time. `GridCycle` is the kernel on many blocks: `Enter`, `Load`,
`Phase`, `Commit`, `Store` and `Sync` per block, with loads and stores of different
blocks interleaved word by word; `Launch` is the host's residency check. A value is
named by the cycle it is right for, so any early, late or repeated use shows.

How they fit together: NetlistAig's graph is the design that Staging divides; the
groups of a stage are RepCut's vertices, and a division of them is a round of CutMap;
CutMap's parts are BuildOne's designs; MacroWaves orders the
waves which BuildOne turns into phases; BuildOne's write-outs are what
FlattenLayout is given; ScriptWalk carries the phases and stages that BuildOne
placed; GridCycle runs the partitions that FlattenLayout gave words. Each module
states as an assumption on its constants what the one before it shows.

## Runs

| run | instance | shows |
|---|---|---|
| `ladder` | 10 netlists of at most 5 cells: flip-flop, constants, both edges, clock gate, two clocks, set and reset, memory, shift register, a loop, a clock from a flip-flop; every order of pins; 6 timestamps, both drivers | the graph is equivalent to the netlist; both drivers implement `EventSim`, `flatten_test` with every output map (it panics before it writes a wrong value), `cuda_test` with those that have a slot for each output; `naive_sim` shows the same one edge later |
| `division` | every graph of 2 leaves and 2 gates, of a leaf, a macro output and 2 gates, and of a leaf and 4 gates; 2 endpoints; no split, one, or two; every subset of a stage's groups, in blocks of 2, edges of at most 2 | staged pins are needed ones; endpoints in one stage; gates in the stage of their level; hypergraph exact |
| `cut` | 3 endpoints, any division, any retry; also every parts file | endpoints exactly once; costs, stage budget; termination; implements `Clustering` |
| `carry` | 4 lanes: every mix of chain starts, links and other lanes that pass, kill or make a carry | scan = ripple at every step |
| `waves` | 3 CARRY4s, 2 lanes, up to 2 further wires; 2 SRLs beside 2 CARRY4s | each placed once; waves ordered where the key is sound; the fixpoint ends |
| `grid` | 3 blocks, 2 stages, 2 cycles, 2 or 3 resident | rows exact, memories once per cycle, refinement, completion |
| `walk` | up to 2 partitions of 2 stages, 2 phases, 2 rounds; either reader | each section is read in place, in order, to the end, in bounds |
| `build` | four shapes of design in every wiring: 4 gates; 1 macro and 2 gates; 2 macros and a gate, with one or two targets | pins are there when read where those on hold share their inputs; what waves ask for is there; held-back targets are restored and written; no empty stage; the loop is bounded |
| `layout` | 3 partitions on 2 blocks, 3 or 4 endpoints over shared pins, words of 2 bits | each endpoint is read where it is committed; gather lanes and memory outputs are words apart |

Conditions narrow some properties of passing runs, and the code's behaviour without
each is described below. `OrderedWhenKeyed` asks that no later link of a chain waits
for more than its head, that gates saw final depths (`MCLateInput`,
`MCEarlyOutput`) and are not what an output outside the cone is a function of (the
sweep leaves those gates out, though the lane gathers them), and that no CARRY4 has its own low sum bit wired to its high bits,
which `macros.rs:246` calls legal and one lane of one phase cannot compute. `LiveWhenShared` asks that a target on hold has no input of its own
(`own_input`: what is there from the start is an input of an endpoint too, and the rest
is asked for by the first wave that can have it) and that waves are in order
(`MCStateCone`); the kernel's scripts in
`walk` have no phase before the first stage behind a round (`phase_before`);
`OutputsCommitted` leaves out outputs whose literal a memory registers
(`MCLatchedOutput`); memories in `grid` belong to one partition (`MCSharedSrl`).
`HypergraphExact` is exact for pins that are not inputs of the stage in a graph
without macros, and a bound from above elsewhere. In `ladder` the shift register is
built but not driven (`srl_clock`), `cuda_test` runs only where each output is read from
the slot of its own endpoint (`MCLatchedShown`; of the ten netlists, the output of the
memory and a gate shared with a D can have another entry), what `flatten_test` shows is
compared until it panics there, no clock is high at time zero for `flatten_test`
(`MCStaleFlag`), a signal changes once in a timestamp, outputs of clock gates feed
clocks only, and `NaiveFollowsGem` is about one clock domain without set, reset or
gates, on VCDs whose inputs change while the clock is low
(docs/SIMULATION_GUIDE.md:309).

The bounds were chosen so that the case a property is about occurs: chains longer
than a phase; a round that fails partly, twice; a merge trial that is stale; copies
that cross a word; a block with two partitions in a stage and one with none; two
waves with a stage in between; a gate of level two read by an endpoint of the first
stage; a register that latches twice with a delayed change in between. Each property has a mutant of the code (in the
modules, next to the definition it replaces) which the same run refutes.

## Where code and comments disagree

Three are runs that are expected to fail, with the comment quoted in `PROJECT.json`:

- `own_input`: the input of a target on hold is dropped. This is the failure that
  README.md:79 and docs/TECHNICAL_REPORT.md:407 report for a MIPS processor;
  the model gives a design of a handful of pins without randomness.
- `phase_before`: the kernel miscounts the address of a phase before stage 0.
- `srl_clock`: an SRL shifts on CE alone, at the edges of every clock, against
  `macros.rs:534`.

More are kept as configurations beside them, each with one property that TLC refutes
at once:

- `MCLateInput` (`WavesOrdered`): a later link of a carry chain can share a wave with
  the macro it reads, though waves are meant to be in dependency order (`pe.rs:793`).
- `MCEarlyOutput` (`WavesOrdered`): a macro behind a gate on a low sum bit keeps the
  depth it had before its producer was raised (`pe.rs:907`).
- `MCSharedSrl` (`UpdatedOncePerCycle`): an SRL read by two partitions shifts twice a
  cycle, against `macros.rs:307`.
- `MCShiftRing` (`DepthBounded`): two SRLs that shift into each other make the depth
  fixpoint diverge (`pe.rs:907`).
- `MCFedDirectly` (`PhaseReadsLive`): a macro input realized before its wave is not
  kept for its phase, against `pe.rs:1163`.
- `MCStateCone` (`StageReadsLive`): a macro that only feeds another's next state gets
  no wave (`pe.rs:806`, against `pe.rs:1137`).
- `MCLatchedOutput` (`OutputsShowLogic`): an output can be read from the position of a
  gated flip-flop or of SRAM read data (`flatten.rs:593`, against `flatten.rs:533`).
- `MCLatchedShown` (`GemImplementsEventSim`): what follows for a user: with such an entry
  `cuda_test` writes the word a memory reads at an edge one edge early. On the same
  netlist `flatten_test` panics at `flatten_test.rs:836`, and on a flip-flop's D it does
  so with `include_wires`, where cycles without an edge are written.
- `MCZeroFlops` (`ZeroFlopsPlaced`): constant-zero flip-flops with two enables fail
  the assertion on the number of copies (`flatten.rs:599`).
- `MCManySrams` (`StateApart`): behind eight SRAMs an SRL's offset does not fit the
  16 bits of its descriptor (`flatten.rs:640`).
- `MCStaleFlag` (`FlagsOfTimestamp`): `flatten_test.rs` lowers edge flags only after a
  simulation it writes (`:850`), so an edge at time zero is simulated twice, against
  `:756`. `cuda_test.rs:606` lowers them always.

Two properties of `MCRepCut` do not hold and are in no configuration:
`StagedWheneverDue` (the assertion at `staging.rs:108` fails when all endpoints are
realized and a pin that only a macro reads is still staged, where `staging.rs:186`
promises a shorter list) and `EveryPinWeighed` (the loop at `repcut.rs:116` leaves out
the pin with the highest number, which `aig.rs:144` counts).

## Proofs

The proof modules cite the model's definitions and the named assumptions on
constants, nothing else.

**CutMapProofs**: `TypeOK`, `EndpointsOnce`, `StageBudget` and `MergeCostSound` are
invariants of `Spec`, however it starts, for every set of endpoints, netlist,
budget and number of parts. `EndpointsOnce` alone is not inductive. The
strengthening (`Inductive`) adds, while dividing, that good, failed and untried
parts are disjoint and together cover the endpoints, and, while merging, that a
trial holds exactly the union of the two parts it was built from as long as it can
still be accepted, that emptied parts stay empty, and that the estimated node count
of the part that grows is at most the count of what it has absorbed; the last is
what keeps the unsigned subtraction above zero. One lemma per action. From the same
invariant, every step is a step of `Clustering` or changes no block and nothing loose
(`CutMapImplementsClustering`).

**KernelProofs**, about CarryScan: `ScanTypeOK`, `ScanInvariant` and `ScanAgrees`, for every number
of lanes. The inductive invariant says that after distance `dist` a lane holds generate
and propagate of the `dist` lanes behind it, cut at the start of its chain; doubling
composes two such runs. `KernelMatchesOracle` follows: a run that reaches back to
the start of the chain is what the sequential walk carries.

**StagingProofs**: `TypeOK`, `PanicOnlyIdle`, `LiveAreWanted`, `EndpointsOnce`,
`StagedAsCut` and RepCut's `HypergraphExact`, for every graph, topological order and list of levels. The invariant follows the three
loops: which readers of a pin are left (`Counted`), that a pin is alive exactly while it
has been visited, is low enough and has a reader left or none at all (`Alive`), and which
endpoints the stage has reached (`Settled`). That ending early loses no endpoint needs
one thing more: levels leave none out (`Ranked`), so that under an endpoint that was not
reached there is a gate at the split with a reader above it, and that gate is staged.
`StagedAsCut` is about graphs without macros, and relates levels counted in a stage to
depths in the uncut graph (`Cut`): what a stage traverses is divided by its first level into
its inputs and its gates (`Parted`), so that a gate's level is its depth less that level
(`Shifted`). It carries over to the next stage because what that one traverses lies in
what this one handed on or left above its split; a pin below with a reader above is alive.
`HypergraphExact`, of RepCut, is proved for blocks and edges of any size, any groups of a
stage and any order of the sweep (`Swept`): a pin that was swept has the groups that read
it and those of its readers that are no inputs, which makes it an upper bound; it is exact
where no input of the stage reads what the stage computes (`Sealed`), and that is so
because past the first stage what is traversed is a gate or was handed on (`Supplied`). That an edge
has as many members as it may is by induction over the groups (`PicksFull`).

**KernelProofs**, about GridCycle: `RowsExact`, `UpdatedOncePerCycle`, `StoredOnce` and the refinement
`ImplementsCircuit`, for every number of blocks, stages and cycles, every script and every
interleaving. The invariant says where blocks can be relative to each other (`Together`:
one is ahead of another by one barrier at most, and the other then waits at it), that a
word of a row is right if the partition that writes it has stored it and unwritten
otherwise (`RowsAreRight`), and that a memory has been updated once more than its owner's
cycle says if the owner has visited it in this one (`MemoriesAreRight`). What a partition
reads of its cycle's row is right because all writers are past the last barrier of the
cycle before or wait at it; what it reads of the next row, because an earlier stage wrote
it. On the constants the theorems assume what the compiler gives: a word has one writer
and is no input (`WordAssumption`: `NoWordShared` of FlattenLayout), what is read early
was staged earlier (`ReadAssumption`: Staging). `NoWordShared` is proved below; TLC checks both on the scripts of the
runs. `OneOwner`, that a memory belongs to one partition, is a hypothesis of the theorems
and not an assumption, because the code does not ensure it for SRLs: `MCSharedSrl` is a
script without it, where `UpdatedOncePerCycle` fails. The refinement also has the hypothesis
that no word is left unused (`EveryWordWritten`). The first script has both
(`HypothesesHold` in MCGridCycle).

**ScriptWalkProofs**: `ReadsInOrder`, `ConsumesAll` and `PrefetchInBounds`, for any number
of partitions with any numbers of rounds, stages and phases. The invariant says that a
script has a *trail*: at each of its sections, where someone who reads it in order stands
(partition, stage, phase, round, address), and each is the step from the one before.
While the script is laid out its end is where the trail goes on; a reader stands on the
trail behind what it has used. The trail is fixed once the script is, so that the two
readers need one argument. The kernel's `script_pi` and prefetch are in places of their
own behind the phases that follow a stage, and `KernelStands` says by how much. Its
dispatch of phases differs from the emitter's in one case, a phase before the first stage
and behind a round; so `ReadsInOrderHolds` has the hypothesis `RoundsInFront` that no
kernel script has one. The scripts of `walk` satisfy it, and `phase_before` is the run
that refutes the property without it. The other two theorems do not need it.

**MacroWavesProofs**: `PlacedOnce` and `OrderedWhenKeyed`, for every set of netlists, any
number of macros, gates and lanes, any order of the sweep, of the fixpoint and of the
tails, and any choice among the CARRY4s that share a carry. The invariant has five
parts. `Deep`: a swept pin is deeper than what its macro output is computed from, at least
as deep for a gate, and a macro at least as deep as its outputs; depths do not exceed the
outputs crossed (`Counted`), which is why `MaxDepth` is never reached in the sweep. `Linked`:
links form paths. `Settled`: behind the fixpoint a macro is deeper than its producers.
`Grouped`, while tails are taken up: chains run along links, share no macro (`Apart`), one that
continues another starts behind a full one (`Headed`), and one with room has nothing left
to continue it (`Filled`); while packing: the waves hold the chains that are packed, whole
and contiguous (`Holds`), no macro has two lanes (`Single`), and waves come by depth
(`Sorted`). `PlacedOnce` follows. `OrderedWhenKeyed` needs that a wave is keyed by the macro
that `is_chain_start` finds, though that function looks at wires and not at chains: two
chains that come to lie side by side in a wave are not taken for one, because a full chain
leaves no room behind it, and a head that reads the CO of the lane before it is deeper than
that lane (`StartIs`, by the first lane of a wave where it would fail). Then a lane's
producer is less deep than its wave, through gates too (`SourcesDeep`), and a macro is at
least as deep as its wave (`NoShallower`).

**BuildOneProofs**: `EndpointsWritten`, `DemandedLive`, `NeverEmpty`, `StagesBounded` and
`LiveWhenShared`,
for every design, any late pins of the sweep, and any choice of nodes and write-outs by
the stages. Cones and levels are recursive functions over the graph; that they exist, and
that a cone is the least set that holds its start and the fan-in of what it goes through,
is proved first. A stage is then described by what it does to the sets (`StageIs`, shown of `BuildStage`
by `Built`), the one that matters being that it holds every pin at level zero of what is still
owed. `EndpointsWritten` needs (`Owed`) that what is on hold stays out of reach of what is owed:
if it came into being between two phases it would not be put back. `DemandedLive` needs
(`Kept`) that an input of a wave to come is a target, and held by the last stage, from the moment it is
realized. `NeverEmpty` (`Ready`) has the hypothesis `InOrder`, without which an input of a wave can be on
hold for that wave (`MCStateCone`). `StagesBounded` (`Paced`) is by a measure that each
stage but one of a wave increases: pins realized and pins settled. An earlier form of it, with
the targets in place of the pins and counted once, could not be proved and is false: a design with two
waves and a chain of nine gates takes more stages, since the pins kept for targets on hold
are settled anew, one for each stage, in the last run.

`LiveWhenShared` is the longest of the five. Each pin has the number of waves it waits for
(`RankIs`; `WavesCover` shows that no macro of the cone is without a wave). The invariant (`Waiting`)
is that an input that is asked for and not there is owed or on hold, that nothing owed
reads an output still to come, and that only pins below the current wave have been
produced. When a wave has its inputs, whatever a pin on hold can be computed from so far was
there from the start or has been asked for (`FrontierPath` and `Served`, by induction on
the rank). `keep_live` holds on to these, and between waves they are owed again (`Passed`), so
that what the next stage looks up is held or published (`Found`). An earlier form of
`SharesInputs` asked that any wave needs an input of a pin on hold, or that it is there from
the start. The proof failed, and the property with it is false for designs larger than
those of `build`: a pin realized early for one wave is owed again without being held
(`pe.rs:1174-1188`) if only a later wave asks for the pin on hold, as in a design of two
waves and seven pins.

**FlattenLayoutProofs**: `TypeOK`, `NoWordShared`, `GatherApart`, `FlopsCommitted`,
`OutputsCommitted`, `MemoriesCommitted` and `StateApart`, which are all that the module's
passing run checks, for any designs, any order of endpoints and any sizes. The words of a partition are
four zones: write-outs, DSPs, copies counted down from their end, SRAMs; so are its
gather lanes. None of the properties is inductive: what a flip-flop's position
commits may be overwritten by whatever is placed later, and copies of a pin share its lanes'
numbers with SRAMs and DSPs. The invariant (`Laid`) says that only what the counters
say has been filled of each zone (`Filled`), that the counters are those of the endpoints laid
out (`Counted`), which the first pass counted too (`CopiesCounted`: each activation but the first of
its pin is a copy), and that an activation that was placed is where `placed` says,
with its enable, polarity and lane (`ActsPlaced`). A position that is filled next is then not
among the filled ones (`FreshFirst`, `FreshCopy`, `FreshSram`, `FreshDsp`), by the distance of
the zones (`Zones`, `LaneZones`), and what was committed stays. `TypeOK` and `GatherApart` follow.
`MapsHold` follows each endpoint to where the maps lead, across partitions; from it, the kernel's reading
(`ComputedAt`, `CommitsAt`) gives the three properties of what is committed. `NoWordShared` and
`StateApart` are about sums: the order of partitions, and of DSPs and SRLs, is total, so that what is
before one of them has at least the size of what is before an earlier one and of that one itself
(`WordsFollow`, `StateFollows`); the kernel's `off + 2 * n` is the n-th DSP's offset because the DSPs of
a partition follow each other (`StateOfDsp`). `StateIsApart` has the hypothesis `Fits`: the state of
the design is no more than a descriptor has room for. The code does not ensure it, and
`MCManySrams` is the design where the property fails without it. The proof needs of the designs
(`DesignAssumption`) that pins looked up have been written, which the code requires by a panic and
BuildOne shows (`EndpointsWritten`), and that write-outs are whole words.

**Induction** is shared by the last four and StagingProofs: least and greatest elements of sets of numbers,
induction stated of a set, and that a function given by its first value and by each from
the one before exists (`RecursionExists`), or by its values at smaller arguments
(`LocalRecursion`). With it what a recursive function with a body
in the model computes, such as the cone of the targets, the walk along a chain or the
sources behind gates, can be reasoned about; the library's induction theorems cannot be
instantiated by the provers here.

Model-checked only: the refinement of `EventSim`, and
everything about NetlistAig and Ladder. Liveness (`MergingEnds`, `Terminates`, `Completes`) is out of
the prover's reach. Values of nets and literals in NetlistAig, EventSim and Ladder are
RECURSIVE operators, about which it can prove nothing, and no theorem is stated there.

## Fairness and bounds

`CutMap` and `MacroWaves` are sequential programs: weak fairness of the next step,
that the program keeps running. The dividing rounds have no fairness beyond it and no
liveness property: an unlucky partitioner may never succeed. `GridCycle`: weak
fairness of the host and of each block's steps; CUDA guarantees progress of resident
blocks only, which is why `Start` asks for residency and the host checks it. The other
modules have safety properties and refinements only, and no fairness: `EventSim`
promises what is shown, not that a VCD goes on. BuildOne's loop is bounded by an
invariant (`StagesBounded`).

Bounds: `MaxDepth` in MacroWaves stops the depth count (8; it is at least the number of macro
outputs, by `NetAssumption`, and the violation appears below it); `MaxParts` in ScriptWalk limits the partitions of a block; `MaxTime` in
MCLadder stops the VCD after 6 timestamps, which is two edges of each polarity and
a delayed change between them. `Depth`, `WordBits`, `SramWords`, `DescRange`,
`MaxLanes`, `BlockSize` and `EdgeLimit` stand for 13, 32, 8192, 2^16, 32, 4096 and
1000, and no property depends on their value. Every order of leaves is built in
`ladder`, and since `AigExact` finds all the graphs equal to the netlist, only one of
them is then driven.

CHECK_DEADLOCK is off where the program really stops: `FlattenLayout` when it has
placed everything, `Staging` and `RepCut` at a panic or when the last edge is built,
`Ladder` at a panic or at the end of the VCD. The other modules stutter explicitly in
their final states.

## Not modelled

- The branches of `naive_sim.rs` for DSPs, CARRY4s and SRLs, which restate cells one
  by one; the register and gate branches are in `Ladder`.
- Arithmetic of DSPs and widths of buses, SRAM words and DSP ports. A bit stands
  for a bus wherever only its place or its enable matters.
- VCD parsing, the names of signals, and command lines.
- The external partitioner and the vertex weights it is given; CutMap takes any answer.
- The packing of global reads into rounds and the filling of a stage's rows: search
  heuristics over thousands of slots, whose result BuildOne and ScriptWalk take as any
  that fits.
- Warps inside a block: `__syncthreads()` is taken to make the threads of a block one
  process, except in CarryScan. One of them is commented out
  (`kernel_v1_impl.cuh:500`), between a gather of copies and the rows it reads being
  overwritten.
- Cell libraries, golden models and statistics programs have no state to speak of; the
  cells of `aigpdk.v` appear as the functions and latches of EventSim.

## Plan

Done: CutMap, CarryScan, GridCycle, MacroWaves, ScriptWalk, BuildOne and FlattenLayout
with proofs, Staging and RepCut with proofs, NetlistAig, EventSim and Ladder (the
construction of the graph and the simulators around it) with TLC only.

Next, in order:

1. `ReadRounds`: the packing of global reads, against a reference definition.
2. `MacroCells`: SRL and DSP in the kernel and in the oracle, at their widths, against
   the golden models.
3. The commit of a partition by warps, with the barriers that are there.
4. `BuiltWhenLegal` and `AigExact`, with the values of nets as recursive functions in place
   of RECURSIVE operators.
