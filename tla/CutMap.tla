------------------------------- MODULE CutMap -------------------------------
(***************************************************************************)
(* The mapper's outer loops for one major stage: the cutting loop of       *)
(* bin/cut_map_interactive.rs, which repartitions only the endpoint groups *)
(* that did not fit, followed by process_partitions of pe.rs, which merges *)
(* the partitions that fitted.                                             *)
(*                                                                         *)
(* Two functions are seen only through their results: the external         *)
(* hypergraph partitioner (any assignment of endpoints to blocks) and      *)
(* Partition::build_one (no fit, or a number of boomerang stages).         *)
(* build_one is deterministic; the variables failed and nstages remember   *)
(* the results that the program can ask for a second time.                 *)
(***************************************************************************)
EXTENDS Integers, Sequences, FiniteSets

CONSTANTS
  Endpoint,         (* the endpoint groups of the staged AIG              *)
  Node,             (* the AIG pins                                       *)
  Cone,             (* the pins one endpoint needs (its topological cone) *)
  InitialDivision,  (* 600 in the source                                  *)
  TrialFloor,       (* 20 in the source: the least max_trials             *)
  TrialDivisor,     (* 8 in the source: max_trials is #parts / 8          *)
  FirstStride,      (* 4 in the source: parallel_trial_stride             *)
  MaxStageDegrad,   (* --max-stage-degrad                                 *)
  StageCounts,      (* the stage counts build_one may return; bounds TLC  *)
  MaxParts          (* bound: no repartitioning from this many parts on   *)

ASSUME EndpointAssumption ==
  /\ IsFiniteSet(Endpoint)
  /\ Endpoint # {}
  /\ IsFiniteSet(Node)
  /\ Cone \in [Endpoint -> SUBSET Node]

ASSUME NumberAssumption ==
  /\ InitialDivision \in Nat /\ InitialDivision > 0
  /\ TrialFloor \in Nat
  /\ TrialDivisor \in Nat /\ TrialDivisor > 0
  /\ FirstStride \in Nat /\ FirstStride > 0
  /\ MaxStageDegrad \in Nat
  /\ StageCounts \subseteq Nat
  /\ MaxParts \in Nat

VARIABLES
  pc,
  division,    (* target number of endpoints per block                    *)
  unrealized,  (* unrealized_endpoints                                    *)
  requeued,    (* new_unrealized_endpoints                                *)
  tries,       (* parts_indices: the blocks of this round                 *)
  failed,      (* the blocks build_one has refused (history)              *)
  parts,       (* parts_indices_good, then process_partitions' parts      *)
  nstages,     (* the stage count build_one finds for each good part      *)
  maxOrig,     (* max_original_nstages                                    *)
  i,           (* the part being grown                                    *)
  cntI,        (* cnt_node_i                                              *)
  self,        (* the stage count of partition_self                       *)
  blacklist,   (* merge_blacklist                                         *)
  choices,     (* the merge_choices not yet consumed                      *)
  consumed,    (* merge_i                                                 *)
  filled,      (* merge_trials[0..filled) have been built                 *)
  stride,      (* parallel_trial_stride                                   *)
  effective    (* effective_parts                                         *)

cutVars   == <<division, unrealized, requeued, tries, failed>>
roundVars == <<choices, consumed, filled, stride>>
selfVars  == <<cntI, self, blacklist>>
vars == <<pc, cutVars, parts, nstages, maxOrig, i, selfVars, roundVars, effective>>

-----------------------------------------------------------------------------
(* Sizes and costs. *)

ConeOf(S) == UNION {Cone[e] : e \in S}

CntNodes(S) == Cardinality(ConeOf(S))

CeilDiv(a, b) == (a + b - 1) \div b

AtLeast(a, b) == IF a > b THEN a ELSE b

AtMost(a, b) == IF a < b THEN a ELSE b

MaxTrials == AtLeast(Len(parts) \div TrialDivisor, TrialFloor)

\* cnt_nodes[j]: computed once for every part, before any merge.  Part j keeps
\* its endpoints until it is merged away, so it is the size of parts[j] now.
MergeTotal(j) == CntNodes(parts[i] \cup parts[j])

\* The cost of a merge, an unsigned subtraction in the source.
MergeGrowth(j) == MergeTotal(j) - AtLeast(CntNodes(parts[j]), cntI)

\* merge_choices.sort(): by growth, then total size, then index.
SortsBefore(j, k) ==
  \/ MergeGrowth(j) < MergeGrowth(k)
  \/ /\ MergeGrowth(j) = MergeGrowth(k)
     /\ \/ MergeTotal(j) < MergeTotal(k)
        \/ MergeTotal(j) = MergeTotal(k) /\ j <= k

IsNextChoice(j) == j \in choices /\ \A k \in choices : SortsBefore(j, k)

\* build_one refused the part.
NoFit == -1

\* Mutant of AllFit: parts that do not fit are dropped.
SomeFit ==
  \E q \in DOMAIN nstages : nstages[q] # NoFit

AllFit ==
  \A q \in DOMAIN nstages : nstages[q] # NoFit

-----------------------------------------------------------------------------
Init ==
  /\ pc = "cut"
  /\ division = InitialDivision
  /\ unrealized = Endpoint
  /\ requeued = {}
  /\ tries = << >>
  /\ failed = {}
  /\ parts = << >>
  /\ nstages = << >>
  /\ maxOrig = 0
  /\ i = 1
  /\ cntI = 0 /\ self = 0 /\ blacklist = {}
  /\ choices = {} /\ consumed = 0 /\ filled = 0 /\ stride = FirstStride
  /\ effective = << >>

(***************************************************************************)
(* process_partitions_from_hgr_parts_file: the parts come from a file with *)
(* one part number per endpoint; numbers nobody uses are empty parts.      *)
(***************************************************************************)
InitFromFile ==
  /\ \E n \in 1 .. Cardinality(Endpoint) :
       \E block \in [Endpoint -> 1..n] :
         /\ \E e \in Endpoint : block[e] = n
         /\ parts = [p \in 1..n |-> {e \in Endpoint : block[e] = p}]
         /\ nstages \in [1..n -> StageCounts \cup {NoFit}]
         /\ \A p \in 1..n : parts[p] = {} => nstages[p] = 0
  /\ pc = "cut"
  /\ unrealized = {}
  /\ division = InitialDivision
  /\ requeued = {}
  /\ tries = << >>
  /\ failed = {}
  /\ maxOrig = 0
  /\ i = 1
  /\ cntI = 0 /\ self = 0 /\ blacklist = {}
  /\ choices = {} /\ consumed = 0 /\ filled = 0 /\ stride = FirstStride
  /\ effective = << >>

(***************************************************************************)
(* The cutting loop.                                                       *)
(***************************************************************************)

\* One call of run_par.  Nothing in the source bounds the rounds: blocks the
\* partitioner leaves empty are kept as good parts, so parts may grow for ever.
Repartition ==
  /\ pc = "cut"
  /\ unrealized # {}
  /\ Len(parts) < MaxParts
  /\ division' = AtLeast(division \div 2, 1)
  /\ LET n == CeilDiv(Cardinality(unrealized), division')
     IN \E block \in [unrealized -> 1..n] :
          tries' = [p \in 1..n |-> {e \in unrealized : block[e] = p}]
  /\ requeued' = {}
  /\ pc' = "place"
  /\ UNCHANGED <<unrealized, failed, parts, nstages, maxOrig, i, selfVars,
                 roundVars, effective>>

\* The partitioner may leave a block empty; build_one maps it to no stages.
PlaceGood(s) ==
  /\ pc = "place"
  /\ tries # << >>
  /\ Head(tries) \notin failed
  /\ Head(tries) = {} => s = 0
  /\ parts' = Append(parts, Head(tries))
  /\ nstages' = Append(nstages, s)
  /\ tries' = Tail(tries)
  /\ UNCHANGED <<pc, division, unrealized, requeued, failed, maxOrig, i,
                 selfVars, roundVars, effective>>

PlaceFailed ==
  /\ pc = "place"
  /\ tries # << >>
  /\ Cardinality(Head(tries)) > 1
  /\ failed' = failed \cup {Head(tries)}
  /\ requeued' = requeued \cup Head(tries)
  /\ tries' = Tail(tries)
  /\ UNCHANGED <<pc, division, unrealized, parts, nstages, maxOrig, i,
                 selfVars, roundVars, effective>>

\* "A single endpoint still cannot map": the mapper panics.
GiveUp ==
  /\ pc = "place"
  /\ tries # << >>
  /\ Cardinality(Head(tries)) = 1
  /\ pc' = "panic"
  /\ UNCHANGED <<cutVars, parts, nstages, maxOrig, i, selfVars, roundVars,
                 effective>>

\* Mutant of EndRound: the next round takes up all endpoints again.
EndRoundAgain ==
  /\ pc = "place"
  /\ tries = << >>
  /\ requeued' = {}
  /\ pc' = "cut"
  /\ UNCHANGED <<division, unrealized, tries, failed, parts, nstages, maxOrig,
                 i, selfVars, roundVars, effective>>

EndRound ==
  /\ pc = "place"
  /\ tries = << >>
  /\ unrealized' = requeued
  /\ requeued' = {}
  /\ pc' = "cut"
  /\ UNCHANGED <<division, tries, failed, parts, nstages, maxOrig, i,
                 selfVars, roundVars, effective>>

(***************************************************************************)
(* process_partitions: every part is built again, then each one in turn    *)
(* absorbs later parts while some merge still fits.                        *)
(***************************************************************************)

BuildAll ==
  /\ pc = "cut"
  /\ unrealized = {}
  /\ AllFit
  /\ \E k \in DOMAIN nstages :
       /\ \A q \in DOMAIN nstages : nstages[q] <= nstages[k]
       /\ maxOrig' = nstages[k]
  /\ failed' = {}    \* the cutting loop's history ends with it
  /\ pc' = "next"
  /\ UNCHANGED <<division, unrealized, requeued, tries, parts, nstages, i,
                 selfVars, roundVars, effective>>

\* A part from a file may not fit: process_partitions returns None.
Refuse ==
  /\ pc = "cut"
  /\ unrealized = {}
  /\ ~AllFit
  /\ pc' = "refused"
  /\ UNCHANGED <<cutVars, parts, nstages, maxOrig, i, selfVars, roundVars,
                 effective>>

\* A part that was merged away, or was empty from the start.
SkipEmpty ==
  /\ pc = "next"
  /\ i <= Len(parts)
  /\ parts[i] = {}
  /\ i' = i + 1
  /\ UNCHANGED <<pc, cutVars, parts, nstages, maxOrig, selfVars, roundVars,
                 effective>>

TakePart ==
  /\ pc = "next"
  /\ i <= Len(parts)
  /\ parts[i] # {}
  /\ blacklist' = {}
  /\ cntI' = CntNodes(parts[i])
  /\ self' = nstages[i]
  /\ pc' = "gather"
  /\ UNCHANGED <<cutVars, parts, nstages, maxOrig, i, roundVars, effective>>

GatherChoices ==
  /\ pc = "gather"
  /\ choices' = {j \in i + 1 .. Len(parts) : parts[j] # {} /\ j \notin blacklist}
  /\ consumed' = 0
  /\ filled' = 0
  /\ stride' = FirstStride
  /\ pc' = "try"
  /\ UNCHANGED <<cutVars, parts, nstages, maxOrig, i, selfVars, effective>>

MayBuild ==
  consumed <= MaxTrials

\* The next trial has not been built: build a batch of them in parallel.
BuildBatch ==
  /\ pc = "try"
  /\ choices # {}
  /\ consumed = filled
  /\ MayBuild
  /\ filled' = AtMost(consumed + Cardinality(choices), consumed + stride)
  /\ stride' = 2 * stride
  /\ UNCHANGED <<pc, cutVars, parts, nstages, maxOrig, i, selfVars, choices,
                 consumed, effective>>

\* build_one refused the merged part, or it needs too many stages.
RejectMerge(j) ==
  /\ pc = "try"
  /\ consumed < filled
  /\ IsNextChoice(j)
  /\ blacklist' = blacklist \cup {j}
  /\ choices' = choices \ {j}
  /\ consumed' = consumed + 1
  /\ UNCHANGED <<pc, cutVars, parts, nstages, maxOrig, i, cntI, self, filled,
                 stride, effective>>

\* Mutant of WithinBudget: every merge may add MaxStageDegrad stages.
WithinOwnBudget(s) ==
  s <= self + MaxStageDegrad

WithinBudget(s) ==
  s <= maxOrig + MaxStageDegrad

\* Mutant of Merged: parts[j] keeps its endpoints.
Copied(j) ==
  [parts EXCEPT ![i] = @ \cup parts[j]]

\* parts[i] with parts[j] moved into it.
Merged(j) ==
  [parts EXCEPT ![i] = @ \cup parts[j], ![j] = {}]

\* Mutant of MergedSize: shared pins are counted twice.
SummedSize(j) ==
  cntI + CntNodes(parts[j])

\* cnt_new
MergedSize(j) ==
  MergeTotal(j)

AcceptMerge(j, s) ==
  /\ pc = "try"
  /\ consumed < filled
  /\ IsNextChoice(j)
  /\ WithinBudget(s)
  /\ parts' = Merged(j)
  /\ self' = s
  /\ cntI' = MergedSize(j)
  /\ pc' = "gather"
  /\ UNCHANGED <<cutVars, nstages, maxOrig, i, blacklist, roundVars, effective>>

\* No choice is left, or more trials than max_trials have been consumed.
FinishPart ==
  /\ pc = "try"
  /\ \/ choices = {}
     \/ consumed = filled /\ ~MayBuild
  /\ effective' = Append(effective, [endpoints |-> parts[i], stages |-> self])
  /\ i' = i + 1
  /\ pc' = "next"
  /\ UNCHANGED <<cutVars, parts, nstages, maxOrig, selfVars, roundVars>>

\* effective_parts.sort_by_key: a stable sort, most stages first.
SortParts ==
  /\ pc = "next"
  /\ i > Len(parts)
  /\ \E order \in [DOMAIN effective -> DOMAIN effective] :
       /\ \A k \in DOMAIN effective : \E a \in DOMAIN effective : order[a] = k
       /\ \A a, b \in DOMAIN effective : a < b =>
            \/ effective[order[a]].stages > effective[order[b]].stages
            \/ /\ effective[order[a]].stages = effective[order[b]].stages
               /\ order[a] < order[b]
       /\ effective' = [a \in DOMAIN effective |-> effective[order[a]]]
  /\ pc' = "done"
  /\ UNCHANGED <<cutVars, parts, nstages, maxOrig, i, selfVars, roundVars>>

Halted ==
  /\ \/ pc \in {"done", "panic", "refused"}
     \/ pc = "cut" /\ unrealized # {} /\ Len(parts) >= MaxParts  \* the bound
  /\ UNCHANGED vars

Next ==
  \/ Repartition \/ PlaceFailed \/ GiveUp \/ EndRound
  \/ \E s \in StageCounts : PlaceGood(s)
  \/ BuildAll \/ Refuse \/ SkipEmpty \/ TakePart \/ GatherChoices \/ BuildBatch
  \/ \E j \in choices : RejectMerge(j)
  \/ \E j \in choices, s \in StageCounts : AcceptMerge(j, s)
  \/ FinishPart \/ SortParts
  \/ Halted

\* The mapper cuts the endpoints itself, or reads the parts from a file.
Spec == (Init \/ InitFromFile) /\ [][Next]_vars /\ WF_vars(Next)

-----------------------------------------------------------------------------
TypeOK ==
  /\ pc \in {"cut", "place", "next", "gather", "try", "done", "panic", "refused"}
  /\ division \in Nat \ {0}
  /\ unrealized \subseteq Endpoint
  /\ requeued \subseteq Endpoint
  /\ tries \in Seq(SUBSET Endpoint)
  /\ failed \subseteq SUBSET Endpoint
  /\ parts \in Seq(SUBSET Endpoint)
  /\ nstages \in Seq(Nat \cup {NoFit}) /\ Len(nstages) = Len(parts)
  /\ maxOrig \in Nat
  /\ i \in 1 .. Len(parts) + 1
  /\ cntI \in Nat /\ self \in Nat
  /\ blacklist \subseteq 1 .. Len(parts)
  /\ choices \subseteq 1 .. Len(parts)
  /\ consumed \in Nat /\ filled \in Nat /\ stride \in Nat
  /\ effective \in Seq([endpoints : SUBSET Endpoint, stages : Nat])

-----------------------------------------------------------------------------
(* Properties. *)

\* The endpoints no good part holds: those waiting in this round's blocks or
\* already sent back for the next round.
Loose ==
  IF pc \in {"place", "panic"}
    THEN requeued \cup UNION {tries[k] : k \in DOMAIN tries}
    ELSE unrealized

\* Endpoint e is in one part and no other.
InOnePart(e) ==
  \E p \in DOMAIN parts : e \in parts[p] /\ \A q \in DOMAIN parts \ {p} : e \notin parts[q]

(***************************************************************************)
(* Through every repartitioning round, failed build and merge, an endpoint *)
(* is either loose or in exactly one part (pe.rs:1356-1364 moves parts[j]  *)
(* into parts[i]; cut_map_interactive.rs:99-104 re-indexes blocks into     *)
(* unrealized_endpoints).  A lost endpoint is a register never written; a  *)
(* doubled one is written by two thread blocks.                            *)
(***************************************************************************)
EndpointsOnce ==
  \A e \in Endpoint :
    /\ e \in Loose => \A p \in DOMAIN parts : e \notin parts[p]
    /\ e \notin Loose => InOnePart(e)

(***************************************************************************)
(* The merge cost is an unsigned subtraction (pe.rs:1306): it underflows   *)
(* unless the remembered sizes cnt_node_i and cnt_nodes[j] are still those *)
(* of the parts as merged so far.                                          *)
(***************************************************************************)
MergeCostSound ==
  pc = "try" => \A j \in choices : MergeGrowth(j) >= 0

(***************************************************************************)
(* Merging never makes a partition deeper than the deepest original one    *)
(* plus the allowed degradation (pe.rs:1348-1355), including a partition   *)
(* that absorbed several others in turn.                                   *)
(***************************************************************************)
StageBudget ==
  pc \in {"gather", "try", "next", "done"} =>
    /\ pc \in {"gather", "try"} => self <= maxOrig + MaxStageDegrad
    /\ \A k \in DOMAIN effective : effective[k].stages <= maxOrig + MaxStageDegrad

(***************************************************************************)
(* Once every part fits, process_partitions ends, whatever build_one says  *)
(* of the merges (each round blacklists, merges or stops).                 *)
(***************************************************************************)
MergingEnds == (pc = "next") ~> (pc = "done")

\* The clusters a reader of the result would see.
Blocks == {parts[p] : p \in DOMAIN parts} \ {{}}

Abstract == INSTANCE Clustering WITH loose <- Loose, blocks <- Blocks

(***************************************************************************)
(* The two loops implement Clustering: endpoints settle once, and then     *)
(* only whole blocks are merged.                                           *)
(***************************************************************************)
ImplementsClustering == Abstract!Spec

=============================================================================
