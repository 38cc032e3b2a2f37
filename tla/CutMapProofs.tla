---------------------------- MODULE CutMapProofs ----------------------------
(***************************************************************************)
(* Proofs about CutMap, for every set of endpoints, every cone, all bounds *)
(* and either way to start: its types, that every endpoint is loose or in  *)
(* one part, that merges keep to the stage budget and that the cost of a   *)
(* merge does not underflow.                                               *)
(***************************************************************************)
EXTENDS CutMap, FiniteSetTheorems, SequenceTheorems, TLAPS

-----------------------------------------------------------------------------
(* What TypeOK leaves open. *)

\* The part being grown exists, and what it may absorb lies behind it.
GrowthInv ==
  /\ pc \in {"gather", "try"} => i <= Len(parts)
  /\ pc = "try" => choices \subseteq i + 1 .. Len(parts)

\* Once merging has begun every part fits, in at most maxOrig stages.
FitInv ==
  pc \in {"next", "gather", "try", "done"} =>
    \A k \in DOMAIN nstages : nstages[k] # NoFit /\ nstages[k] <= maxOrig

\* Before merging begins no part has been finished.
FreshInv == pc \in {"cut", "place"} => effective = << >>

\* cnt_node_i is the size of the part being grown.
SizeInv == pc \in {"gather", "try"} => cntI = CntNodes(parts[i])

\* The blocks of a round share no endpoint, with each other or with what has
\* been sent back.
RoundInv ==
  pc \in {"place", "panic"} =>
    \A k \in DOMAIN tries :
      /\ tries[k] \cap requeued = {}
      /\ \A l \in DOMAIN tries \ {k} : tries[k] \cap tries[l] = {}

\* Nothing waits outside a round.
IdleInv ==
  pc \notin {"place", "panic"} => requeued = {} /\ tries = << >>

\* EndpointsOnce, in the form the steps keep.
PartsApart ==
  /\ \A p \in DOMAIN parts : parts[p] \cap Loose = {}
  /\ \A p \in DOMAIN parts : \A q \in DOMAIN parts \ {p} : parts[p] \cap parts[q] = {}
  /\ \A e \in Endpoint : e \in Loose \/ \E p \in DOMAIN parts : e \in parts[p]

-----------------------------------------------------------------------------
(* Sizes. *)

\* The size of a part is a number, and grows with the part.
LEMMA CntNodesType ==
  ASSUME NEW S \in SUBSET Endpoint
  PROVE  /\ CntNodes(S) \in Nat
         /\ \A T \in SUBSET S : CntNodes(T) \in Nat /\ CntNodes(T) <= CntNodes(S)
<1>1. ConeOf(S) \subseteq Node
  BY EndpointAssumption DEF ConeOf
<1>2. IsFiniteSet(ConeOf(S))
  BY <1>1, EndpointAssumption, FS_Subset
<1>3. \A T \in SUBSET S : ConeOf(T) \subseteq ConeOf(S)
  BY DEF ConeOf
<1> QED
  BY <1>2, <1>3, FS_CardinalityType, FS_Subset DEF CntNodes

\* The number of blocks asked of the partitioner is a number.
LEMMA CeilDivType ==
  ASSUME NEW a \in Nat, NEW b \in Nat \ {0}
  PROVE  CeilDiv(a, b) \in Nat
  BY Z3 DEF CeilDiv

\* The next division is at least one.
LEMMA DivisionType ==
  ASSUME NEW a \in Nat
  PROVE  AtLeast(a \div 2, 1) \in Nat \ {0}
  BY Z3 DEF AtLeast

-----------------------------------------------------------------------------
(* Types. *)

LEMMA TypeInit == Init => TypeOK
<1> SUFFICES ASSUME Init PROVE TypeOK
  OBVIOUS
<1> QED
  BY NumberAssumption, EndpointAssumption DEF Init, TypeOK

LEMMA TypeInitFromFile == InitFromFile => TypeOK
<1> SUFFICES ASSUME InitFromFile PROVE TypeOK
  OBVIOUS
<1>1. Cardinality(Endpoint) \in Nat
  BY EndpointAssumption, FS_CardinalityType
<1>2. PICK n \in 1 .. Cardinality(Endpoint) :
        \E block \in [Endpoint -> 1..n] :
          /\ parts = [p \in 1..n |-> {e \in Endpoint : block[e] = p}]
          /\ nstages \in [1..n -> StageCounts \cup {NoFit}]
  BY DEF InitFromFile
<1>3. n \in Nat
  BY <1>1
<1>4. parts \in Seq(SUBSET Endpoint) /\ Len(parts) = n
  BY <1>2, <1>3
<1>5. nstages \in Seq(Nat \cup {NoFit}) /\ Len(nstages) = n
  <2>1. nstages \in [1..n -> Nat \cup {NoFit}]
    BY <1>2, NumberAssumption
  <2> QED
    BY <1>3, <2>1
<1> QED
  BY <1>3, <1>4, <1>5, NumberAssumption DEF InitFromFile, TypeOK

\* A step of the cutting loop keeps the types.
LEMMA TypeCutting ==
  ASSUME TypeOK,
         Repartition \/ PlaceFailed \/ GiveUp \/ EndRound
           \/ \E s \in StageCounts : PlaceGood(s)
  PROVE  TypeOK'
<1> USE DEF cutVars, roundVars, selfVars
<1>1. ASSUME Repartition PROVE TypeOK'
  <2>1. division' \in Nat \ {0}
    BY <1>1, DivisionType DEF Repartition, TypeOK
  <2>2. Cardinality(unrealized) \in Nat
    BY EndpointAssumption, FS_Subset, FS_CardinalityType DEF TypeOK
  <2> DEFINE n == CeilDiv(Cardinality(unrealized), division')
  <2>3. PICK block \in [unrealized -> 1..n] :
          tries' = [p \in 1..n |-> {e \in unrealized : block[e] = p}]
    BY <1>1 DEF Repartition
  <2>n. n \in Nat
    BY <2>1, <2>2, CeilDivType
  <2> HIDE DEF n
  <2>4. tries' \in Seq(SUBSET Endpoint)
    BY <2>3, <2>n DEF TypeOK
  <2> QED
    BY <1>1, <2>1, <2>4 DEF Repartition, TypeOK
<1>2. ASSUME PlaceFailed PROVE TypeOK'
  BY <1>2 DEF PlaceFailed, TypeOK
<1>3. ASSUME GiveUp PROVE TypeOK'
  BY <1>3 DEF GiveUp, TypeOK
<1>4. ASSUME EndRound PROVE TypeOK'
  BY <1>4 DEF EndRound, TypeOK
<1>5. ASSUME NEW s \in StageCounts, PlaceGood(s) PROVE TypeOK'
  <2>1. s \in Nat
    BY NumberAssumption
  <2>2. Head(tries) \in SUBSET Endpoint /\ Tail(tries) \in Seq(SUBSET Endpoint)
    BY <1>5 DEF PlaceGood, TypeOK
  <2>3. /\ parts' \in Seq(SUBSET Endpoint) /\ Len(parts') = Len(parts) + 1
        /\ nstages' \in Seq(Nat \cup {NoFit}) /\ Len(nstages') = Len(nstages) + 1
    BY <1>5, <2>1, <2>2 DEF PlaceGood, TypeOK
  <2> QED
    BY <1>5, <2>2, <2>3 DEF PlaceGood, TypeOK
<1> QED
  BY <1>1, <1>2, <1>3, <1>4, <1>5

\* A step of process_partitions keeps the types.
LEMMA TypeMerging ==
  ASSUME TypeOK, GrowthInv, FitInv,
         \/ BuildAll \/ Refuse \/ SkipEmpty \/ TakePart \/ GatherChoices \/ BuildBatch
         \/ \E j \in choices : RejectMerge(j)
         \/ \E j \in choices, s \in StageCounts : AcceptMerge(j, s)
         \/ FinishPart \/ SortParts
  PROVE  TypeOK'
<1> USE DEF cutVars, roundVars, selfVars
<1>1. ASSUME BuildAll PROVE TypeOK'
  BY <1>1 DEF BuildAll, AllFit, TypeOK
<1>2. ASSUME Refuse PROVE TypeOK'
  BY <1>2 DEF Refuse, TypeOK
<1>3. ASSUME SkipEmpty PROVE TypeOK'
  BY <1>3 DEF SkipEmpty, TypeOK
<1>4. ASSUME TakePart PROVE TypeOK'
  <2>1. cntI' \in Nat
    BY <1>4, CntNodesType DEF TakePart, TypeOK
  <2>2. self' \in Nat
    BY <1>4 DEF TakePart, FitInv, TypeOK
  <2> QED
    BY <1>4, <2>1, <2>2 DEF TakePart, TypeOK
<1>5. ASSUME GatherChoices PROVE TypeOK'
  BY <1>5, NumberAssumption DEF GatherChoices, TypeOK
<1>6. ASSUME BuildBatch PROVE TypeOK'
  <2>1. Cardinality(choices) \in Nat
    <3>1. IsFiniteSet(1 .. Len(parts))
      BY FS_Interval DEF TypeOK
    <3> QED
      BY <3>1, FS_Subset, FS_CardinalityType DEF TypeOK
  <2> QED
    BY <1>6, <2>1 DEF BuildBatch, AtMost, TypeOK
<1>7. ASSUME NEW j \in choices, RejectMerge(j) PROVE TypeOK'
  BY <1>7 DEF RejectMerge, TypeOK
<1>8. ASSUME NEW j \in choices, NEW s \in StageCounts, AcceptMerge(j, s) PROVE TypeOK'
  <2>1. s \in Nat
    BY NumberAssumption
  <2>2. i \in 1 .. Len(parts) /\ j \in 1 .. Len(parts)
    BY <1>8 DEF AcceptMerge, GrowthInv, TypeOK
  <2>3. cntI' \in Nat
    BY <1>8, <2>2, CntNodesType DEF AcceptMerge, MergedSize, MergeTotal, TypeOK
  <2>4. parts' \in Seq(SUBSET Endpoint) /\ Len(parts') = Len(parts)
    BY <1>8, <2>2 DEF AcceptMerge, Merged, TypeOK
  <2> QED
    BY <1>8, <2>1, <2>3, <2>4 DEF AcceptMerge, TypeOK
<1>9. ASSUME FinishPart PROVE TypeOK'
  <2>1. i \in 1 .. Len(parts)
    BY <1>9 DEF FinishPart, GrowthInv, TypeOK
  <2> QED
    BY <1>9, <2>1 DEF FinishPart, TypeOK
<1>10. ASSUME SortParts PROVE TypeOK'
  <2>1. PICK order \in [DOMAIN effective -> DOMAIN effective] :
          effective' = [a \in DOMAIN effective |-> effective[order[a]]]
    BY <1>10 DEF SortParts
  <2>2. effective' \in Seq([endpoints : SUBSET Endpoint, stages : Nat])
    <3> DEFINE R == [endpoints : SUBSET Endpoint, stages : Nat]
    <3>1. effective \in Seq(R)
      BY DEF TypeOK
    <3> HIDE DEF R
    <3>2. effective \in [1 .. Len(effective) -> R] /\ Len(effective) \in Nat
      BY <3>1
    <3>3. effective' \in [1 .. Len(effective) -> R]
      BY <2>1, <3>2
    <3>4. effective' \in Seq(R)
      BY <3>2, <3>3
    <3> QED
      BY <3>4 DEF R
  <2> QED
    BY <1>10, <2>2 DEF SortParts, TypeOK
<1> QED
  BY <1>1, <1>2, <1>3, <1>4, <1>5, <1>6, <1>7, <1>8, <1>9, <1>10

LEMMA TypeStep ==
  ASSUME TypeOK, GrowthInv, FitInv, [Next]_vars
  PROVE  TypeOK'
<1>1. ASSUME UNCHANGED vars PROVE TypeOK'
  BY <1>1 DEF vars, cutVars, roundVars, selfVars, TypeOK
<1>2. ASSUME Halted PROVE TypeOK'
  BY <1>1, <1>2 DEF Halted
<1> QED
  BY <1>1, <1>2, TypeCutting, TypeMerging DEF Next

-----------------------------------------------------------------------------
(* Merging: the part being grown, the stage budget and the merge cost. *)

MergeInv == GrowthInv /\ FitInv /\ FreshInv /\ SizeInv /\ StageBudget

LEMMA MergeInit == (Init \/ InitFromFile) => MergeInv
  BY DEF Init, InitFromFile, MergeInv, GrowthInv, FitInv, FreshInv, SizeInv, StageBudget

\* The cutting loop does not merge.
LEMMA MergeCutting ==
  ASSUME MergeInv,
         Repartition \/ PlaceFailed \/ GiveUp \/ EndRound
           \/ \E s \in StageCounts : PlaceGood(s)
  PROVE  MergeInv'
<1>1. pc' \in {"cut", "place", "panic"} /\ pc \in {"cut", "place"} /\ effective' = effective
  BY DEF Repartition, PlaceFailed, GiveUp, EndRound, PlaceGood, cutVars, selfVars, roundVars
<1> QED
  BY <1>1 DEF MergeInv, GrowthInv, FitInv, FreshInv, SizeInv, StageBudget

\* A merge leaves all parts but two as they were, and keeps their number.
LEMMA MergedType ==
  ASSUME TypeOK, GrowthInv, pc = "try", NEW j \in choices
  PROVE  /\ i \in DOMAIN parts /\ j \in DOMAIN parts /\ i # j
         /\ Len(Merged(j)) = Len(parts) /\ DOMAIN Merged(j) = DOMAIN parts
         /\ Merged(j)[i] = parts[i] \cup parts[j]
         /\ Merged(j)[j] = {}
         /\ \A k \in DOMAIN parts \ {i, j} : Merged(j)[k] = parts[k]
  BY DEF TypeOK, GrowthInv, Merged

\* A step of process_partitions keeps all of it.
LEMMA MergeMerging ==
  ASSUME TypeOK, MergeInv,
         \/ BuildAll \/ Refuse \/ SkipEmpty \/ TakePart \/ GatherChoices \/ BuildBatch
         \/ \E j \in choices : RejectMerge(j)
         \/ \E j \in choices, s \in StageCounts : AcceptMerge(j, s)
         \/ FinishPart \/ SortParts
  PROVE  MergeInv'
<1> USE DEF cutVars, roundVars, selfVars, MergeInv
<1>1. ASSUME BuildAll PROVE MergeInv'
  <2>1. pc' = "next" /\ effective' = << >> /\ FitInv'
    BY <1>1 DEF BuildAll, AllFit, FreshInv, FitInv
  <2> QED
    BY <2>1 DEF GrowthInv, FreshInv, SizeInv, StageBudget
<1>2. ASSUME Refuse PROVE MergeInv'
  BY <1>2 DEF Refuse, GrowthInv, FitInv, FreshInv, SizeInv, StageBudget
<1>3. ASSUME SkipEmpty PROVE MergeInv'
  BY <1>3 DEF SkipEmpty, GrowthInv, FitInv, FreshInv, SizeInv, StageBudget
<1>4. ASSUME TakePart PROVE MergeInv'
  <2>1. GrowthInv' /\ FitInv' /\ FreshInv'
    BY <1>4 DEF TakePart, GrowthInv, FitInv, FreshInv
  <2>2. SizeInv'
    BY <1>4 DEF TakePart, SizeInv
  <2>3. self' \in Nat /\ self' <= maxOrig
    BY <1>4 DEF TakePart, FitInv, TypeOK
  <2>4. self' <= maxOrig + MaxStageDegrad
    BY <2>3, NumberAssumption DEF TypeOK
  <2>5. StageBudget'
    BY <1>4, <2>4 DEF TakePart, StageBudget
  <2> QED
    BY <2>1, <2>2, <2>5
<1>5. ASSUME GatherChoices PROVE MergeInv'
  <2>1. FitInv' /\ FreshInv' /\ StageBudget'
    BY <1>5 DEF GatherChoices, FitInv, FreshInv, StageBudget
  <2>2. GrowthInv'
    BY <1>5 DEF GatherChoices, GrowthInv
  <2>3. SizeInv'
    BY <1>5 DEF GatherChoices, SizeInv
  <2> QED
    BY <2>1, <2>2, <2>3
<1>6. ASSUME BuildBatch PROVE MergeInv'
  <2>1. FitInv' /\ FreshInv' /\ StageBudget' /\ GrowthInv'
    BY <1>6 DEF BuildBatch, FitInv, FreshInv, StageBudget, GrowthInv
  <2>2. SizeInv'
    BY <1>6 DEF BuildBatch, SizeInv
  <2> QED
    BY <2>1, <2>2
<1>7. ASSUME NEW j \in choices, RejectMerge(j) PROVE MergeInv'
  <2>1. FitInv' /\ FreshInv' /\ StageBudget' /\ GrowthInv'
    BY <1>7 DEF RejectMerge, FitInv, FreshInv, StageBudget, GrowthInv
  <2>2. SizeInv'
    BY <1>7 DEF RejectMerge, SizeInv
  <2> QED
    BY <2>1, <2>2
<1>8. ASSUME NEW j \in choices, NEW s \in StageCounts, AcceptMerge(j, s) PROVE MergeInv'
  <2>1. pc = "try" /\ pc' = "gather" /\ parts' = Merged(j) /\ i' = i
        /\ nstages' = nstages /\ maxOrig' = maxOrig /\ effective' = effective
    BY <1>8 DEF AcceptMerge
  <2>2. FitInv' /\ FreshInv' /\ GrowthInv'
    BY <2>1, MergedType DEF FitInv, FreshInv, GrowthInv
  <2>3. SizeInv'
    <3>1. parts'[i'] = parts[i] \cup parts[j]
      BY <2>1, MergedType
    <3>2. cntI' = CntNodes(parts[i] \cup parts[j])
      BY <1>8 DEF AcceptMerge, MergedSize, MergeTotal
    <3> QED
      BY <3>1, <3>2 DEF SizeInv
  <2>4. StageBudget'
    BY <1>8, <2>1 DEF AcceptMerge, WithinBudget, StageBudget
  <2> QED
    BY <2>2, <2>3, <2>4
<1>9. ASSUME FinishPart PROVE MergeInv'
  <2>1. FitInv' /\ FreshInv' /\ GrowthInv' /\ SizeInv'
    BY <1>9 DEF FinishPart, FitInv, FreshInv, GrowthInv, SizeInv
  <2>2. \A k \in DOMAIN effective' : effective'[k].stages <= maxOrig + MaxStageDegrad
    BY <1>9 DEF FinishPart, StageBudget, TypeOK
  <2>3. StageBudget'
    BY <1>9, <2>2 DEF FinishPart, StageBudget
  <2> QED
    BY <2>1, <2>3
<1>10. ASSUME SortParts PROVE MergeInv'
  <2>1. FitInv' /\ FreshInv' /\ GrowthInv' /\ SizeInv'
    BY <1>10 DEF SortParts, FitInv, FreshInv, GrowthInv, SizeInv
  <2>2. PICK order \in [DOMAIN effective -> DOMAIN effective] :
          effective' = [a \in DOMAIN effective |-> effective[order[a]]]
    BY <1>10 DEF SortParts
  <2>3. StageBudget'
    BY <1>10, <2>2 DEF SortParts, StageBudget
  <2> QED
    BY <2>1, <2>3
<1> QED
  BY <1>1, <1>2, <1>3, <1>4, <1>5, <1>6, <1>7, <1>8, <1>9, <1>10

LEMMA MergeStep ==
  ASSUME TypeOK, MergeInv, [Next]_vars
  PROVE  MergeInv'
<1>1. ASSUME UNCHANGED vars PROVE MergeInv'
  <2>1. GrowthInv' /\ FitInv' /\ FreshInv' /\ StageBudget'
    BY <1>1 DEF vars, cutVars, roundVars, selfVars, MergeInv, GrowthInv, FitInv, FreshInv, StageBudget
  <2>2. SizeInv'
    BY <1>1 DEF vars, cutVars, roundVars, selfVars, MergeInv, SizeInv
  <2> QED
    BY <2>1, <2>2 DEF MergeInv
<1>2. ASSUME Halted PROVE MergeInv'
  BY <1>1, <1>2 DEF Halted
<1> QED
  BY <1>1, <1>2, MergeCutting, MergeMerging DEF Next

-----------------------------------------------------------------------------
(* Endpoints. *)

EndpointInv == IdleInv /\ RoundInv /\ PartsApart

\* PartsApart is EndpointsOnce.
LEMMA ApartIsOnce == TypeOK => (PartsApart <=> EndpointsOnce)
  BY DEF TypeOK, PartsApart, EndpointsOnce, InOnePart

LEMMA EndpointInit == Init => EndpointInv
  BY DEF Init, EndpointInv, IdleInv, RoundInv, PartsApart, Loose

LEMMA EndpointInitFromFile == InitFromFile => EndpointInv
<1> SUFFICES ASSUME InitFromFile PROVE EndpointInv
  OBVIOUS
<1>1. Cardinality(Endpoint) \in Nat
  BY EndpointAssumption, FS_CardinalityType
<1>2. PICK n \in 1 .. Cardinality(Endpoint) : \E block \in [Endpoint -> 1..n] :
        parts = [p \in 1..n |-> {e \in Endpoint : block[e] = p}]
  BY DEF InitFromFile
<1>3. PartsApart
  BY <1>2 DEF InitFromFile, PartsApart, Loose
<1> QED
  BY <1>3 DEF InitFromFile, EndpointInv, IdleInv, RoundInv

\* The blocks of a new round are the loose endpoints, each in one of them.
LEMMA EndpointRepartition ==
  ASSUME TypeOK, EndpointInv, Repartition
  PROVE  EndpointInv'
<1>1. PICK n : \E block \in [unrealized -> 1..n] :
        tries' = [p \in 1..n |-> {e \in unrealized : block[e] = p}]
  BY DEF Repartition
<1>2. RoundInv'
  BY <1>1 DEF Repartition, RoundInv
<1>3. Loose' = unrealized
  BY <1>1 DEF Repartition, Loose
<1>4. Loose = unrealized /\ parts' = parts
  BY DEF Repartition, Loose, roundVars, selfVars
<1>5. PartsApart'
  BY <1>3, <1>4 DEF EndpointInv, PartsApart
<1>6. IdleInv'
  BY DEF Repartition, IdleInv
<1> QED
  BY <1>2, <1>5, <1>6 DEF EndpointInv

\* The blocks that are left when the first is taken.
LEMMA TailBlocks ==
  ASSUME TypeOK, RoundInv, pc = "place", tries # << >>
  PROVE  /\ Head(tries) \in SUBSET Endpoint
         /\ DOMAIN Tail(tries) = 1 .. Len(tries) - 1
         /\ \A k \in DOMAIN Tail(tries) : k + 1 \in DOMAIN tries /\ Tail(tries)[k] = tries[k + 1]
         /\ \A k \in DOMAIN Tail(tries) : Tail(tries)[k] \cap Head(tries) = {}
         /\ \A k \in DOMAIN Tail(tries) : Tail(tries)[k] \cap requeued = {}
         /\ \A k, l \in DOMAIN Tail(tries) : k # l => Tail(tries)[k] \cap Tail(tries)[l] = {}
         /\ Head(tries) \cap requeued = {}
         /\ Loose = requeued \cup Head(tries) \cup UNION {Tail(tries)[k] : k \in DOMAIN Tail(tries)}
<1>1. tries \in Seq(SUBSET Endpoint) /\ Len(tries) \in Nat \ {0}
  BY DEF TypeOK
<1>2. /\ Head(tries) = tries[1]
      /\ DOMAIN Tail(tries) = 1 .. Len(tries) - 1
      /\ DOMAIN tries = 1 .. Len(tries)
      /\ \A k \in DOMAIN Tail(tries) : k + 1 \in DOMAIN tries /\ Tail(tries)[k] = tries[k + 1]
  BY <1>1
<1>3. \A k \in DOMAIN Tail(tries) : k + 1 # 1
  BY <1>1, <1>2
<1>4. \A k \in DOMAIN tries : k = 1 \/ (k - 1 \in DOMAIN Tail(tries) /\ tries[k] = Tail(tries)[k - 1])
  <2> TAKE k \in DOMAIN tries
  <2>1. CASE k = 1
    BY <2>1
  <2>2. CASE k # 1
    <3>1. k - 1 \in DOMAIN Tail(tries) /\ (k - 1) + 1 = k
      BY <1>1, <1>2, <2>2
    <3>2. Tail(tries)[k - 1] = tries[(k - 1) + 1]
      BY <1>2, <3>1
    <3> QED
      BY <3>1, <3>2
  <2> QED
    BY <2>1, <2>2
<1>5. \A k \in DOMAIN tries :
        /\ tries[k] \cap requeued = {}
        /\ \A l \in DOMAIN tries \ {k} : tries[k] \cap tries[l] = {}
  BY DEF RoundInv
<1>6. 1 \in DOMAIN tries
  BY <1>1, <1>2
<1>7. \A k \in DOMAIN Tail(tries) : Tail(tries)[k] \cap Head(tries) = {}
  BY <1>2, <1>3, <1>5, <1>6
<1>8. \A k, l \in DOMAIN Tail(tries) : k # l => Tail(tries)[k] \cap Tail(tries)[l] = {}
  <2> TAKE k, l \in DOMAIN Tail(tries)
  <2> HAVE k # l
  <2>1. k + 1 # l + 1
    BY <1>1, <1>2
  <2> QED
    BY <1>2, <1>5, <2>1
<1>9. UNION {tries[k] : k \in DOMAIN tries}
        = Head(tries) \cup UNION {Tail(tries)[k] : k \in DOMAIN Tail(tries)}
  BY <1>2, <1>4, <1>6
<1> QED
  BY <1>1, <1>2, <1>5, <1>6, <1>7, <1>8, <1>9 DEF Loose

\* The first block becomes a part.
LEMMA EndpointPlaceGood ==
  ASSUME TypeOK, EndpointInv, NEW s \in StageCounts, PlaceGood(s)
  PROVE  EndpointInv'
<1> DEFINE H == Head(tries)
           T == Tail(tries)
           rest == UNION {T[k] : k \in DOMAIN T}
<1>1. /\ pc = "place" /\ pc' = "place" /\ tries # << >> /\ tries' = T
      /\ requeued' = requeued /\ parts' = Append(parts, H)
  BY DEF PlaceGood
<1>2. RoundInv
  BY DEF EndpointInv
<1>3. RoundInv'
  BY <1>1, <1>2, TailBlocks DEF RoundInv
<1>4. IdleInv'
  BY <1>1 DEF IdleInv
<1>5. Loose' = requeued \cup rest /\ Loose = requeued \cup H \cup rest
  BY <1>1, <1>2, TailBlocks DEF Loose
<1>6. H \cap rest = {} /\ H \cap requeued = {} /\ H \in SUBSET Endpoint
  BY <1>1, <1>2, TailBlocks
<1>7. /\ DOMAIN parts' = DOMAIN parts \cup {Len(parts) + 1}
      /\ Len(parts) + 1 \notin DOMAIN parts
      /\ parts'[Len(parts) + 1] = H
      /\ \A p \in DOMAIN parts : parts'[p] = parts[p]
  BY <1>1, <1>6 DEF TypeOK
<1> HIDE DEF H, T, rest
<1>8. PartsApart'
  <2> USE <1>5, <1>6, <1>7 DEF EndpointInv, PartsApart
  <2>1. \A p \in DOMAIN parts' : parts'[p] \cap Loose' = {}
    OBVIOUS
  <2>2. \A p \in DOMAIN parts' : \A q \in DOMAIN parts' \ {p} : parts'[p] \cap parts'[q] = {}
    OBVIOUS
  <2>3. \A e \in Endpoint : e \in Loose' \/ \E p \in DOMAIN parts' : e \in parts'[p]
    OBVIOUS
  <2> QED
    BY <2>1, <2>2, <2>3
<1> QED
  BY <1>3, <1>4, <1>8 DEF EndpointInv

\* The first block goes back.
LEMMA EndpointPlaceFailed ==
  ASSUME TypeOK, EndpointInv, PlaceFailed
  PROVE  EndpointInv'
<1>1. /\ pc = "place" /\ pc' = "place" /\ tries # << >> /\ tries' = Tail(tries)
      /\ requeued' = requeued \cup Head(tries) /\ parts' = parts
  BY DEF PlaceFailed
<1>2. RoundInv
  BY DEF EndpointInv
<1>3. RoundInv'
  BY <1>1, <1>2, TailBlocks DEF RoundInv
<1>4. Loose' = Loose
  BY <1>1, <1>2, TailBlocks DEF Loose
<1>5. PartsApart'
  BY <1>1, <1>4 DEF EndpointInv, PartsApart
<1> QED
  BY <1>1, <1>3, <1>5 DEF EndpointInv, IdleInv

\* What has come back is the next round's.
LEMMA EndpointEndRound ==
  ASSUME TypeOK, EndpointInv, EndRound
  PROVE  EndpointInv'
<1>1. Loose' = Loose /\ parts' = parts
  BY DEF EndRound, Loose, selfVars, roundVars
<1>2. PartsApart'
  BY <1>1 DEF EndpointInv, PartsApart
<1> QED
  BY <1>2 DEF EndpointInv, EndRound, IdleInv, RoundInv

\* Part j moves into part i.
LEMMA EndpointAcceptMerge ==
  ASSUME TypeOK, EndpointInv, GrowthInv,
         NEW j \in choices, NEW s \in StageCounts, AcceptMerge(j, s)
  PROVE  EndpointInv'
<1>1. /\ pc = "try" /\ pc' = "gather" /\ parts' = Merged(j)
      /\ unrealized' = unrealized /\ requeued' = requeued /\ tries' = tries
  BY DEF AcceptMerge, cutVars
<1>2. Loose' = Loose
  BY <1>1 DEF Loose
<1>3. PartsApart'
  <2> USE <1>1, <1>2, MergedType DEF EndpointInv, PartsApart
  <2>1. \A p \in DOMAIN parts' : parts'[p] \cap Loose' = {}
    OBVIOUS
  <2>2. \A p \in DOMAIN parts' : \A q \in DOMAIN parts' \ {p} : parts'[p] \cap parts'[q] = {}
    OBVIOUS
  <2>3. \A e \in Endpoint : e \in Loose' \/ \E p \in DOMAIN parts' : e \in parts'[p]
    OBVIOUS
  <2> QED
    BY <2>1, <2>2, <2>3
<1> QED
  BY <1>1, <1>3 DEF EndpointInv, IdleInv, RoundInv

\* The other steps move no endpoint.
LEMMA EndpointOther ==
  ASSUME EndpointInv,
         \/ GiveUp \/ BuildAll \/ Refuse \/ SkipEmpty \/ TakePart
         \/ GatherChoices \/ BuildBatch \/ FinishPart \/ SortParts
         \/ \E j \in choices : RejectMerge(j)
         \/ UNCHANGED vars
  PROVE  EndpointInv'
<1>1. /\ parts' = parts /\ unrealized' = unrealized
      /\ requeued' = requeued /\ tries' = tries
      /\ pc' \in {"place", "panic"} <=> pc \in {"place", "panic"}
  BY DEF GiveUp, BuildAll, Refuse, SkipEmpty, TakePart, GatherChoices, BuildBatch,
         FinishPart, SortParts, RejectMerge, vars, cutVars, selfVars, roundVars
<1>2. Loose' = Loose
  BY <1>1 DEF Loose
<1> QED
  BY <1>1, <1>2 DEF EndpointInv, IdleInv, RoundInv, PartsApart

LEMMA EndpointStep ==
  ASSUME TypeOK, MergeInv, EndpointInv, [Next]_vars
  PROVE  EndpointInv'
<1>1. ASSUME Halted PROVE EndpointInv'
  BY <1>1, EndpointOther DEF Halted
<1> QED
  BY <1>1, EndpointRepartition, EndpointPlaceGood, EndpointPlaceFailed, EndpointEndRound,
     EndpointAcceptMerge, EndpointOther DEF Next, MergeInv

-----------------------------------------------------------------------------
IInv == TypeOK /\ MergeInv /\ EndpointInv

\* The cost of a merge is the growth of a union over one of its parts.
LEMMA CostFromSize == TypeOK /\ MergeInv => MergeCostSound
<1> SUFFICES ASSUME TypeOK, MergeInv, pc = "try", NEW j \in choices
             PROVE  MergeGrowth(j) >= 0
  BY DEF MergeCostSound
<1>1. i \in DOMAIN parts /\ j \in DOMAIN parts
  BY MergedType DEF MergeInv
<1>2. parts[i] \cup parts[j] \in SUBSET Endpoint
  BY <1>1 DEF TypeOK
<1>3. /\ MergeTotal(j) \in Nat
      /\ CntNodes(parts[i]) \in Nat /\ CntNodes(parts[i]) <= MergeTotal(j)
      /\ CntNodes(parts[j]) \in Nat /\ CntNodes(parts[j]) <= MergeTotal(j)
  BY <1>2, CntNodesType DEF MergeTotal
<1>4. cntI = CntNodes(parts[i])
  BY DEF MergeInv, SizeInv
<1> QED
  BY <1>3, <1>4 DEF MergeGrowth, AtLeast

\* Both ways to start satisfy the invariant, and every step keeps it.
LEMMA IInvInit == Init \/ InitFromFile => IInv
  BY TypeInit, TypeInitFromFile, MergeInit, EndpointInit, EndpointInitFromFile DEF IInv

LEMMA IInvStep == IInv /\ [Next]_vars => IInv'
  BY TypeStep, MergeStep, EndpointStep DEF IInv, MergeInv

LEMMA IInvImplies == IInv => TypeOK /\ EndpointsOnce /\ StageBudget /\ MergeCostSound
  BY ApartIsOnce, CostFromSize DEF IInv, MergeInv, EndpointInv

(***************************************************************************)
(* The inductive invariant holds throughout, whether the mapper cuts the   *)
(* endpoints itself or reads the parts from a file.                        *)
(***************************************************************************)
THEOREM Inductive == Spec => []IInv
  BY IInvInit, IInvStep, PTL DEF Spec

(***************************************************************************)
(* The mapper's variables keep their types.                                *)
(***************************************************************************)
THEOREM TypeCorrect == Spec => []TypeOK
  BY Inductive, IInvImplies, PTL

(***************************************************************************)
(* No endpoint group is ever lost or held by two parts                     *)
(* (pe.rs:1356-1364, cut_map_interactive.rs:82-126).                       *)
(***************************************************************************)
THEOREM NoEndpointLost == Spec => []EndpointsOnce
  BY Inductive, IInvImplies, PTL

(***************************************************************************)
(* Merging never exceeds the deepest original part by more than the        *)
(* allowed degradation (pe.rs:1348-1355).                                  *)
(***************************************************************************)
THEOREM BudgetKept == Spec => []StageBudget
  BY Inductive, IInvImplies, PTL

(***************************************************************************)
(* The unsigned subtraction in the merge cost (pe.rs:1306) never           *)
(* underflows.                                                             *)
(***************************************************************************)
THEOREM CostNeverUnderflows == Spec => []MergeCostSound
  BY Inductive, IInvImplies, PTL

-----------------------------------------------------------------------------
(* CutMap implements Clustering. *)

Abs == <<Loose, Blocks>>

LEMMA ClusteringInit == Init \/ InitFromFile => Abstract!Init
<1> SUFFICES ASSUME Init \/ InitFromFile PROVE Abstract!Init
  OBVIOUS
<1>1. PartsApart /\ TypeOK
  BY IInvInit DEF IInv, EndpointInv
<1>2. Loose \subseteq Endpoint
  BY DEF Init, InitFromFile, Loose
<1>3. \A p \in DOMAIN parts : parts[p] \subseteq Endpoint
  BY <1>1 DEF TypeOK
<1>4. Loose \cup UNION Blocks = Endpoint
  BY <1>1, <1>2, <1>3 DEF PartsApart, Blocks
<1>5. \A B \in Blocks : B \cap (Loose \cup UNION (Blocks \ {B})) = {}
  BY <1>1 DEF PartsApart, Blocks
<1> QED
  BY <1>4, <1>5 DEF Abstract!Init, Blocks

\* A block that fits is settled; an empty one is nothing to a reader.
LEMMA ClusteringPlaceGood ==
  ASSUME TypeOK, EndpointInv, NEW s \in StageCounts, PlaceGood(s)
  PROVE  [Abstract!Next]_Abs
<1> DEFINE H == Head(tries)
           T == Tail(tries)
           rest == UNION {T[k] : k \in DOMAIN T}
<1>1. /\ pc = "place" /\ pc' = "place" /\ tries # << >> /\ tries' = T
      /\ requeued' = requeued /\ parts' = Append(parts, H)
  BY DEF PlaceGood
<1>2. RoundInv
  BY DEF EndpointInv
<1>3. Loose' = requeued \cup rest /\ Loose = requeued \cup H \cup rest
  BY <1>1, <1>2, TailBlocks DEF Loose
<1>4. H \cap rest = {} /\ H \cap requeued = {} /\ H \in SUBSET Endpoint
  BY <1>1, <1>2, TailBlocks
<1>5. /\ DOMAIN parts' = DOMAIN parts \cup {Len(parts) + 1}
      /\ Len(parts) + 1 \notin DOMAIN parts
      /\ parts'[Len(parts) + 1] = H
      /\ \A p \in DOMAIN parts : parts'[p] = parts[p]
  BY <1>1, <1>4 DEF TypeOK
<1> HIDE DEF H, T, rest
<1>6. Loose' = Loose \ H /\ H \subseteq Loose
  BY <1>3, <1>4
<1>7. {parts'[p] : p \in DOMAIN parts'} = {parts[p] : p \in DOMAIN parts} \cup {H}
  BY <1>5
<1>8. Blocks' = (Blocks \cup {H}) \ {{}}
  BY <1>7 DEF Blocks
<1>9. CASE H = {}
  BY <1>6, <1>8, <1>9 DEF Abs, Blocks
<1>10. CASE H # {}
  <2>1. Abstract!Settle(H)
    BY <1>6, <1>8, <1>10 DEF Abstract!Settle, Blocks
  <2> QED
    BY <1>6, <2>1 DEF Abstract!Next
<1> QED
  BY <1>9, <1>10

\* A merge joins two blocks; with an emptied part it changes nothing.
LEMMA ClusteringAcceptMerge ==
  ASSUME TypeOK, EndpointInv, GrowthInv,
         NEW j \in choices, NEW s \in StageCounts, AcceptMerge(j, s)
  PROVE  [Abstract!Next]_Abs
<1>1. /\ pc = "try" /\ pc' = "gather" /\ parts' = Merged(j)
      /\ unrealized' = unrealized
  BY DEF AcceptMerge, cutVars
<1>2. Loose' = Loose
  BY <1>1 DEF Loose
<1> DEFINE A == parts[i]
           B == parts[j]
<1>3. /\ i \in DOMAIN parts /\ j \in DOMAIN parts /\ i # j
      /\ DOMAIN parts' = DOMAIN parts /\ parts'[i] = A \cup B /\ parts'[j] = {}
      /\ \A k \in DOMAIN parts \ {i, j} : parts'[k] = parts[k]
  BY <1>1, MergedType
<1>4. \A p \in DOMAIN parts : \A q \in DOMAIN parts \ {p} : parts[p] \cap parts[q] = {}
  BY DEF EndpointInv, PartsApart
<1>5. \A p \in DOMAIN parts \ {i, j} : parts[p] \cap A = {} /\ parts[p] \cap B = {}
  BY <1>3, <1>4
<1>6. A \cap B = {}
  BY <1>3, <1>4
<1> HIDE DEF A, B
<1>a. A = parts[i] /\ B = parts[j]
  BY DEF A, B
<1>7. \A S : S \in Blocks' <=> S # {} /\ (S = A \cup B \/ \E p \in DOMAIN parts \ {i, j} : S = parts[p])
  BY <1>3 DEF Blocks
<1>8. \A S : S \in Blocks <=> S # {} /\ (S = A \/ S = B \/ \E p \in DOMAIN parts \ {i, j} : S = parts[p])
  BY <1>3, <1>a DEF Blocks
<1>9. CASE A = {} \/ B = {}
  <2>1. Blocks' = Blocks
    BY <1>7, <1>8, <1>9
  <2> QED
    BY <1>2, <2>1 DEF Abs
<1>10. CASE A # {} /\ B # {}
  <2>1. A \in Blocks /\ B \in Blocks /\ A # B
    BY <1>6, <1>8, <1>10
  <2>2. \A p \in DOMAIN parts \ {i, j} : parts[p] # A /\ parts[p] # B
    BY <1>5, <1>10
  <2>3. A \cup B # {}
    BY <1>10
  <2>4. \A S : S \in Blocks' <=> (S \in Blocks /\ S # A /\ S # B) \/ S = A \cup B
    <3>1. A \cup B # A /\ A \cup B # B
      BY <1>6, <1>10
    <3> QED
      BY <1>7, <1>8, <2>2, <2>3, <3>1
  <2>5. Blocks' = (Blocks \ {A, B}) \cup {A \cup B}
    BY <2>4
  <2>6. Abstract!Merge(A, B)
    BY <1>2, <2>1, <2>5 DEF Abstract!Merge
  <2> QED
    BY <2>1, <2>6 DEF Abstract!Next
<1> QED
  BY <1>9, <1>10

\* The other steps change nothing that a reader would see.
LEMMA ClusteringOther ==
  ASSUME TypeOK, EndpointInv,
         \/ Repartition \/ PlaceFailed \/ EndRound
         \/ GiveUp \/ BuildAll \/ Refuse \/ SkipEmpty \/ TakePart
         \/ GatherChoices \/ BuildBatch \/ FinishPart \/ SortParts
         \/ \E j \in choices : RejectMerge(j)
         \/ Halted \/ UNCHANGED vars
  PROVE  UNCHANGED Abs
<1>1. parts' = parts
  BY DEF Repartition, PlaceFailed, EndRound, GiveUp, BuildAll, Refuse, SkipEmpty, TakePart, GatherChoices,
         BuildBatch, FinishPart, SortParts, RejectMerge, Halted, vars, cutVars, selfVars, roundVars
<1>2. CASE Repartition
  <2>1. PICK n : \E block \in [unrealized -> 1..n] :
          tries' = [p \in 1..n |-> {e \in unrealized : block[e] = p}]
    BY <1>2 DEF Repartition
  <2>2. Loose' = unrealized
    BY <1>2, <2>1 DEF Repartition, Loose
  <2> QED
    BY <1>1, <1>2, <2>2 DEF Repartition, Loose, Abs, Blocks
<1>3. CASE PlaceFailed
  <2>1. /\ pc = "place" /\ pc' = "place" /\ tries # << >> /\ tries' = Tail(tries)
        /\ requeued' = requeued \cup Head(tries)
    BY <1>3 DEF PlaceFailed
  <2>2. Loose' = Loose
    BY <2>1, TailBlocks DEF Loose, EndpointInv
  <2> QED
    BY <1>1, <2>2 DEF Abs, Blocks
<1>4. CASE EndRound
  BY <1>1, <1>4 DEF EndRound, Loose, Abs, Blocks
<1>5. CASE \/ GiveUp \/ BuildAll \/ Refuse \/ SkipEmpty \/ TakePart
           \/ GatherChoices \/ BuildBatch \/ FinishPart \/ SortParts
           \/ \E j \in choices : RejectMerge(j)
           \/ Halted \/ UNCHANGED vars
  <2>1. /\ unrealized' = unrealized /\ requeued' = requeued /\ tries' = tries
        /\ pc' \in {"place", "panic"} <=> pc \in {"place", "panic"}
    BY <1>5 DEF GiveUp, BuildAll, Refuse, SkipEmpty, TakePart, GatherChoices, BuildBatch,
           FinishPart, SortParts, RejectMerge, Halted, vars, cutVars, selfVars, roundVars
  <2> QED
    BY <1>1, <2>1 DEF Loose, Abs, Blocks
<1> QED
  BY <1>2, <1>3, <1>4, <1>5

LEMMA ClusteringStep == IInv /\ [Next]_vars => [Abstract!Next]_Abs
<1> SUFFICES ASSUME IInv, [Next]_vars PROVE [Abstract!Next]_Abs
  OBVIOUS
<1> USE DEF IInv, MergeInv
<1>1. ASSUME NEW s \in StageCounts, PlaceGood(s) PROVE [Abstract!Next]_Abs
  BY <1>1, ClusteringPlaceGood
<1>2. ASSUME NEW j \in choices, NEW s \in StageCounts, AcceptMerge(j, s) PROVE [Abstract!Next]_Abs
  BY <1>2, ClusteringAcceptMerge
<1> QED
  BY <1>1, <1>2, ClusteringOther DEF Next

(***************************************************************************)
(* The cutting and merging loops implement Clustering: an endpoint settles *)
(* in a block once, and from then on moves only with its whole block       *)
(* (cut_map_interactive.rs:82-126, pe.rs:1356-1364).                       *)
(***************************************************************************)
THEOREM CutMapImplementsClustering == Spec => ImplementsClustering
<1>1. IInv /\ [Next]_vars => [Abstract!Next]_<<Loose, Blocks>>
  BY ClusteringStep DEF Abs
<1> QED
  BY <1>1, ClusteringInit, Inductive, PTL DEF Spec, ImplementsClustering, Abstract!Spec

=============================================================================
