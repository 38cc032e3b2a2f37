---------------------------- MODULE StagingProofs ----------------------------
(***************************************************************************)
(* Theorems about Staging, and about RepCut, which divides its stages, for *)
(* every graph, every set of endpoints and every list of split levels, and *)
(* for blocks and edges of any size.                                       *)
(***************************************************************************)
EXTENDS RepCut, Induction, FiniteSetTheorems

-----------------------------------------------------------------------------
(* The inductive invariant.  It says, at every step of the three loops,    *)
(* which readers of a pin are left and that a pin is alive exactly while   *)
(* it is low enough and has some; that levels leave none out, so that      *)
(* where a pin is too high another is alive; and, of the stages built, who *)
(* has been realized.                                                      *)

InStage == pc \in {"rank", "visit", "settle"}

\* What was traversed holds the fan-in of its gates, and a gate waits for it.
Closed ==
  InStage =>
    /\ Needs(design, unrealized) \subseteq order
    /\ \A r \in Gates \cap order : FaninOf(design, r) \subseteq order
    /\ \A r \in (Gates \cap order) \ todo : FaninOf(design, r) \cap todo = {}

\* The gates whose level is known.
RankedGates == {r \in Gates \cap order : pc = "rank" => r \notin todo}

\* Two gates, one above the other, on either side of the level l.
Step(l) ==
  \E r, f \in RankedGates : f \in FaninOf(design, r) /\ level[f] = l /\ level[r] = l + 1

\* Levels grow along fan-in, are zero elsewhere, and leave none out.
Ranked ==
  InStage =>
    /\ \A p \in RankedGates : \A f \in FaninOf(design, p) : level[f] < level[p]
    /\ \A p \in Pins \ RankedGates : level[p] = 0
    /\ \A p \in RankedGates : \A l \in Nat : 1 <= l /\ l < level[p] => Step(l)

GatesLeft(p) ==
  {r \in GateReaders(p) : IF pc = "rank" THEN r \notin todo ELSE r \in todo \/ ~Within(level[r])}

EndpointsLeft(p) ==
  {e \in EndpointReaders(p) : pc = "visit" \/ (pc = "settle" /\ (e \in open \/ ~Reached(e)))}

\* The readers counted are those that have not been visited, or are too high.
Counted ==
  InStage =>
    \A p \in Pins :
      /\ \A r \in Pins : Gate(r) \in wanted[p] <=> r \in GatesLeft(p)
      /\ \A e \in Endpoints : Endpoint(e) \in wanted[p] <=> e \in EndpointsLeft(p)

\* What is alive has been visited, is low enough and has a reader left or none.
IsLive(p) == p \in order \ todo /\ Within(level[p]) /\ (wanted[p] # {} \/ Unread(p))

Alive ==
  /\ pc = "rank" => live = {}
  /\ pc \in {"visit", "settle"} => \A p \in Pins : p \in live <=> IsLive(p)

Settled ==
  /\ pc \in {"rank", "visit"} => before = {}
  /\ pc = "settle" => todo = {} /\ \A e \in Endpoints : e \in before <=> e \in unrealized \ open /\ Reached(e)

Published(e) == \E i \in DOMAIN stageds : e \in stageds[i].endpoints

Handled ==
  /\ \A i, j \in DOMAIN stageds : i # j => stageds[i].endpoints \cap stageds[j].endpoints = {}
  /\ \A e \in Endpoints : pc = "done" => Published(e)
  /\ \A e \in Endpoints : pc # "done" => (Published(e) <=> e \notin unrealized)

Inductive == TypeOK /\ Closed /\ Ranked /\ Counted /\ Alive /\ Settled /\ Handled /\ PanicOnlyIdle

-----------------------------------------------------------------------------
(* The graph and the levels. *)

LEMMA FaninIsPins ==
  ASSUME NEW d \in Designs, NEW p \in Pins
  PROVE  FaninOf(d, p) \subseteq Pins /\ \A f \in FaninOf(d, p) : f < p
BY DesignAssumption, SMT DEF FaninOf

LEMMA NeedsArePins ==
  ASSUME NEW d \in Designs, NEW E \in SUBSET Endpoints
  PROVE  Needs(d, E) \subseteq Pins
BY DesignAssumption, SMT DEF Needs

\* A traversal reaches where it starts from and the fan-in of what it reaches.
LEMMA ConeIsClosed ==
  ASSUME NEW d \in Designs, NEW from \in SUBSET Pins, NEW stop \in SUBSET Pins
  PROVE  /\ Cone(d, from, stop) \subseteq Pins
         /\ from \subseteq Cone(d, from, stop)
         /\ \A p \in Cone(d, from, stop) \ stop : FaninOf(d, p) \subseteq Cone(d, from, stop)
<1>1. \A p \in Pins : FaninOf(d, p) \subseteq Pins
  BY FaninIsPins
<1>2. QED
  BY <1>1, Zenon DEF Cone

LEMMA EndpointIsNoGate ==
  \A p, e : Gate(p) # Endpoint(e)
BY SMT DEF Gate, Endpoint

LEMMA ReaderNamesDiffer ==
  /\ \A p, q : Gate(p) = Gate(q) => p = q
  /\ \A e, f : Endpoint(e) = Endpoint(f) => e = f
BY SMT DEF Gate, Endpoint

\* The stage in progress has room for a gate above its inputs.
LEMMA RoomInStage ==
  ASSUME TypeOK, pc # "done", Current <= Len(split)
  PROVE  split[Current] - From(Current) \in Nat \ {0}
<1>1. split \in Seq(Nat \ {0}) /\ Len(stageds) \in Nat
  BY SplitAssumption DEF TypeOK
<1>2. CASE Current = 1
  BY <1>1, <1>2, SMT DEF From, Current
<1>3. CASE Current # 1
  <2>1. Current - 1 \in 1 .. Len(split) - 1
    BY <1>1, <1>3, SMT DEF Current
  <2>2. split[Current - 1] < split[Current]
    <3>1. \A k \in 1 .. Len(split) - 1 : split[k] < split[k + 1]
      BY SplitAssumption DEF TypeOK
    <3>2. (Current - 1) + 1 = Current
      BY <1>1, SMT DEF Current
    <3>3. QED
      BY <2>1, <3>1, <3>2, Zenon
  <2>3. QED
    BY <1>1, <1>3, <2>1, <2>2, SMT DEF From, Current
<1>4. QED
  BY <1>2, <1>3

LEMMA WithinMonotone ==
  ASSUME TypeOK, pc # "done", NEW a \in Nat, NEW b \in Nat, a <= b, Within(b)
  PROVE  Within(a)
BY RoomInStage, SMT DEF Within

\* Where something is too high, some gate that is not has a reader that is.
LEMMA LateReaderExists ==
  ASSUME TypeOK, Ranked, pc = "settle", NEW p \in Pins, ~Within(level[p])
  PROVE  /\ Current <= Len(split)
         /\ \E f \in Gates \cap order : Within(level[f]) /\ \E r \in GateReaders(f) : ~Within(level[r])
<1> DEFINE l == split[Current] - From(Current)
<1>1. Current <= Len(split) /\ l \in Nat /\ 1 <= l /\ l < level[p]
  BY RoomInStage, SMT DEF Within, TypeOK
<1>2. p \in RankedGates
  BY <1>1, SMT DEF Ranked, InStage
<1>3. Step(l)
  BY <1>1, <1>2 DEF Ranked, InStage
<1>4. PICK r \in RankedGates, f \in RankedGates : f \in FaninOf(design, r) /\ level[f] = l /\ level[r] = l + 1
  BY <1>3 DEF Step
<1>5. Within(level[f]) /\ ~Within(level[r])
  BY <1>1, <1>4, SMT DEF Within
<1>6. QED
  BY <1>1, <1>4, <1>5 DEF RankedGates, GateReaders

-----------------------------------------------------------------------------
(* What an action leaves alone. *)

LEMMA SameGraph ==
  ASSUME UNCHANGED <<design, inputs, order, unrealized>>
  PROVE  /\ Gates' = Gates
         /\ \A p : FaninOf(design, p)' = FaninOf(design, p)
         /\ \A p : GateReaders(p)' = GateReaders(p)
         /\ \A p : EndpointReaders(p)' = EndpointReaders(p)
         /\ \A p : Unread(p)' <=> Unread(p)
BY SMT DEF Gates, FaninOf, GateReaders, EndpointReaders, Unread

LEMMA SameLevels ==
  ASSUME UNCHANGED <<split, stageds>>
  PROVE  \A l : Within(l)' <=> Within(l)
BY SMT DEF Within, Current, From

LEMMA SamePublished ==
  ASSUME Handled, TypeOK, UNCHANGED <<stageds, unrealized>>, pc # "done", pc' # "done"
  PROVE  Handled'
BY SMT DEF Handled, Published

-----------------------------------------------------------------------------
(* One lemma for each action. *)

LEMMA InitInductive == Init => Inductive
<1> SUFFICES ASSUME Init PROVE Inductive
  OBVIOUS
<1>1. Len(split) \in Nat
  BY SplitAssumption DEF Init
<1>2. TypeOK
  BY <1>1, SMT DEF Init, TypeOK
<1>3. Closed /\ Ranked /\ Counted /\ Alive /\ Settled /\ PanicOnlyIdle
  BY DEF Init, Closed, Ranked, Counted, Alive, Settled, InStage, PanicOnlyIdle
<1>4. Handled
  BY SMT DEF Init, Handled, Published
<1>5. QED
  BY <1>2, <1>3, <1>4 DEF Inductive

LEMMA StartKeeps == Inductive /\ Start => Inductive'
<1> SUFFICES ASSUME Inductive, Start PROVE Inductive'
  OBVIOUS
<1> USE DEF Inductive
<1>1. /\ order' \subseteq Pins
      /\ Needs(design, unrealized) \subseteq order'
      /\ \A p \in order' \ inputs : FaninOf(design, p) \subseteq order'
  <2>1. Needs(design, unrealized) \in SUBSET Pins /\ inputs \in SUBSET Pins /\ design \in Designs
    BY NeedsArePins DEF TypeOK
  <2>2. QED
    BY <2>1, ConeIsClosed DEF Start
<1>2. TypeOK'
  BY <1>1, SMT DEF TypeOK, Start
<1>3. Closed'
  BY <1>1, SMT DEF Closed, Start, Gates, InStage
<1>4. RankedGates' = {}
  BY SMT DEF RankedGates, Start
<1>5. Ranked'
  BY <1>4, SMT DEF Ranked, Start
<1>6. Counted'
  BY SMT DEF Counted, Start, GatesLeft, EndpointsLeft, GateReaders
<1>7. Alive' /\ Settled' /\ PanicOnlyIdle'
  BY SMT DEF Alive, Settled, PanicOnlyIdle, Start
<1>8. Handled'
  BY SamePublished DEF Start
<1>9. QED
  BY <1>2, <1>3, <1>5, <1>6, <1>7, <1>8

LEMMA NothingLeftKeeps == Inductive /\ NothingLeft => Inductive'
<1> SUFFICES ASSUME Inductive, NothingLeft PROVE Inductive'
  OBVIOUS
<1> USE DEF Inductive
<1>1. TypeOK'
  BY SMT DEF TypeOK, NothingLeft
<1>2. Closed' /\ Ranked' /\ Counted' /\ Alive' /\ Settled'
  BY SMT DEF Closed, Ranked, Counted, Alive, Settled, InStage, NothingLeft
<1>3. Handled'
  BY SamePublished DEF NothingLeft
<1>4. PanicOnlyIdle'
  BY DEF PanicOnlyIdle, NothingLeft, Needs
<1>5. QED
  BY <1>1, <1>2, <1>3, <1>4

LEMMA RankKeeps == ASSUME NEW p \in Pins PROVE Inductive /\ Rank(p) => Inductive'
<1> SUFFICES ASSUME Inductive, Rank(p) PROVE Inductive'
  OBVIOUS
<1> USE DEF Inductive
<1>1. UNCHANGED <<design, inputs, order, unrealized, split, stageds, pc>> /\ pc = "rank" /\ p \in todo /\ InStage
  BY DEF Rank, NextPin, InStage
<1>2. FaninOf(design, p) \subseteq Pins
  BY FaninIsPins DEF TypeOK
<1>3. p \in Gates => /\ design.ands[p] \in Pins \X Pins
                     /\ FaninOf(design, p) = {design.ands[p][1], design.ands[p][2]}
                     /\ FaninOf(design, p) \cap todo = {}
                     /\ p \notin FaninOf(design, p)
  BY DesignAssumption, <1>1, SMT DEF TypeOK, Gates, FaninOf, Rank, NextPin
<1>4. TypeOK'
  <2>1. CASE p \in Gates
    <3>1. level' \in [Pins -> Nat]
      <4> DEFINE h == Higher(level[design.ands[p][1]], level[design.ands[p][2]])
      <4>1. design.ands[p][1] \in Pins /\ design.ands[p][2] \in Pins
        BY <1>3, <2>1, SMT
      <4>2. h + 1 \in Nat
        <5>1. level[design.ands[p][1]] \in Nat /\ level[design.ands[p][2]] \in Nat
          BY <4>1 DEF TypeOK
        <5>2. \A m, n \in Nat : Higher(m, n) + 1 \in Nat
          BY SMT DEF Higher
        <5>3. QED
          BY <5>1, <5>2
      <4>3. level' = [level EXCEPT ![p] = h + 1]
        BY <2>1 DEF Rank
      <4> HIDE DEF h
      <4>4. QED
        BY <4>2, <4>3, SMT DEF TypeOK
    <3>2. Gate(p) \in Readers
      BY DEF Readers
    <3>3. wanted' \in [Pins -> SUBSET Readers]
      <4>1. wanted' = [q \in Pins |-> wanted[q] \cup (IF q \in FaninOf(design, p) THEN {Gate(p)} ELSE {})]
        BY <2>1 DEF Rank
      <4>2. \A q \in Pins : wanted[q] \subseteq Readers
        BY DEF TypeOK
      <4>3. QED
        BY <3>2, <4>1, <4>2, SMT
    <3>4. QED
      BY <1>1, <3>1, <3>3, SMT DEF TypeOK, Rank
  <2>2. CASE p \notin Gates
    BY <1>1, <2>2, SMT DEF TypeOK, Rank
  <2>3. QED
    BY <2>1, <2>2
<1>5. Closed'
  <2>1. \A r \in (Gates \cap order) \ todo' : FaninOf(design, r) \cap todo' = {}
    BY <1>1, <1>3, SMT DEF Closed, Rank
  <2>2. Gates' = Gates /\ \A r : FaninOf(design, r)' = FaninOf(design, r)
    BY <1>1, SameGraph
  <2>3. QED
    BY <1>1, <2>1, <2>2 DEF Closed, Needs
<1>6. RankedGates' = RankedGates \cup ({p} \cap Gates) /\ p \notin RankedGates
  BY <1>1, SMT DEF RankedGates, Rank, Gates, TypeOK
<1>7. \A f \in RankedGates : FaninOf(design, f) \cap todo = {}
  BY <1>1 DEF Closed, RankedGates
<1>8. \A f \in Pins \ {p} : level'[f] = level[f]
  BY SMT DEF Rank, TypeOK
<1>9. Ranked'
  <2>1. CASE p \notin Gates
    BY <1>1, <1>6, <2>1, SameGraph, SMT DEF Ranked, Rank, Step, InStage
  <2>2. CASE p \in Gates
    <3> DEFINE a == design.ands[p][1]
               b == design.ands[p][2]
    <3>1. a \in Pins /\ b \in Pins /\ FaninOf(design, p) = {a, b} /\ a # p /\ b # p
      BY <1>3, <2>2, SMT
    <3>2. level'[p] = Higher(level[a], level[b]) + 1
      BY <2>2, SMT DEF Rank, TypeOK
    <3>3. level[a] \in Nat /\ level[b] \in Nat
      BY <3>1 DEF TypeOK
    <3>4. \A r \in RankedGates : FaninOf(design, r) \subseteq Pins \ {p}
      BY <1>1, <1>7, FaninIsPins DEF TypeOK, RankedGates
    <3>5. RankedGates \subseteq Pins \ {p}
      BY <1>6 DEF RankedGates, TypeOK
    <3>6. \A r \in RankedGates' : \A f \in FaninOf(design, r) : level'[f] < level'[r]
      <4>1. \A f \in {a, b} : level'[f] < level'[p]
        BY <1>8, <3>1, <3>2, <3>3, SMT DEF Higher
      <4>2. \A r \in RankedGates : \A f \in FaninOf(design, r) : level'[f] < level'[r]
        BY <1>1, <1>8, <3>4, <3>5 DEF Ranked
      <4>3. QED
        BY <1>6, <3>1, <4>1, <4>2
    <3>7. \A q \in Pins \ RankedGates' : level'[q] = 0
      BY <1>1, <1>6, <1>8, <2>2 DEF Ranked
    <3>8. \A l \in Nat : Step(l) => Step(l)'
      <4> SUFFICES ASSUME NEW l \in Nat, Step(l) PROVE Step(l)'
        OBVIOUS
      <4>1. PICK r \in RankedGates, f \in RankedGates :
              f \in FaninOf(design, r) /\ level[f] = l /\ level[r] = l + 1
        BY DEF Step
      <4>2. r \in RankedGates' /\ f \in RankedGates' /\ level'[f] = l /\ level'[r] = l + 1
        BY <1>6, <1>8, <3>5, <4>1
      <4>3. f \in FaninOf(design, r)'
        BY <1>1, <4>1, SameGraph
      <4>4. QED
        BY <4>2, <4>3 DEF Step
    <3>9. \A l \in Nat : 1 <= l /\ l < level'[p] => Step(l)'
      <4> SUFFICES ASSUME NEW l \in Nat, 1 <= l, l < level'[p] PROVE Step(l)'
        OBVIOUS
      <4>1. PICK f \in {a, b} : level[f] = Higher(level[a], level[b])
        BY <3>3, SMT DEF Higher
      <4>2. level[f] \in Nat /\ l <= level[f] /\ level'[p] = level[f] + 1
        BY <3>2, <3>3, <4>1, SMT
      <4>3. f \in RankedGates
        <5>1. f \in Pins /\ level[f] # 0
          BY <3>1, <4>2, SMT
        <5>2. QED
          BY <1>1, <5>1 DEF Ranked
      <4>4. CASE l < level[f]
        BY <1>1, <3>8, <4>3, <4>4 DEF Ranked
      <4>5. CASE l = level[f]
        <5>1. f \in FaninOf(design, p)' /\ p \in RankedGates' /\ f \in RankedGates'
          BY <1>1, <1>6, <2>2, <3>1, <4>3, SameGraph
        <5>2. level'[f] = l /\ level'[p] = l + 1
          BY <1>8, <3>5, <4>2, <4>3, <4>5
        <5>3. QED
          BY <5>1, <5>2 DEF Step
      <4>6. QED
        BY <4>2, <4>4, <4>5, SMT
    <3>10. \A r \in RankedGates' : \A l \in Nat : 1 <= l /\ l < level'[r] => Step(l)'
      BY <1>1, <1>6, <1>8, <3>5, <3>8, <3>9 DEF Ranked
    <3>11. QED
      BY <1>1, <3>6, <3>7, <3>10, SameGraph DEF Ranked
  <2>3. QED
    BY <2>1, <2>2
<1>10. Counted'
  <2> SUFFICES ASSUME NEW q \in Pins
               PROVE  /\ \A r \in Pins : Gate(r) \in wanted'[q] <=> r \in GatesLeft(q)'
                      /\ \A e \in Endpoints : Endpoint(e) \in wanted'[q] <=> e \in EndpointsLeft(q)'
    BY DEF Counted
  <2>1. wanted'[q] = wanted[q] \cup (IF p \in Gates /\ q \in FaninOf(design, p) THEN {Gate(p)} ELSE {})
    BY SMT DEF Rank, TypeOK
  <2>2. EndpointsLeft(q)' = EndpointsLeft(q)
    BY <1>1, SMT DEF EndpointsLeft
  <2>3. GatesLeft(q)' = GatesLeft(q) \cup ({p} \cap GateReaders(q))
    <3>1. GateReaders(q)' = GateReaders(q)
      BY <1>1, SameGraph
    <3>2. todo' = todo \ {p}
      BY DEF Rank
    <3>3. QED
      BY <1>1, <3>1, <3>2, SMT DEF GatesLeft
  <2>4. p \in GateReaders(q) <=> p \in Gates /\ q \in FaninOf(design, p)
    BY <1>1 DEF GateReaders, TypeOK
  <2>5. \A r \in Pins : Gate(r) \in wanted[q] <=> r \in GatesLeft(q)
    BY <1>1 DEF Counted
  <2>6. \A e \in Endpoints : Endpoint(e) \in wanted[q] <=> e \in EndpointsLeft(q)
    BY <1>1 DEF Counted
  <2>7. QED
    BY <2>1, <2>2, <2>3, <2>4, <2>5, <2>6, EndpointIsNoGate, ReaderNamesDiffer
<1>11. Alive' /\ Settled' /\ PanicOnlyIdle'
  BY <1>1, SMT DEF Alive, Settled, PanicOnlyIdle, Rank
<1>12. Handled'
  BY <1>1, SamePublished
<1>13. QED
  BY <1>4, <1>5, <1>9, <1>10, <1>11, <1>12

LEMMA RankEndKeeps == Inductive /\ RankEnd => Inductive'
<1> SUFFICES ASSUME Inductive, RankEnd PROVE Inductive'
  OBVIOUS
<1> USE DEF Inductive
<1>1. /\ UNCHANGED <<design, inputs, order, unrealized, split, stageds, level, live, before, open>>
      /\ pc = "rank" /\ pc' = "visit" /\ todo = {} /\ todo' = order /\ InStage /\ InStage'
  BY DEF RankEnd, InStage
<1>2. TypeOK'
  <2>1. \A q \in Pins : EndpointsReading(q) \subseteq Readers
    BY DEF EndpointsReading, Readers, TypeOK
  <2>2. wanted' = [q \in Pins |-> wanted[q] \cup EndpointsReading(q)]
    BY DEF RankEnd
  <2>3. \A q \in Pins : wanted[q] \subseteq Readers
    BY DEF TypeOK
  <2>4. wanted' \in [Pins -> SUBSET Readers]
    BY <2>1, <2>2, <2>3, SMT
  <2>5. QED
    BY <1>1, <2>4, SMT DEF TypeOK
<1>3. Closed'
  BY <1>1, SameGraph DEF Closed, Needs
<1>4. RankedGates' = RankedGates
  BY <1>1, SameGraph, SMT DEF RankedGates
<1>5. Ranked'
  BY <1>1, <1>4, SameGraph, SMT DEF Ranked, Step
<1>6. Counted'
  <2> SUFFICES ASSUME NEW q \in Pins
               PROVE  /\ \A r \in Pins : Gate(r) \in wanted'[q] <=> r \in GatesLeft(q)'
                      /\ \A e \in Endpoints : Endpoint(e) \in wanted'[q] <=> e \in EndpointsLeft(q)'
    BY DEF Counted
  <2>1. wanted'[q] = wanted[q] \cup {Endpoint(e) : e \in EndpointReaders(q)}
    BY SMT DEF RankEnd, EndpointsReading, EndpointReaders
  <2>2. GatesLeft(q) = GateReaders(q) /\ EndpointsLeft(q) = {}
    BY <1>1 DEF GatesLeft, EndpointsLeft
  <2>3. EndpointsLeft(q)' = EndpointReaders(q)
    BY <1>1, SameGraph DEF EndpointsLeft
  <2>4. GatesLeft(q)' = GateReaders(q)
    <3>1. GateReaders(q) \subseteq order
      BY DEF GateReaders
    <3>2. GateReaders(q)' = GateReaders(q)
      BY <1>1, SameGraph
    <3>3. QED
      BY <1>1, <3>1, <3>2 DEF GatesLeft
  <2>5. QED
    BY <1>1, <2>1, <2>2, <2>3, <2>4, EndpointIsNoGate, ReaderNamesDiffer DEF Counted
<1>7. Alive' /\ Settled' /\ PanicOnlyIdle'
  BY <1>1, SMT DEF Alive, Settled, PanicOnlyIdle, IsLive
<1>8. Handled'
  BY <1>1, SamePublished
<1>9. QED
  BY <1>2, <1>3, <1>5, <1>6, <1>7, <1>8

-----------------------------------------------------------------------------
(* Striking a reader off. *)

\* What is struck off a set of pins that are alive and wanted by r.
LEMMA DropIsSafe ==
  ASSUME TypeOK, NEW r, NEW P \in SUBSET Pins, NEW alive \in SUBSET Pins, Drop(r, P, alive),
         P \subseteq alive
  PROVE  /\ pc' = pc
         /\ wanted' \in [Pins -> SUBSET Readers]
         /\ \A q \in Pins : wanted'[q] = IF q \in P THEN wanted[q] \ {r} ELSE wanted[q]
         /\ \A q \in Pins : q \in live' <=> q \in alive /\ ~(q \in P /\ wanted'[q] = {})
<1> DEFINE struck == StrikeOff(r, P)
<1>1. struck = [q \in Pins |-> IF q \in P THEN wanted[q] \ {r} ELSE wanted[q]]
  BY DEF StrikeOff
<1>2. wanted' = struck /\ live' = alive \ {q \in P : struck[q] = {}}
  BY DEF Drop
<1>3. pc' = pc
  BY DEF Drop
<1>4. \A q \in Pins : wanted[q] \subseteq Readers
  BY DEF TypeOK
<1> HIDE DEF struck
<1>5. QED
  BY <1>1, <1>2, <1>3, <1>4, SMT

LEMMA VisitKeeps == ASSUME NEW p \in Pins PROVE Inductive /\ Visit(p) => Inductive'
<1> SUFFICES ASSUME Inductive, Visit(p) PROVE Inductive'
  OBVIOUS
<1> USE DEF Inductive
<1>1. /\ UNCHANGED <<design, inputs, order, unrealized, split, stageds, level, before, open>>
      /\ pc = "visit" /\ p \in todo /\ todo' = todo \ {p} /\ p \in order /\ InStage
  BY DEF Visit, NextPin, InStage, TypeOK
<1>2. FaninOf(design, p) \subseteq Pins /\ p \notin FaninOf(design, p)
  BY FaninIsPins, SMT DEF TypeOK, DesignAssumption
<1>3. p \in Gates => /\ FaninOf(design, p) \cap todo = {}
                     /\ FaninOf(design, p) \subseteq order
                     /\ \A f \in FaninOf(design, p) : level[f] < level[p]
                     /\ \A f \in FaninOf(design, p) : p \in GateReaders(f) /\ Gate(p) \in wanted[f]
  <2> SUFFICES ASSUME p \in Gates
               PROVE  /\ FaninOf(design, p) \cap todo = {}
                      /\ FaninOf(design, p) \subseteq order
                      /\ \A f \in FaninOf(design, p) : level[f] < level[p]
                      /\ \A f \in FaninOf(design, p) : p \in GateReaders(f) /\ Gate(p) \in wanted[f]
    OBVIOUS
  <2>1. FaninOf(design, p) \cap todo = {}
    BY DEF Visit, NextPin, Gates
  <2>2. FaninOf(design, p) \subseteq order
    BY <1>1 DEF Closed
  <2>3. \A f \in FaninOf(design, p) : level[f] < level[p]
    BY <1>1 DEF Ranked, RankedGates
  <2>4. \A f \in FaninOf(design, p) : p \in GateReaders(f)
    BY <1>1 DEF GateReaders
  <2>5. \A f \in FaninOf(design, p) : p \in GatesLeft(f)
    BY <1>1, <2>4 DEF GatesLeft
  <2>6. QED
    BY <1>1, <1>2, <2>1, <2>2, <2>3, <2>4, <2>5 DEF Counted
\* A pin that waits has all its readers.
<1>4. wanted[p] # {} \/ Unread(p)
  <2>1. \A r \in GateReaders(p) : r \in todo
    BY <1>1 DEF Closed, GateReaders
  <2>2. GatesLeft(p) = GateReaders(p) /\ EndpointsLeft(p) = EndpointReaders(p)
    BY <1>1, <2>1 DEF GatesLeft, EndpointsLeft
  <2>3. GateReaders(p) \subseteq Pins /\ EndpointReaders(p) \subseteq Endpoints
    BY DEF GateReaders, EndpointReaders, TypeOK
  <2>4. QED
    BY <1>1, <2>2, <2>3 DEF Counted, Unread
<1>5. /\ pc' = pc
      /\ wanted' \in [Pins -> SUBSET Readers]
      /\ \A q \in Pins : wanted'[q] = IF p \in Gates /\ Within(level[p]) /\ q \in FaninOf(design, p)
                                        THEN wanted[q] \ {Gate(p)} ELSE wanted[q]
      /\ \A q \in Pins : q \in live' <=>
           /\ q \in live \/ (q = p /\ Within(level[p]))
           /\ ~(p \in Gates /\ Within(level[p]) /\ q \in FaninOf(design, p) /\ wanted'[q] = {})
  <2>1. CASE ~Within(level[p])
    BY <2>1 DEF Visit, TypeOK
  <2>2. CASE Within(level[p]) /\ p \notin Gates
    BY <2>2 DEF Visit, TypeOK, Entered
  <2>3. CASE Within(level[p]) /\ p \in Gates
    <3>1. Entered(p) \in SUBSET Pins /\ FaninOf(design, p) \in SUBSET Pins
      BY <1>2 DEF Entered, TypeOK
    <3>2. FaninOf(design, p) \subseteq live
      <4> SUFFICES ASSUME NEW f \in FaninOf(design, p) PROVE f \in live
        OBVIOUS
      <4>1. f \in Pins /\ f \in order \ todo /\ wanted[f] # {}
        BY <1>2, <1>3, <2>3
      <4>2. level[f] \in Nat /\ level[p] \in Nat /\ level[f] < level[p]
        BY <1>3, <2>3, <4>1 DEF TypeOK
      <4>3. Within(level[f])
        BY <1>1, <2>3, <4>2, WithinMonotone, SMT
      <4>4. QED
        BY <1>1, <4>1, <4>3 DEF Alive, IsLive
    <3>3. FaninOf(design, p) \subseteq Entered(p)
      BY <3>2 DEF Entered
    <3>4. Drop(Gate(p), FaninOf(design, p), Entered(p))
      BY <2>3 DEF Visit
    <3>5. /\ pc' = pc
          /\ wanted' \in [Pins -> SUBSET Readers]
          /\ \A q \in Pins : wanted'[q] = IF q \in FaninOf(design, p) THEN wanted[q] \ {Gate(p)} ELSE wanted[q]
          /\ \A q \in Pins : q \in live' <=> q \in Entered(p) /\ ~(q \in FaninOf(design, p) /\ wanted'[q] = {})
      <4> DEFINE P == FaninOf(design, p)
                 r == Gate(p)
                 alive == Entered(p)
      <4>1. P \in SUBSET Pins /\ alive \in SUBSET Pins /\ P \subseteq alive /\ Drop(r, P, alive)
        BY <3>1, <3>3, <3>4
      <4>2. TypeOK
        OBVIOUS
      <4> HIDE DEF P, r, alive, Inductive
      <4>3. /\ pc' = pc
            /\ wanted' \in [Pins -> SUBSET Readers]
            /\ \A q \in Pins : wanted'[q] = IF q \in P THEN wanted[q] \ {r} ELSE wanted[q]
            /\ \A q \in Pins : q \in live' <=> q \in alive /\ ~(q \in P /\ wanted'[q] = {})
        BY <4>1, <4>2, DropIsSafe
      <4>4. QED
        BY <4>3 DEF P, r, alive
    <3>6. QED
      <4>1. wanted' \in [Pins -> SUBSET Readers] /\ pc' = pc
        BY <3>5
      <4>2. \A q \in Pins : wanted'[q] = IF p \in Gates /\ Within(level[p]) /\ q \in FaninOf(design, p)
                                         THEN wanted[q] \ {Gate(p)} ELSE wanted[q]
        BY <2>3, <3>5
      <4>3. \A q \in Pins : q \in live' <=>
              /\ q \in live \/ (q = p /\ Within(level[p]))
              /\ ~(p \in Gates /\ Within(level[p]) /\ q \in FaninOf(design, p) /\ wanted'[q] = {})
        BY <2>3, <3>5 DEF Entered
      <4>4. QED
        BY <4>1, <4>2, <4>3
  <2>4. QED
    BY <2>1, <2>2, <2>3
<1>6. TypeOK'
  <2>1. live' \subseteq Pins
    <3>1. live' \subseteq live \cup {p}
      BY DEF Visit, Drop, Entered
    <3>2. QED
      BY <3>1 DEF TypeOK
  <2>2. QED
    BY <1>1, <1>5, <2>1, SMT DEF TypeOK
<1>7. Closed'
  <2>1. \A r \in (Gates \cap order) \ todo' : FaninOf(design, r) \cap todo' = {}
    BY <1>1, <1>3 DEF Closed
  <2>2. QED
    BY <1>1, <1>5, <2>1, SameGraph DEF Closed, Needs
<1>8. Ranked'
  <2>1. RankedGates' = RankedGates
    BY <1>1, <1>5, SameGraph DEF RankedGates
  <2>2. QED
    BY <1>1, <2>1, SameGraph DEF Ranked, Step
<1>9. \A l : Within(l)' <=> Within(l)
  BY <1>1, SameLevels
<1>10. Counted'
  <2> SUFFICES ASSUME NEW q \in Pins
               PROVE  /\ \A r \in Pins : Gate(r) \in wanted'[q] <=> r \in GatesLeft(q)'
                      /\ \A e \in Endpoints : Endpoint(e) \in wanted'[q] <=> e \in EndpointsLeft(q)'
    BY DEF Counted
  <2>1. EndpointsLeft(q)' = EndpointsLeft(q)
    BY <1>1, <1>5 DEF EndpointsLeft, EndpointReaders, Reached
  <2>2. \A r : r \in GatesLeft(q)' <=> r \in GatesLeft(q) /\ ~(r = p /\ Within(level[p]))
    <3>1. GateReaders(q)' = GateReaders(q)
      BY <1>1, SameGraph
    <3>2. QED
      BY <1>1, <1>5, <1>9, <3>1 DEF GatesLeft
  <2>3. p \in GatesLeft(q) => p \in Gates /\ q \in FaninOf(design, p)
    BY DEF GatesLeft, GateReaders
  <2>4. /\ \A r \in Pins : Gate(r) \in wanted[q] <=> r \in GatesLeft(q)
        /\ \A e \in Endpoints : Endpoint(e) \in wanted[q] <=> e \in EndpointsLeft(q)
    BY <1>1 DEF Counted
  <2>5. QED
    BY <1>5, <2>1, <2>2, <2>3, <2>4, EndpointIsNoGate, ReaderNamesDiffer
<1>11. Alive'
  <2> SUFFICES ASSUME NEW q \in Pins PROVE q \in live' <=> IsLive(q)'
    BY <1>1, <1>5 DEF Alive
  <2>1. IsLive(q)' <=> /\ q \in order \ todo' /\ Within(level[q]) /\ (wanted'[q] # {} \/ Unread(q))
    BY <1>1, <1>9, SameGraph DEF IsLive
  <2>2. q \in live <=> IsLive(q)
    BY <1>1 DEF Alive
  <2>3. p \in Gates /\ q \in FaninOf(design, p) => ~Unread(q)
    BY <1>3 DEF Unread
  <2>4. CASE q = p
    BY <1>1, <1>2, <1>4, <1>5, <2>1, <2>2, <2>4 DEF IsLive
  <2>5. CASE q # p
    BY <1>1, <1>5, <2>1, <2>2, <2>3, <2>5 DEF IsLive
  <2>6. QED
    BY <2>4, <2>5
<1>12. Settled' /\ PanicOnlyIdle'
  BY <1>1, <1>5 DEF Settled, PanicOnlyIdle
<1>13. Handled'
  BY <1>1, <1>5, SamePublished
<1>14. QED
  BY <1>6, <1>7, <1>8, <1>10, <1>11, <1>12, <1>13

LEMMA VisitEndKeeps == Inductive /\ VisitEnd => Inductive'
<1> SUFFICES ASSUME Inductive, VisitEnd PROVE Inductive'
  OBVIOUS
<1> USE DEF Inductive
<1>1. /\ UNCHANGED <<design, inputs, order, unrealized, split, stageds, level, wanted, live, before, todo>>
      /\ pc = "visit" /\ pc' = "settle" /\ todo = {} /\ open' = unrealized /\ InStage /\ InStage'
  BY DEF VisitEnd, InStage
<1>2. TypeOK'
  BY <1>1, SMT DEF TypeOK
<1>3. Closed'
  BY <1>1, SameGraph DEF Closed, Needs
<1>4. RankedGates' = RankedGates
  BY <1>1, SameGraph DEF RankedGates
<1>5. Ranked'
  BY <1>1, <1>4, SameGraph DEF Ranked, Step
<1>6. \A l : Within(l)' <=> Within(l)
  BY <1>1, SameLevels
<1>7. Counted'
  <2>1. \A q : GatesLeft(q)' = GatesLeft(q)
    <3> SUFFICES ASSUME NEW q PROVE GatesLeft(q)' = GatesLeft(q)
      OBVIOUS
    <3>1. GateReaders(q)' = GateReaders(q)
      BY <1>1, SameGraph
    <3>2. QED
      BY <1>1, <1>6, <3>1 DEF GatesLeft
  <2>2. \A q : EndpointsLeft(q)' = EndpointsLeft(q)
    BY <1>1 DEF EndpointsLeft, EndpointReaders
  <2>3. QED
    BY <1>1, <2>1, <2>2 DEF Counted
<1>8. Alive'
  BY <1>1, <1>6, SameGraph DEF Alive, IsLive
<1>9. Settled' /\ PanicOnlyIdle'
  BY <1>1 DEF Settled, PanicOnlyIdle, TypeOK
<1>10. Handled'
  BY <1>1, SamePublished
<1>11. QED
  BY <1>2, <1>3, <1>5, <1>7, <1>8, <1>9, <1>10

LEMMA SettleKeeps == ASSUME NEW e \in Endpoints PROVE Inductive /\ Settle(e) => Inductive'
<1> SUFFICES ASSUME Inductive, Settle(e) PROVE Inductive'
  OBVIOUS
<1> USE DEF Inductive
<1>1. /\ UNCHANGED <<design, inputs, order, unrealized, split, stageds, level, todo>>
      /\ pc = "settle" /\ todo = {} /\ e \in open /\ open' = open \ {e} /\ e \in unrealized /\ InStage
  BY DEF Settle, InStage, TypeOK, Settled
<1>2. design.needs[e] \in SUBSET Pins /\ \A f \in design.needs[e] : e \in EndpointReaders(f)
  BY <1>1, DesignAssumption DEF TypeOK, EndpointReaders
<1>3. /\ pc' = pc
      /\ wanted' \in [Pins -> SUBSET Readers]
      /\ \A q \in Pins : wanted'[q] = IF Reached(e) /\ q \in design.needs[e] THEN wanted[q] \ {Endpoint(e)} ELSE wanted[q]
      /\ \A q \in Pins : q \in live' <=> q \in live /\ ~(Reached(e) /\ q \in design.needs[e] /\ wanted'[q] = {})
  <2>1. CASE ~Reached(e)
    BY <2>1 DEF Settle, TypeOK
  <2>2. CASE Reached(e)
    <3> DEFINE P == design.needs[e]
               r == Endpoint(e)
    <3>1. P \subseteq live
      <4> SUFFICES ASSUME NEW f \in P PROVE f \in live
        OBVIOUS
      <4>1. f \in Pins /\ f \in order /\ Within(level[f])
        BY <1>1, <1>2, <2>2 DEF Reached, Closed, Needs
      <4>2. e \in EndpointsLeft(f)
        BY <1>1, <1>2 DEF EndpointsLeft
      <4>3. wanted[f] # {}
        BY <1>1, <4>1, <4>2 DEF Counted
      <4>4. QED
        BY <1>1, <4>1, <4>3 DEF Alive, IsLive
    <3>2. Drop(r, P, live) /\ P \in SUBSET Pins /\ live \in SUBSET Pins
      BY <1>2, <2>2 DEF Settle, TypeOK
    <3>3. TypeOK
      OBVIOUS
    <3> HIDE DEF P, r, Inductive
    <3>4. /\ pc' = pc
          /\ wanted' \in [Pins -> SUBSET Readers]
          /\ \A q \in Pins : wanted'[q] = IF q \in P THEN wanted[q] \ {r} ELSE wanted[q]
          /\ \A q \in Pins : q \in live' <=> q \in live /\ ~(q \in P /\ wanted'[q] = {})
      BY <3>1, <3>2, <3>3, DropIsSafe
    <3>5. QED
      BY <2>2, <3>4 DEF P, r
  <2>3. QED
    BY <2>1, <2>2
<1>4. before' = IF Reached(e) THEN before \cup {e} ELSE before
  BY DEF Settle
<1>5. TypeOK'
  <2>1. live' \subseteq Pins
    <3>1. live' \subseteq live
      BY DEF Settle, Drop
    <3>2. QED
      BY <3>1 DEF TypeOK
  <2>2. QED
    BY <1>1, <1>3, <1>4, <2>1, SMT DEF TypeOK
<1>6. Closed'
  BY <1>1, <1>3, SameGraph DEF Closed, Needs
<1>7. RankedGates' = RankedGates
  BY <1>1, <1>3, SameGraph DEF RankedGates
<1>8. Ranked'
  BY <1>1, <1>7, SameGraph DEF Ranked, Step
<1>9. \A l : Within(l)' <=> Within(l)
  BY <1>1, SameLevels
<1>10. \A x : Reached(x)' <=> Reached(x)
  BY <1>1, <1>9 DEF Reached
<1>11. Counted'
  <2> SUFFICES ASSUME NEW q \in Pins
               PROVE  /\ \A r \in Pins : Gate(r) \in wanted'[q] <=> r \in GatesLeft(q)'
                      /\ \A x \in Endpoints : Endpoint(x) \in wanted'[q] <=> x \in EndpointsLeft(q)'
    BY DEF Counted
  <2>1. GatesLeft(q)' = GatesLeft(q)
    <3>1. GateReaders(q)' = GateReaders(q)
      BY <1>1, SameGraph
    <3>2. QED
      BY <1>1, <1>3, <1>9, <3>1 DEF GatesLeft
  <2>2. \A x : x \in EndpointsLeft(q)' <=> x \in EndpointsLeft(q) /\ ~(x = e /\ Reached(e))
    <3>1. EndpointReaders(q)' = EndpointReaders(q)
      BY <1>1, SameGraph
    <3>2. QED
      BY <1>1, <1>3, <1>10, <3>1 DEF EndpointsLeft
  <2>3. e \in EndpointsLeft(q) => q \in design.needs[e]
    BY DEF EndpointsLeft, EndpointReaders
  <2>4. /\ \A r \in Pins : Gate(r) \in wanted[q] <=> r \in GatesLeft(q)
        /\ \A x \in Endpoints : Endpoint(x) \in wanted[q] <=> x \in EndpointsLeft(q)
    BY <1>1 DEF Counted
  <2>5. QED
    BY <1>3, <2>1, <2>2, <2>3, <2>4, EndpointIsNoGate, ReaderNamesDiffer
<1>12. Alive'
  <2> SUFFICES ASSUME NEW q \in Pins PROVE q \in live' <=> IsLive(q)'
    BY <1>1, <1>3 DEF Alive
  <2>1. IsLive(q)' <=> q \in order \ todo /\ Within(level[q]) /\ (wanted'[q] # {} \/ Unread(q))
    BY <1>1, <1>9, SameGraph DEF IsLive
  <2>2. q \in live <=> IsLive(q)
    BY <1>1 DEF Alive
  <2>3. q \in design.needs[e] => ~Unread(q)
    BY <1>2 DEF Unread
  <2>4. QED
    BY <1>3, <2>1, <2>2, <2>3 DEF IsLive
<1>13. Settled'
  <2>1. \A x \in Endpoints : x \in before <=> x \in unrealized \ open /\ Reached(x)
    BY <1>1 DEF Settled
  <2>2. QED
    BY <1>1, <1>3, <1>4, <1>10, <2>1 DEF Settled
<1>14. Handled' /\ PanicOnlyIdle'
  BY <1>1, <1>3, SamePublished DEF PanicOnlyIdle
<1>15. QED
  BY <1>5, <1>6, <1>8, <1>11, <1>12, <1>13, <1>14

-----------------------------------------------------------------------------
(* A stage is added. *)

\* The new stage has what was realized in it.
LEMMA StageAdded ==
  ASSUME Inductive, pc = "settle", open = {}, stageds' = Append(stageds, StageBuilt),
         UNCHANGED <<design, split>>
  PROVE  /\ stageds' \in Seq(Stages) /\ Len(stageds') = Len(stageds) + 1
         /\ \A i, j \in DOMAIN stageds' : i # j => stageds'[i].endpoints \cap stageds'[j].endpoints = {}
         /\ \A e \in Endpoints : Published(e)' <=> Published(e) \/ e \in before
         /\ before \subseteq unrealized
<1> USE DEF Inductive
<1>1. before \subseteq unrealized
  BY DEF Settled, TypeOK
<1>2. split \in Seq(Nat \ {0}) /\ Len(stageds) <= Len(split)
  BY SplitAssumption DEF TypeOK
<1>3. From(Current) \in Int
  <2>1. Len(stageds) \in Nat
    BY DEF TypeOK
  <2>2. QED
    BY <1>2, <2>1, SMT DEF From, Current
<1>4. StageBuilt \in Stages /\ StageBuilt.endpoints = before
  BY <1>3 DEF StageBuilt, Stages, TypeOK, StagedPins
<1> DEFINE n == Len(stageds)
           new == StageBuilt
<1>5. stageds \in Seq(Stages) /\ stageds' = Append(stageds, new) /\ new \in Stages /\ new.endpoints = before
  BY <1>4 DEF TypeOK
<1>6. \A e \in before : ~\E i \in DOMAIN stageds : e \in stageds[i].endpoints
  BY <1>1 DEF Handled, Published, TypeOK
<1>7. \A i, j \in DOMAIN stageds : i # j => stageds[i].endpoints \cap stageds[j].endpoints = {}
  BY DEF Handled
<1> HIDE DEF new, Inductive
<1>8. /\ stageds' \in Seq(Stages) /\ Len(stageds') = n + 1 /\ n \in Nat
      /\ DOMAIN stageds = 1 .. n /\ DOMAIN stageds' = 1 .. n + 1
      /\ \A i \in 1 .. n : stageds'[i] = stageds[i]
      /\ stageds'[n + 1] = new
  BY <1>5, SMT
<1>9. \A i \in 1 .. n + 1 : i \in 1 .. n \/ i = n + 1
  BY <1>8, SMT
<1>10. \A i, j \in DOMAIN stageds' : i # j => stageds'[i].endpoints \cap stageds'[j].endpoints = {}
  <2> SUFFICES ASSUME NEW i \in 1 .. n + 1, NEW j \in 1 .. n + 1, i # j
               PROVE  stageds'[i].endpoints \cap stageds'[j].endpoints = {}
    BY <1>8
  <2>1. CASE i \in 1 .. n /\ j \in 1 .. n
    BY <1>7, <1>8, <2>1
  <2>2. CASE i \in 1 .. n /\ j = n + 1
    BY <1>5, <1>6, <1>8, <2>2
  <2>3. CASE i = n + 1 /\ j \in 1 .. n
    BY <1>5, <1>6, <1>8, <2>3
  <2>4. QED
    BY <1>9, <2>1, <2>2, <2>3
<1>11. \A e \in Endpoints : Published(e)' <=> Published(e) \/ e \in before
  <2>1. \A i \in 1 .. n : i \in 1 .. n + 1
    BY <1>8, SMT
  <2>2. n + 1 \in 1 .. n + 1
    BY <1>8, SMT
  <2>3. QED
    BY <1>5, <1>8, <1>9, <2>1, <2>2 DEF Published
<1>12. QED
  BY <1>1, <1>8, <1>10, <1>11

\* Without staged pins every endpoint was reached.
LEMMA EarlyEnd ==
  ASSUME Inductive, pc = "settle", open = {}, StagedPins = {}
  PROVE  before = unrealized
<1> USE DEF Inductive
<1>1. \A e \in unrealized : Reached(e)
  <2> SUFFICES ASSUME NEW e \in unrealized, NEW p \in design.needs[e], ~Within(level[p]) PROVE FALSE
    BY DEF Reached
  <2>1. p \in Pins
    BY DesignAssumption DEF TypeOK
  <2>2. PICK f \in Gates \cap order : Within(level[f]) /\ \E r \in GateReaders(f) : ~Within(level[r])
    BY <2>1, LateReaderExists
  <2>3. PICK r \in GateReaders(f) : ~Within(level[r])
    BY <2>2
  <2>4. r \in GatesLeft(f) /\ r \in Pins /\ f \in Pins /\ f \notin inputs
    BY <2>3 DEF GatesLeft, GateReaders, TypeOK, Gates
  <2>5. wanted[f] # {}
    BY <2>4 DEF Counted, InStage
  <2>6. f \in live
    BY <2>2, <2>4, <2>5 DEF Alive, IsLive, Settled
  <2>7. QED
    BY <2>4, <2>6 DEF StagedPins
<1>2. QED
  BY <1>1 DEF Settled, TypeOK

LEMMA NextStageKeeps == Inductive /\ NextStage => Inductive'
<1> SUFFICES ASSUME Inductive, NextStage PROVE Inductive'
  OBVIOUS
<1> USE DEF Inductive
<1>1. /\ pc = "settle" /\ open = {} /\ stageds' = Append(stageds, StageBuilt) /\ Current <= Len(split)
      /\ UNCHANGED <<design, split, order, todo, level, wanted, live, open, before>>
      /\ unrealized' = unrealized \ before /\ inputs' = inputs \cup StagedPins
      /\ pc' = IF StagedPins = {} THEN "done" ELSE "start"
  BY DEF NextStage, StillUnrealized, Handed
<1>2. /\ stageds' \in Seq(Stages) /\ Len(stageds') = Len(stageds) + 1
      /\ \A i, j \in DOMAIN stageds' : i # j => stageds'[i].endpoints \cap stageds'[j].endpoints = {}
      /\ \A e \in Endpoints : Published(e)' <=> Published(e) \/ e \in before
      /\ before \subseteq unrealized
  BY <1>1, StageAdded
<1>3. TypeOK'
  <2>1. Len(stageds') <= Len(split')
    BY <1>1, <1>2 DEF Current
  <2>2. inputs' \subseteq Pins
    BY <1>1 DEF StagedPins, TypeOK
  <2>3. QED
    BY <1>1, <1>2, <2>1, <2>2, SMT DEF TypeOK
<1>4. ~InStage' /\ pc' # "panic" /\ pc' \in {"done", "start"}
  BY <1>1 DEF InStage
<1>5. Closed' /\ Ranked' /\ Counted' /\ PanicOnlyIdle'
  BY <1>4 DEF Closed, Ranked, Counted, PanicOnlyIdle
<1>6. Alive' /\ Settled'
  BY <1>1 DEF Alive, Settled
<1>7. Handled'
  <2>1. \A e \in Endpoints : Published(e) <=> e \notin unrealized
    BY <1>1 DEF Handled
  <2>2. pc' = "done" => before = unrealized
    BY <1>1, EarlyEnd
  <2>3. QED
    BY <1>1, <1>2, <2>1, <2>2 DEF Handled
<1>8. QED
  BY <1>3, <1>5, <1>6, <1>7

LEMMA LastStageKeeps == Inductive /\ LastStage => Inductive'
<1> SUFFICES ASSUME Inductive, LastStage PROVE Inductive'
  OBVIOUS
<1> USE DEF Inductive
<1>1. /\ pc = "settle" /\ open = {} /\ stageds' = Append(stageds, StageBuilt) /\ ~(Current <= Len(split))
      /\ UNCHANGED <<design, split, unrealized, inputs, order, todo, level, wanted, live, open, before>>
      /\ pc' = "done"
  <2>1. Len(stageds) \in Nat /\ Len(split) \in Nat
    BY SplitAssumption DEF TypeOK
  <2>2. QED
    BY <2>1, SMT DEF LastStage, Current
<1>2. /\ stageds' \in Seq(Stages) /\ Len(stageds') = Len(stageds) + 1
      /\ \A i, j \in DOMAIN stageds' : i # j => stageds'[i].endpoints \cap stageds'[j].endpoints = {}
      /\ \A e \in Endpoints : Published(e)' <=> Published(e) \/ e \in before
      /\ before \subseteq unrealized
  BY <1>1, StageAdded
<1>3. TypeOK'
  BY <1>1, <1>2, SMT DEF TypeOK
<1>4. Closed' /\ Ranked' /\ Counted' /\ PanicOnlyIdle'
  BY <1>1 DEF Closed, Ranked, Counted, PanicOnlyIdle, InStage
<1>5. Alive' /\ Settled'
  BY <1>1 DEF Alive, Settled
<1>6. Handled'
  <2>1. \A e \in unrealized : Reached(e)
    BY <1>1 DEF Reached, Within
  <2>2. \A e \in unrealized : e \in before
    BY <1>1, <2>1 DEF Settled, TypeOK
  <2>3. \A e \in Endpoints : Published(e) <=> e \notin unrealized
    BY <1>1 DEF Handled
  <2>4. QED
    BY <1>1, <1>2, <2>2, <2>3 DEF Handled
<1>7. QED
  BY <1>3, <1>4, <1>5, <1>6

LEMMA StutterKeeps == Inductive /\ UNCHANGED vars => Inductive'
<1> SUFFICES ASSUME Inductive, UNCHANGED vars PROVE Inductive'
  OBVIOUS
<1> USE DEF Inductive, vars
<1>1. TypeOK' /\ Settled' /\ PanicOnlyIdle' /\ Handled'
  BY DEF TypeOK, Settled, PanicOnlyIdle, Handled, Published, Needs, Reached, Within, Current, From
<1>2. RankedGates' = RankedGates /\ (InStage' <=> InStage)
  BY SameGraph DEF RankedGates, InStage
<1>3. Closed' /\ Ranked'
  BY <1>2, SameGraph DEF Closed, Ranked, Step, Needs
<1>4. \A l : Within(l)' <=> Within(l)
  BY SameLevels
<1>5. Alive'
  BY <1>4, SameGraph DEF Alive, IsLive
<1>6. \A q : GatesLeft(q)' = GatesLeft(q) /\ EndpointsLeft(q)' = EndpointsLeft(q)
  BY DEF GatesLeft, EndpointsLeft, GateReaders, EndpointReaders, Gates, FaninOf, Reached, Within, Current, From
<1>7. Counted'
  BY <1>2, <1>6 DEF Counted
<1>8. QED
  BY <1>1, <1>3, <1>5, <1>7

-----------------------------------------------------------------------------
(* The theorems. *)

\* Every step keeps the invariant.
THEOREM InductiveHolds == Spec => []Inductive
<1>1. Init => Inductive
  BY InitInductive
<1>2. Inductive /\ [Next]_vars => Inductive'
  <2> SUFFICES ASSUME Inductive, [Next]_vars PROVE Inductive'
    OBVIOUS
  <2>1. CASE Start \/ NothingLeft \/ RankEnd \/ VisitEnd \/ NextStage \/ LastStage
    BY <2>1, StartKeeps, NothingLeftKeeps, RankEndKeeps, VisitEndKeeps, NextStageKeeps, LastStageKeeps
  <2>2. ASSUME NEW p \in Pins, Rank(p) \/ Visit(p) PROVE Inductive'
    BY <2>2, RankKeeps, VisitKeeps
  <2>3. ASSUME NEW e \in Endpoints, Settle(e) PROVE Inductive'
    BY <2>3, SettleKeeps
  <2>4. CASE UNCHANGED vars
    BY <2>4, StutterKeeps
  <2>5. QED
    BY <2>1, <2>2, <2>3, <2>4 DEF Next
<1>3. QED
  BY <1>1, <1>2, PTL DEF Spec

\* The program's state has the types its variables are declared with, and no
\* stage is begun past the last level.
THEOREM TypeCorrect == Spec => []TypeOK
<1>1. Inductive => TypeOK
  BY DEF Inductive
<1>2. QED
  BY <1>1, InductiveHolds, PTL

\* Striking readers off in topological order never meets a pin that is not
\* alive: the assertions on swap_remove hold for every graph and every list of
\* levels (staging.rs:144-165).
THEOREM NeverStruckTwice == Spec => []PanicOnlyIdle
<1>1. Inductive => PanicOnlyIdle
  BY DEF Inductive
<1>2. QED
  BY <1>1, InductiveHolds, PTL

\* The pins a stage hands on are those that somebody beyond its levels reads
\* (staging.rs:126-169).
THEOREM StagedPinsNeeded == Spec => []LiveAreWanted
<1>1. Inductive => LiveAreWanted
  <2> SUFFICES ASSUME Inductive, pc = "settle", open = {}
               PROVE  live = {p \in order : Within(level[p]) /\ (LateReader(p) \/ Unread(p))}
    BY DEF LiveAreWanted
  <2> USE DEF Inductive
  <2>1. \A p \in Pins : wanted[p] # {} <=> LateReader(p)
    <3> SUFFICES ASSUME NEW p \in Pins PROVE wanted[p] # {} <=> LateReader(p)
      OBVIOUS
    <3>1. /\ \A r \in Pins : Gate(r) \in wanted[p] <=> r \in GateReaders(p) /\ ~Within(level[r])
          /\ \A e \in Endpoints : Endpoint(e) \in wanted[p] <=> e \in EndpointReaders(p) /\ ~Reached(e)
      BY DEF Counted, InStage, GatesLeft, EndpointsLeft, Settled
    <3>2. wanted[p] \subseteq Readers
      BY DEF TypeOK
    <3>3. GateReaders(p) \subseteq Pins /\ EndpointReaders(p) \subseteq Endpoints
      BY DEF GateReaders, EndpointReaders, TypeOK
    <3>4. QED
      BY <3>1, <3>2, <3>3 DEF LateReader, Readers
  <2>2. \A p \in Pins : p \in live <=> p \in order /\ Within(level[p]) /\ (LateReader(p) \/ Unread(p))
    BY <2>1 DEF Alive, IsLive, Settled
  <2>3. live \subseteq Pins /\ order \subseteq Pins
    BY DEF TypeOK
  <2>4. QED
    BY <2>2, <2>3
<1>2. QED
  BY <1>1, InductiveHolds, PTL

\* Every endpoint is realized in one stage and in no other, also when the list
\* of levels is longer than the graph is deep (staging.rs:188-229).
THEOREM EndpointsStagedOnce == Spec => []EndpointsOnce
<1>1. Inductive => EndpointsOnce
  <2> SUFFICES ASSUME Inductive PROVE EndpointsOnce
    OBVIOUS
  <2> USE DEF Inductive
  <2>1. \A i, j \in DOMAIN stageds : i # j => stageds[i].endpoints \cap stageds[j].endpoints = {}
    BY DEF Handled
  <2>2. ASSUME pc = "done" PROVE UNION {stageds[i].endpoints : i \in DOMAIN stageds} = Endpoints
    <3>1. \A e \in Endpoints : \E i \in DOMAIN stageds : e \in stageds[i].endpoints
      BY <2>2 DEF Handled, Published
    <3>2. \A i \in DOMAIN stageds : stageds[i] \in Stages
      BY DEF TypeOK
    <3>3. \A i \in DOMAIN stageds : stageds[i].endpoints \subseteq Endpoints
      BY <3>2 DEF Stages
    <3>4. QED
      BY <3>1, <3>3
  <2>3. QED
    BY <2>1, <2>2 DEF EndpointsOnce
<1>2. QED
  BY <1>1, InductiveHolds, PTL

-----------------------------------------------------------------------------
(* Levels of the uncut graph. *)

\* Finitely many numbers have a bound.
LEMMA FiniteBounded ==
  ASSUME NEW S \in SUBSET Nat, IsFiniteSet(S)
  PROVE  \E b \in Nat : S \subseteq 0 .. b
<1> DEFINE c == Cardinality(S)
<1>1. c \in Nat /\ ExistsBijection(1 .. c, S)
  BY FS_CardinalityType
<1>2. PICK f \in [1 .. c -> S] : \A x \in S : \E i \in 1 .. c : f[i] = x
  BY <1>1 DEF ExistsBijection, Bijection, Surjection
<1> DEFINE T == {n \in Nat : \E b \in Nat : \A i \in 1 .. c : i <= n => f[i] <= b}
<1> HIDE DEF c
<1>3. T \in SUBSET Nat /\ 0 \in T
  OBVIOUS
<1>4. ASSUME NEW n \in T PROVE n + 1 \in T
  <2>1. PICK b \in Nat : \A i \in 1 .. c : i <= n => f[i] <= b
    OBVIOUS
  <2>2. PICK d \in Nat : n + 1 \in 1 .. c => d = f[n + 1]
    <3>1. CASE n + 1 \in 1 .. c
      <4>1. f[n + 1] \in Nat
        BY <3>1
      <4>2. QED
        BY <4>1
    <3>2. CASE n + 1 \notin 1 .. c
      BY <3>2
    <3>3. QED
      BY <3>1, <3>2
  <2>3. \A i \in 1 .. c : i <= n + 1 => f[i] <= b + d
    <3> SUFFICES ASSUME NEW i \in 1 .. c, i <= n + 1 PROVE f[i] <= b + d
      OBVIOUS
    <3>1. f[i] \in Nat /\ n \in Nat
      OBVIOUS
    <3>2. CASE i = n + 1
      BY <2>2, <3>1, <3>2
    <3>3. CASE i # n + 1
      BY <2>1, <3>1, <3>3
    <3>4. QED
      BY <3>2, <3>3
  <2>4. n \in Nat /\ n + 1 \in Nat /\ b + d \in Nat
    OBVIOUS
  <2>5. QED
    BY <2>3, <2>4
<1>5. T = Nat
  <2> HIDE DEF T
  <2> QED BY <1>3, <1>4, SetInduction
<1>6. c \in T
  <2> HIDE DEF T
  <2> QED BY <1>1, <1>5
<1>7. PICK b \in Nat : \A i \in 1 .. c : i <= c => f[i] <= b
  BY <1>6
<1>8. \A x \in S : x \in 0 .. b
  BY <1>1, <1>2, <1>7
<1>9. QED
  BY <1>8

\* What the definition of Depth asks of a function; one such exists, and Depth is
\* it.
Deep(f, d) ==
  f = [p \in Pins |-> IF p \in d.gates THEN Higher(f[d.ands[p][1]], f[d.ands[p][2]]) + 1 ELSE 0]

LEMMA DeepExists ==
  ASSUME NEW d \in Designs
  PROVE  \E f : Deep(f, d)
<1> DEFINE G == [Pins -> Nat]
           Step0(f) == [p \in Pins |-> IF p \in d.gates THEN Higher(f[d.ands[p][1]], f[d.ands[p][2]]) + 1 ELSE 0]
           F == [f \in G |-> Step0(f)]
<1>1. \A p \in d.gates : /\ d.ands[p][1] \in Pins /\ d.ands[p][1] < p
                         /\ d.ands[p][2] \in Pins /\ d.ands[p][2] < p
  BY DesignAssumption
<1>2. ASSUME NEW f \in G PROVE Step0(f) \in G
  <2>1. \A m, n \in Nat : Higher(m, n) + 1 \in Nat
    BY DEF Higher
  <2>2. \A p \in d.gates : Higher(f[d.ands[p][1]], f[d.ands[p][2]]) + 1 \in Nat
    BY <1>1, <2>1
  <2>3. QED
    BY <2>2
<1>3. F \in [G -> G]
  BY <1>2
<1>4. G # {}
  <2>1. [p \in Pins |-> 0] \in G
    OBVIOUS
  <2>2. QED
    BY <2>1
<1>5. ASSUME NEW f \in G, NEW g \in G, NEW p \in Pins, \A q \in Pins : q < p => f[q] = g[q]
      PROVE  F[f][p] = F[g][p]
  <2>1. p \in d.gates => f[d.ands[p][1]] = g[d.ands[p][1]] /\ f[d.ands[p][2]] = g[d.ands[p][2]]
    BY <1>1, <1>5
  <2>2. QED
    BY <2>1
<1>6. Local(F, G, Pins)
  <2> HIDE DEF G, F
  <2> QED BY <1>5 DEF Local
<1>7. Over(G, Pins)
  BY DEF Over
<1>8. \E f \in G : F[f] = f
  <2> HIDE DEF G, F
  <2>1. Pins \in SUBSET Nat /\ IsFiniteSet(Pins)
    BY DesignAssumption
  <2>2. PICK b \in Nat : Pins \in SUBSET (0 .. b)
    BY <2>1, FiniteBounded
  <2>3. QED
    BY <1>3, <1>4, <1>6, <1>7, <2>2, LocalRecursion
<1>9. PICK f \in G : F[f] = f
  BY <1>8
<1>10. f = Step0(f)
  BY <1>9
<1>11. QED
  BY <1>10 DEF Deep

\* A gate is one deeper than the deeper of its inputs; nothing else is deep.
LEMMA DepthIs ==
  ASSUME design \in Designs
  PROVE  /\ \A p \in Pins : Depth[p] \in Nat
         /\ \A p \in Pins : p \notin design.gates => Depth[p] = 0
         /\ \A p \in design.gates :
              Depth[p] = Higher(Depth[design.ands[p][1]], Depth[design.ands[p][2]]) + 1
<1>1. Depth = CHOOSE f : Deep(f, design)
  BY DEF Depth, Deep
<1>2. Deep(Depth, design)
  BY <1>1, DeepExists
<1>3. \A p \in Pins : Depth[p] = IF p \in design.gates
                                   THEN Higher(Depth[design.ands[p][1]], Depth[design.ands[p][2]]) + 1 ELSE 0
  BY <1>2 DEF Deep
<1>4. design.gates \subseteq Pins
      /\ \A p \in design.gates : /\ design.ands[p][1] \in Pins /\ design.ands[p][1] < p
                                 /\ design.ands[p][2] \in Pins /\ design.ands[p][2] < p
  BY DesignAssumption
<1>5. \A p \in Pins : Depth[p] \in Nat
  <2> DEFINE T == {p \in Pins : Depth[p] \in Nat}
  <2>1. PICK b \in Nat : Pins \in SUBSET (0 .. b)
    <3>1. Pins \in SUBSET Nat /\ IsFiniteSet(Pins)
      BY DesignAssumption
    <3>2. QED
      BY <3>1, FiniteBounded
  <2>2. \A m, n \in Nat : Higher(m, n) + 1 \in Nat
    BY DEF Higher
  <2>3. ASSUME NEW p \in Pins, \A q \in Pins : q < p => q \in T PROVE p \in T
    <3>1. CASE p \in design.gates
      <4>1. Depth[design.ands[p][1]] \in Nat /\ Depth[design.ands[p][2]] \in Nat
        BY <1>4, <2>3, <3>1
      <4>2. QED
        BY <1>3, <2>2, <3>1, <4>1
    <3>2. CASE p \notin design.gates
      BY <1>3, <3>2
    <3>3. QED
      BY <3>1, <3>2
  <2>4. Pins \subseteq T
    <3> HIDE DEF T
    <3> QED BY <2>1, <2>3, SmallerInduction
  <2>5. QED
    BY <2>4
<1>6. QED
  BY <1>3, <1>4, <1>5

-----------------------------------------------------------------------------
(* A graph without macros is cut at the levels of the uncut graph.         *)

\* The gates among some pins are those above the level the stage starts from.
Parted(S) == \A p \in S : p \in Gates <=> Depth[p] > From(Current)

\* Levels are counted from there.
Shifted == \A p \in RankedGates : level[p] = Depth[p] - From(Current)

\* An endpoint left for this stage could not be realized before.
Due(e) == \E p \in design.needs[e] : Depth[p] > From(Current)

BelowSplit(k, p) == k <= Len(split) => Depth[p] <= split[k]

\* The k-th stage built is between its levels.
Placed(k) ==
  /\ \A e \in stageds[k].endpoints :
       /\ \A p \in design.needs[e] : BelowSplit(k, p)
       /\ k > 1 => \E p \in design.needs[e] : Depth[p] > From(k)
  /\ \A p \in Computes(stageds[k]) : Depth[p] > From(k) /\ BelowSplit(k, p)

Cut ==
  /\ Len(stageds) <= Len(split) + 1
  /\ design.macros = {} =>
       /\ pc = "start" => Parted(Cone(design, Needs(design, unrealized), inputs))
       /\ InStage => Parted(order) /\ Shifted
       /\ pc # "done" /\ Current > 1 => \A e \in unrealized : Due(e)
       /\ \A k \in DOMAIN stageds : Placed(k)

\* A traversal reaches nothing outside a closed set it starts in.
LEMMA ConeIsLeast ==
  ASSUME NEW d \in Designs, NEW from \in SUBSET Pins, NEW stop \in SUBSET Pins, NEW S \in SUBSET Pins,
         from \subseteq S, \A p \in S \ stop : FaninOf(d, p) \subseteq S
  PROVE  Cone(d, from, stop) \subseteq S
<1>1. S \in {T \in SUBSET Pins : from \subseteq T /\ \A p \in T \ stop : FaninOf(d, p) \subseteq T}
  OBVIOUS
<1>2. QED
  BY <1>1, Zenon DEF Cone

\* Levels and the numbers of stages in arithmetic the provers can use.
LEMMA SplitIs ==
  ASSUME TypeOK
  PROVE  /\ split \in Seq(Nat \ {0}) /\ Len(split) \in Nat /\ Len(stageds) \in Nat
         /\ Current \in Nat \ {0} /\ Current = Len(stageds) + 1
         /\ \A k \in 1 .. Len(split) - 1 : split[k] < split[k + 1]
         /\ \A k \in 1 .. Len(split) : split[k] \in Nat \ {0} /\ From(k + 1) = split[k]
         /\ \A k \in 1 .. Len(split) + 1 : From(k) \in Nat
<1>1. split \in Seq(Nat \ {0}) /\ \A k \in 1 .. Len(split) - 1 : split[k] < split[k + 1]
  BY SplitAssumption DEF TypeOK
<1>2. Len(split) \in Nat /\ Len(stageds) \in Nat
  BY <1>1 DEF TypeOK
<1>3. \A k \in 1 .. Len(split) : split[k] \in Nat \ {0}
  BY <1>1
<1>4. \A k \in 1 .. Len(split) : From(k + 1) = split[k]
  BY <1>2 DEF From
<1>5. ASSUME NEW k \in 1 .. Len(split) + 1 PROVE From(k) \in Nat
  <2>1. CASE k = 1
    BY <2>1 DEF From
  <2>2. CASE k # 1
    <3>1. k - 1 \in 1 .. Len(split)
      BY <1>2, <2>2
    <3>2. QED
      BY <1>3, <2>2, <3>1 DEF From
  <2>3. QED
    BY <2>1, <2>2
<1>6. Current \in Nat \ {0} /\ Current = Len(stageds) + 1
  BY <1>2 DEF Current
<1>7. QED
  BY <1>1, <1>2, <1>3, <1>4, <1>5, <1>6

\* Splits grow.
LEMMA SplitGrows ==
  ASSUME TypeOK, NEW i \in 1 .. Len(split), NEW j \in 1 .. Len(split), i <= j
  PROVE  split[i] <= split[j]
<1> DEFINE T == {n \in Nat : i + n <= Len(split) => split[i] <= split[i + n]}
<1>1. /\ \A k \in 1 .. Len(split) - 1 : split[k] < split[k + 1]
      /\ \A k \in 1 .. Len(split) : split[k] \in Nat
      /\ Len(split) \in Nat
  BY SplitIs
<1>2. 0 \in T /\ T \in SUBSET Nat
  <2>1. i + 0 = i /\ split[i] <= split[i]
    BY <1>1
  <2>2. QED
    BY <2>1
<1>3. ASSUME NEW n \in T PROVE n + 1 \in T
  <2> SUFFICES ASSUME i + (n + 1) <= Len(split) PROVE split[i] <= split[i + (n + 1)]
    BY <1>2
  <2>1. i + n \in 1 .. Len(split) - 1 /\ (i + n) + 1 = i + (n + 1) /\ i + (n + 1) \in 1 .. Len(split)
        /\ i + n \in 1 .. Len(split)
    BY <1>1, <1>2
  <2>2. split[i] <= split[i + n]
    BY <2>1
  <2>3. split[i + n] < split[i + (n + 1)]
    BY <1>1, <2>1
  <2>4. split[i] \in Nat /\ split[i + n] \in Nat /\ split[i + (n + 1)] \in Nat
    BY <1>1, <2>1
  <2>5. QED
    BY <2>2, <2>3, <2>4
<1>4. T = Nat
  <2> HIDE DEF T
  <2> QED BY <1>2, <1>3, SetInduction
<1>5. j - i \in T
  <2> HIDE DEF T
  <2>1. j - i \in Nat
    OBVIOUS
  <2> QED BY <1>4, <2>1
<1>6. i + (j - i) = j
  OBVIOUS
<1>7. QED
  BY <1>5, <1>6

LEMMA SameDepth ==
  ASSUME design' = design
  PROVE  Depth' = Depth
BY DEF Depth

LEMMA InOrderIsPins ==
  ASSUME TypeOK
  PROVE  order \subseteq Pins /\ design \in Designs /\ design.gates \subseteq Pins /\ Gates \subseteq design.gates
         /\ inputs \subseteq Pins
BY DesignAssumption DEF TypeOK, Gates

\* What is within the levels of a stage is what is no deeper than its split.
LEMMA WithinIsBelow ==
  ASSUME Inductive, Cut, design.macros = {}, pc = "settle", NEW p \in order
  PROVE  /\ Within(level[p]) <=> BelowSplit(Current, p)
         /\ Depth[p] \in Nat
<1>1. TypeOK /\ Ranked /\ InStage
  BY DEF Inductive, InStage
<1>2. order \subseteq Pins /\ design \in Designs
  BY <1>1, InOrderIsPins
<1>3. Depth[p] \in Nat
  BY <1>2, DepthIs
<1>4. /\ Len(stageds) <= Len(split) /\ Current \in 1 .. Len(split) + 1
      /\ From(Current) \in Nat
      /\ Current <= Len(split) => split[Current] \in Nat /\ split[Current] - From(Current) \in Nat \ {0}
  <2>1. Len(stageds) <= Len(split)
    BY <1>1 DEF TypeOK
  <2>2. Current \in 1 .. Len(split) + 1
    BY <1>1, <2>1, SplitIs
  <2>3. QED
    BY <1>1, <2>1, <2>2, SplitIs, RoomInStage
<1>5. p \in Gates <=> Depth[p] > From(Current)
  BY <1>1 DEF Cut, Parted
<1>6. CASE p \in Gates
  <2>1. p \in RankedGates
    BY <1>6 DEF RankedGates
  <2>2. level[p] = Depth[p] - From(Current)
    BY <1>1, <2>1 DEF Cut, Shifted
  <2>3. Within(level[p]) <=> BelowSplit(Current, p)
    BY <1>3, <1>4, <2>2 DEF Within, BelowSplit
  <2>4. QED
    BY <1>3, <2>3
<1>7. CASE p \notin Gates
  <2>1. p \notin RankedGates
    BY <1>7 DEF RankedGates
  <2>2. level[p] = 0
    BY <1>1, <1>2, <2>1 DEF Ranked
  <2>3. Depth[p] <= From(Current)
    BY <1>3, <1>4, <1>5, <1>7
  <2>4. Within(level[p])
    BY <1>4, <2>2 DEF Within
  <2>5. BelowSplit(Current, p)
    BY <1>3, <1>4, <2>3 DEF BelowSplit
  <2>6. QED
    BY <1>3, <2>4, <2>5
<1>8. QED
  BY <1>6, <1>7

\* A step that builds no stage keeps those there are.
LEMMA SamePlaced ==
  ASSUME UNCHANGED <<design, split, stageds>>
  PROVE  /\ \A k : Placed(k)' <=> Placed(k)
         /\ Current' = Current /\ \A k : From(k)' = From(k)
<1>1. Depth' = Depth
  BY SameDepth
<1>2. \A s : Computes(s)' = Computes(s)
  BY DEF Computes
<1>3. Current' = Current /\ \A k : From(k)' = From(k)
  BY DEF Current, From
<1>4. \A k, p : BelowSplit(k, p)' <=> BelowSplit(k, p)
  BY <1>1 DEF BelowSplit
<1>5. QED
  BY <1>1, <1>2, <1>3, <1>4 DEF Placed

\* A step that takes no stage and no input keeps which gates are above.
LEMMA SameParted ==
  ASSUME UNCHANGED <<design, split, stageds, inputs>>
  PROVE  /\ \A S : Parted(S)' <=> Parted(S)
         /\ \A e : Due(e)' <=> Due(e)
         /\ Gates' = Gates
<1>1. Depth' = Depth
  BY SameDepth
<1>2. Current' = Current /\ \A k : From(k)' = From(k)
  BY SamePlaced
<1>3. Gates' = Gates
  BY DEF Gates
<1>4. QED
  BY <1>1, <1>2, <1>3 DEF Parted, Due

\* A step inside a stage has only the levels of gates to answer for.
LEMMA SameCut ==
  ASSUME Cut, UNCHANGED <<design, split, stageds, unrealized, order, inputs>>,
         pc # "done", pc' # "start", InStage' => InStage,
         InStage /\ design.macros = {} => Shifted'
  PROVE  Cut'
<1>1. (Len(stageds) <= Len(split) + 1)'
  BY DEF Cut
<1>2. SUFFICES ASSUME design.macros = {}
               PROVE  /\ InStage' => Parted(order)' /\ Shifted'
                      /\ pc' # "done" /\ Current' > 1 => \A e \in unrealized' : Due(e)'
                      /\ \A k \in DOMAIN stageds' : Placed(k)'
  BY <1>1, Zenon DEF Cut
<1>3. /\ InStage => Parted(order)
      /\ Current > 1 => \A e \in unrealized : Due(e)
      /\ \A k \in DOMAIN stageds : Placed(k)
  BY <1>2, Zenon DEF Cut
<1>4. Current' = Current /\ \A k : Placed(k)' <=> Placed(k)
  BY SamePlaced
<1>5. (Parted(order)' <=> Parted(order)) /\ \A e : Due(e)' <=> Due(e)
  <2>1. Parted(order)' <=> (\A p \in order : p \in Gates <=> Depth[p] > From(Current))
    <3>1. Depth' = Depth /\ Gates' = Gates
      BY SameDepth DEF Gates
    <3>2. Current' = Current /\ From(Current)' = From(Current)
      BY SamePlaced DEF From, Current
    <3>3. QED
      BY <3>1, <3>2 DEF Parted
  <2>2. QED
    BY <2>1, SameParted DEF Parted
<1>6. QED
  BY <1>2, <1>3, <1>4, <1>5, Zenon

\* Levels that do not change stay what they were.
LEMMA SameShifted ==
  ASSUME Cut, InStage, design.macros = {}, UNCHANGED <<design, split, stageds, level>>,
         RankedGates' \subseteq RankedGates
  PROVE  Shifted'
<1>1. \A p \in RankedGates : level[p] = Depth[p] - From(Current)
  BY DEF Cut, Shifted
<1>2. Depth' = Depth /\ Current' = Current /\ From(Current)' = From(Current)
  BY SameDepth, SamePlaced DEF From, Current
<1>3. QED
  BY <1>1, <1>2 DEF Shifted

\* Nothing is cut off yet: the gates are what is deep at all.
LEMMA InitCut == Init => Cut
<1> SUFFICES ASSUME Init PROVE Cut
  OBVIOUS
<1>1. TypeOK
  BY InitInductive DEF Inductive
<1>2. stageds = <<>> /\ inputs = {} /\ pc = "start" /\ Len(stageds) = 0 /\ Len(split) \in Nat
  BY <1>1, SplitIs DEF Init
<1>3. Current = 1 /\ From(Current) = 0 /\ Gates = design.gates
  BY <1>2 DEF Current, From, Gates
<1>4. ASSUME NEW p \in Pins PROVE p \in Gates <=> Depth[p] > From(Current)
  <2>1. design \in Designs
    BY <1>1 DEF TypeOK
  <2>2. CASE p \in design.gates
    <3>1. Depth[p] = Higher(Depth[design.ands[p][1]], Depth[design.ands[p][2]]) + 1
      BY <2>1, <2>2, DepthIs
    <3>2. design.ands[p][1] \in Pins /\ design.ands[p][2] \in Pins
      BY <2>1, <2>2, DesignAssumption
    <3>3. Depth[design.ands[p][1]] \in Nat /\ Depth[design.ands[p][2]] \in Nat
      BY <2>1, <3>2, DepthIs
    <3>4. Depth[p] > 0
      BY <3>1, <3>3 DEF Higher
    <3>5. QED
      BY <1>3, <2>2, <3>4
  <2>3. CASE p \notin design.gates
    <3>1. Depth[p] = 0
      BY <2>1, <2>3, DepthIs
    <3>2. QED
      BY <1>3, <2>3, <3>1
  <2>4. QED
    BY <2>2, <2>3
<1>5. Cone(design, Needs(design, unrealized), inputs) \subseteq Pins
  <2>1. Needs(design, unrealized) \in SUBSET Pins /\ inputs \in SUBSET Pins /\ design \in Designs
    BY <1>1, NeedsArePins DEF TypeOK
  <2>2. QED
    BY <2>1, ConeIsClosed
<1>6. Parted(Cone(design, Needs(design, unrealized), inputs))
  BY <1>4, <1>5 DEF Parted
<1>7. ~InStage /\ ~(Current > 1)
  BY <1>2, <1>3 DEF InStage
<1>8. DOMAIN stageds = {} /\ Len(stageds) <= Len(split) + 1
  BY <1>2
<1>9. QED
  BY <1>6, <1>7, <1>8 DEF Cut

LEMMA StartCuts == Inductive /\ Cut /\ Start => Cut'
<1> SUFFICES ASSUME Inductive, Cut, Start PROVE Cut'
  OBVIOUS
<1>1. /\ UNCHANGED <<design, split, unrealized, inputs, stageds>> /\ pc = "start" /\ pc' = "rank"
      /\ order' = Cone(design, Needs(design, unrealized), inputs) /\ todo' = order'
  BY DEF Start
<1>2. (Len(stageds) <= Len(split) + 1)'
  BY <1>1 DEF Cut
<1>3. SUFFICES ASSUME design.macros = {}
               PROVE  /\ Parted(order)' /\ Shifted'
                      /\ Current' > 1 => \A e \in unrealized' : Due(e)'
                      /\ \A k \in DOMAIN stageds' : Placed(k)'
  BY <1>1, <1>2 DEF Cut
<1>4. /\ Parted(Cone(design, Needs(design, unrealized), inputs))
      /\ Current > 1 => \A e \in unrealized : Due(e)
      /\ \A k \in DOMAIN stageds : Placed(k)
  BY <1>1, <1>3 DEF Cut
<1>5. RankedGates' = {}
  BY <1>1 DEF RankedGates
<1>6. Shifted'
  BY <1>5 DEF Shifted
<1>7. Depth' = Depth /\ Gates' = Gates /\ Current' = Current /\ From(Current)' = From(Current)
      /\ \A k : Placed(k)' <=> Placed(k)
  BY <1>1, SameDepth, SamePlaced DEF From, Current, Gates
<1>8. \A e : Due(e)' <=> Due(e)
  BY <1>1, SameParted
<1>9. Parted(order)'
  BY <1>1, <1>4, <1>7 DEF Parted
<1>10. QED
  BY <1>1, <1>4, <1>6, <1>7, <1>8, <1>9

\* A gate is as deep above its stage as it is high in it.
LEMMA RankCuts == ASSUME NEW p \in Pins PROVE Inductive /\ Cut /\ Rank(p) => Cut'
<1> SUFFICES ASSUME Inductive, Cut, Rank(p) PROVE Cut'
  OBVIOUS
<1>1. /\ UNCHANGED <<design, inputs, order, unrealized, split, stageds, pc>>
      /\ pc = "rank" /\ p \in todo /\ InStage /\ InStage' /\ todo' = todo \ {p}
      /\ TypeOK /\ Ranked /\ Closed
  BY DEF Rank, NextPin, InStage, Inductive
<1>2. ASSUME design.macros = {} PROVE Shifted'
  <2>1. Depth' = Depth /\ Current' = Current /\ From(Current)' = From(Current)
    BY <1>1, SameDepth, SamePlaced DEF From, Current
  <2>2. \A q \in RankedGates : level[q] = Depth[q] - From(Current)
    BY <1>1, <1>2 DEF Cut, Shifted
  <2>3. RankedGates' = RankedGates \cup ({p} \cap Gates) /\ p \notin RankedGates
    BY <1>1, SMT DEF RankedGates, Gates, TypeOK
  <2>4. \A f \in Pins \ {p} : level'[f] = level[f]
    BY <1>1, SMT DEF Rank, TypeOK
  <2>5. RankedGates \subseteq Pins \ {p}
    BY <1>1, <2>3 DEF RankedGates, TypeOK
  <2>6. ASSUME p \in Gates PROVE level'[p] = Depth[p] - From(Current)
    <3>1. PICK a : a = design.ands[p][1]
      OBVIOUS
    <3>2. PICK b : b = design.ands[p][2]
      OBVIOUS
    <3>3. design \in Designs /\ p \in design.gates
      BY <1>1, <2>6 DEF TypeOK, Gates
    <3>4. a \in Pins /\ b \in Pins /\ FaninOf(design, p) = {a, b}
      BY <3>1, <3>2, <3>3, DesignAssumption DEF FaninOf
    <3>5. level'[p] = Higher(level[a], level[b]) + 1
      BY <1>1, <2>6, <3>1, <3>2, SMT DEF Rank, TypeOK
    <3>6. Depth[p] = Higher(Depth[a], Depth[b]) + 1 /\ Depth[a] \in Nat /\ Depth[b] \in Nat
      BY <3>1, <3>2, <3>3, <3>4, DepthIs
    <3>7. PICK n : n = From(Current)
      OBVIOUS
    <3>8. n \in Nat
      <4>1. Current \in 1 .. Len(split) + 1
        <5>1. Len(stageds) <= Len(split)
          BY <1>1 DEF TypeOK
        <5>2. QED
          BY <1>1, <5>1, SplitIs
      <4>2. QED
        BY <1>1, <3>7, <4>1, SplitIs
    <3>9. p \in order /\ a \in order /\ b \in order /\ a \notin todo /\ b \notin todo
      <4>1. p \in order
        BY <1>1 DEF TypeOK
      <4>2. FaninOf(design, p) \subseteq order
        BY <1>1, <2>6, <4>1 DEF Closed
      <4>3. FaninOf(design, p) \cap todo = {}
        BY <2>6 DEF Rank, NextPin, Gates
      <4>4. QED
        BY <3>4, <4>1, <4>2, <4>3
    <3>10. ASSUME NEW x \in {a, b}
           PROVE  level[x] = IF Depth[x] > n THEN Depth[x] - n ELSE 0
      <4>1. x \in order /\ x \notin todo /\ x \in Pins
        BY <3>4, <3>9
      <4>2. x \in Gates <=> Depth[x] > n
        BY <1>1, <1>2, <3>7, <4>1 DEF Cut, Parted
      <4>3. CASE x \in Gates
        <5>1. x \in RankedGates
          BY <4>1, <4>3 DEF RankedGates
        <5>2. level[x] = Depth[x] - n
          BY <2>2, <3>7, <5>1
        <5>3. QED
          BY <4>2, <4>3, <5>2
      <4>4. CASE x \notin Gates
        <5>1. x \notin RankedGates
          BY <4>4 DEF RankedGates
        <5>2. level[x] = 0
          BY <1>1, <4>1, <5>1 DEF Ranked
        <5>3. QED
          BY <4>2, <4>4, <5>2
      <4>5. QED
        BY <4>3, <4>4
    <3>11. Depth[p] > n
      BY <1>1, <1>2, <2>6, <3>7, <3>9 DEF Cut, Parted
    <3>12. level[a] = (IF Depth[a] > n THEN Depth[a] - n ELSE 0)
           /\ level[b] = (IF Depth[b] > n THEN Depth[b] - n ELSE 0)
      BY <3>10
    <3>13. level'[p] = Depth[p] - n
      BY <3>5, <3>6, <3>8, <3>11, <3>12, SMT DEF Higher
    <3>14. QED
      BY <3>7, <3>13
  <2>7. \A q \in RankedGates : level'[q] = Depth[q] - From(Current)
    BY <2>2, <2>4, <2>5
  <2>8. \A q \in RankedGates' : level'[q] = Depth[q] - From(Current)
    BY <2>3, <2>6, <2>7
  <2>9. QED
    BY <2>1, <2>8 DEF Shifted
<1>3. QED
  BY <1>1, <1>2, SameCut

\* The other steps inside a stage leave the levels alone.
LEMMA QuietCuts ==
  Inductive /\ Cut
    /\ (NothingLeft \/ RankEnd \/ VisitEnd \/ (\E p \in Pins : Visit(p)) \/ (\E e \in Endpoints : Settle(e)))
  => Cut'
<1> SUFFICES ASSUME Inductive, Cut,
                    NothingLeft \/ RankEnd \/ VisitEnd \/ (\E p \in Pins : Visit(p)) \/ (\E e \in Endpoints : Settle(e))
             PROVE  Cut'
  OBVIOUS
<1>1. UNCHANGED <<design, split, stageds, unrealized, order, inputs, level>> /\ pc # "done"
  BY DEF NothingLeft, RankEnd, VisitEnd, Visit, Settle
<1>2. pc' # "start" /\ (InStage' => InStage) /\ (InStage => RankedGates' \subseteq RankedGates)
  <2>1. Gates' = Gates
    BY <1>1 DEF Gates
  <2>2. CASE NothingLeft
    BY <2>2 DEF NothingLeft, InStage
  <2>3. CASE RankEnd
    BY <2>1, <2>3 DEF RankEnd, InStage, RankedGates
  <2>4. CASE VisitEnd
    BY <2>1, <2>4 DEF VisitEnd, InStage, RankedGates
  <2>5. ASSUME NEW p \in Pins, Visit(p)
        PROVE  pc' # "start" /\ (InStage' => InStage) /\ (InStage => RankedGates' \subseteq RankedGates)
    <3>1. pc = "visit" /\ pc' \in {"visit", "panic"}
      BY <2>5 DEF Visit, Drop
    <3>2. QED
      BY <1>1, <2>1, <3>1 DEF InStage, RankedGates
  <2>6. ASSUME NEW e \in Endpoints, Settle(e)
        PROVE  pc' # "start" /\ (InStage' => InStage) /\ (InStage => RankedGates' \subseteq RankedGates)
    <3>1. pc = "settle" /\ pc' \in {"settle", "panic"}
      BY <2>6 DEF Settle, Drop
    <3>2. QED
      BY <1>1, <2>1, <3>1 DEF InStage, RankedGates
  <2>7. QED
    BY <2>2, <2>3, <2>4, <2>5, <2>6
<1>3. InStage /\ design.macros = {} => Shifted'
  BY <1>1, <1>2, SameShifted
<1>4. QED
  BY <1>1, <1>2, <1>3, SameCut

-----------------------------------------------------------------------------
(* A stage is cut off.                                                     *)

\* Where a stage stands once it is finished.
LEMMA AtStageEnd ==
  ASSUME Inductive, Cut, design.macros = {}, pc = "settle", open = {}
  PROVE  /\ design \in Designs /\ order \subseteq Pins /\ inputs \subseteq Pins
         /\ Len(stageds) \in Nat /\ Len(split) \in Nat /\ Len(stageds) <= Len(split)
         /\ Current = Len(stageds) + 1 /\ From(Current) \in Nat
         /\ \A p \in order : /\ Depth[p] \in Nat
                             /\ Within(level[p]) <=> BelowSplit(Current, p)
                             /\ p \in Gates <=> Depth[p] > From(Current)
         /\ \A p \in Gates \cap order : FaninOf(design, p) \subseteq order
         /\ \A p \in Pins \ design.gates : FaninOf(design, p) = {}
         /\ \A e \in unrealized : design.needs[e] \subseteq order
         /\ \A e \in Endpoints : e \in before <=> e \in unrealized /\ Reached(e)
         /\ \A p \in live : p \in order /\ Within(level[p])
<1>1. TypeOK /\ Closed /\ Settled /\ Alive /\ InStage
  BY DEF Inductive, InStage
<1>2. design \in Designs /\ order \subseteq Pins /\ inputs \subseteq Pins /\ live \subseteq Pins
  BY <1>1 DEF TypeOK
<1>3. Len(stageds) \in Nat /\ Len(split) \in Nat /\ Len(stageds) <= Len(split) /\ Current = Len(stageds) + 1
  <2>1. Len(stageds) <= Len(split)
    BY <1>1 DEF TypeOK
  <2>2. QED
    BY <1>1, <2>1, SplitIs
<1>4. From(Current) \in Nat
  <2>1. Current \in 1 .. Len(split) + 1
    BY <1>3
  <2>2. QED
    BY <1>1, <2>1, SplitIs
<1>5. \A p \in order : Depth[p] \in Nat /\ (Within(level[p]) <=> BelowSplit(Current, p))
  BY WithinIsBelow
<1>6. \A p \in order : p \in Gates <=> Depth[p] > From(Current)
  BY <1>1 DEF Cut, Parted
<1>7. \A p \in Gates \cap order : FaninOf(design, p) \subseteq order
  BY <1>1 DEF Closed
<1>8. \A p \in Pins \ design.gates : FaninOf(design, p) = {}
  BY DEF FaninOf
<1>9. \A e \in unrealized : design.needs[e] \subseteq order
  BY <1>1 DEF Closed, Needs
<1>10. \A e \in Endpoints : e \in before <=> e \in unrealized /\ Reached(e)
  BY <1>1 DEF Settled
<1>11. \A p \in live : p \in order /\ Within(level[p])
  BY <1>1, <1>2 DEF Alive, IsLive
<1>12. QED
  BY <1>2, <1>3, <1>4, <1>5, <1>6, <1>7, <1>8, <1>9, <1>10, <1>11

\* A gate is deeper than what it reads.
LEMMA FaninIsShallower ==
  ASSUME NEW d \in Designs, d = design, NEW p \in d.gates, NEW f \in FaninOf(d, p)
  PROVE  Depth[f] \in Nat /\ Depth[p] \in Nat /\ Depth[f] < Depth[p]
<1>1. PICK a : a = design.ands[p][1]
  OBVIOUS
<1>2. PICK b : b = design.ands[p][2]
  OBVIOUS
<1>3. a \in Pins /\ b \in Pins /\ f \in {a, b} /\ p \in Pins
  BY <1>1, <1>2, DesignAssumption DEF FaninOf
<1>4. Depth[p] = Higher(Depth[a], Depth[b]) + 1 /\ Depth[a] \in Nat /\ Depth[b] \in Nat /\ Depth[p] \in Nat
  BY <1>1, <1>2, <1>3, DepthIs
<1>5. QED
  BY <1>3, <1>4 DEF Higher

\* What a finished stage computes is between its levels.
LEMMA ComputesBetween ==
  ASSUME Inductive, Cut, design.macros = {}, pc = "settle", open = {}
  PROVE  \A p \in Computes(StageBuilt) : Depth[p] > From(Current) /\ BelowSplit(Current, p)
<1> DEFINE S == {p \in order : BelowSplit(Current, p)}
           from == StagedPins \cup Needs(design, before)
<1>1. /\ design \in Designs /\ order \subseteq Pins /\ inputs \subseteq Pins
      /\ Len(stageds) \in Nat /\ Len(split) \in Nat /\ Current = Len(stageds) + 1
      /\ \A p \in order : /\ Depth[p] \in Nat
                          /\ Within(level[p]) <=> BelowSplit(Current, p)
                          /\ p \in Gates <=> Depth[p] > From(Current)
      /\ \A p \in Gates \cap order : FaninOf(design, p) \subseteq order
      /\ \A p \in Pins \ design.gates : FaninOf(design, p) = {}
      /\ \A e \in unrealized : design.needs[e] \subseteq order
      /\ \A e \in Endpoints : e \in before <=> e \in unrealized /\ Reached(e)
      /\ \A p \in live : p \in order /\ Within(level[p])
  BY AtStageEnd
<1>2. StagedPins \subseteq S
  BY <1>1 DEF StagedPins
<1>3. Needs(design, before) \subseteq S
  <2> SUFFICES ASSUME NEW e \in before, NEW p \in design.needs[e] PROVE p \in S
    BY DEF Needs
  <2>1. e \in unrealized /\ Reached(e)
    <3>1. before \subseteq Endpoints
      BY DEF Inductive, TypeOK
    <3>2. QED
      BY <1>1, <3>1
  <2>2. p \in order /\ Within(level[p])
    BY <1>1, <2>1 DEF Reached
  <2>3. QED
    BY <1>1, <2>2
<1>4. ASSUME NEW p \in S \ inputs PROVE FaninOf(design, p) \subseteq S
  <2>1. p \in Pins /\ p \in order
    BY <1>1
  <2>2. CASE p \notin design.gates
    BY <1>1, <2>1, <2>2
  <2>3. CASE p \in design.gates
    <3>1. p \in Gates
      BY <2>3 DEF Gates
    <3>2. FaninOf(design, p) \subseteq order
      BY <1>1, <2>1, <3>1
    <3>3. ASSUME NEW f \in FaninOf(design, p) PROVE BelowSplit(Current, f)
      <4>1. Depth[f] \in Nat /\ Depth[p] \in Nat /\ Depth[f] < Depth[p]
        BY <1>1, <2>3, FaninIsShallower
      <4>2. Current <= Len(split) => Depth[p] <= split[Current] /\ split[Current] \in Nat
        <5>1. TypeOK
          BY DEF Inductive
        <5>2. Current <= Len(split) => Current \in 1 .. Len(split)
          BY <1>1
        <5>3. Current <= Len(split) => split[Current] \in Nat
          BY <5>1, <5>2, SplitIs
        <5>4. QED
          BY <5>3 DEF BelowSplit
      <4>3. QED
        BY <4>1, <4>2 DEF BelowSplit
    <3>4. QED
      BY <3>2, <3>3
  <2>4. QED
    BY <2>2, <2>3
<1>5. S \in SUBSET Pins /\ from \in SUBSET Pins /\ from \subseteq S /\ inputs \in SUBSET Pins
  BY <1>1, <1>2, <1>3
<1>6. Cone(design, from, inputs) \subseteq S
  <2> HIDE DEF S, from
  <2> QED BY <1>1, <1>4, <1>5, ConeIsLeast
<1>7. Computes(StageBuilt) = (Cone(design, from, inputs) \cap design.gates) \ inputs
  BY DEF Computes, StageBuilt
<1>8. \A p \in Computes(StageBuilt) : p \in S /\ p \in Gates
  BY <1>6, <1>7 DEF Gates
<1>9. QED
  BY <1>1, <1>8

\* Cutting a stage off leaves every stage between its levels.
LEMMA StagesPlaced ==
  ASSUME Inductive, Cut, design.macros = {}, pc = "settle", open = {},
         stageds' = Append(stageds, StageBuilt), UNCHANGED <<design, split>>
  PROVE  \A k \in DOMAIN stageds' : Placed(k)'
<1>1. PICK n : n = Len(stageds)
  OBVIOUS
<1>2. PICK new : new = StageBuilt
  OBVIOUS
<1>3. /\ n \in Nat /\ Current = n + 1
      /\ \A e \in Endpoints : e \in before <=> e \in unrealized /\ Reached(e)
      /\ \A e \in unrealized : design.needs[e] \subseteq order
      /\ \A p \in order : Within(level[p]) <=> BelowSplit(Current, p)
  BY <1>1, AtStageEnd
<1>4. DOMAIN stageds' = 1 .. n + 1 /\ stageds'[n + 1] = new
      /\ DOMAIN stageds = 1 .. n /\ \A i \in 1 .. n : stageds'[i] = stageds[i]
  <2>1. stageds \in Seq(Stages)
    BY DEF Inductive, TypeOK
  <2>2. QED
    BY <1>1, <1>2, <1>3, <2>1, SMT
<1>5. new.endpoints = before
  BY <1>2 DEF StageBuilt
<1>6. Depth' = Depth
  BY SameDepth
<1>7. /\ \A s : Computes(s)' = Computes(s)
      /\ \A k : From(k)' = From(k)
      /\ \A k, p : BelowSplit(k, p)' <=> BelowSplit(k, p)
  BY <1>6 DEF Computes, From, BelowSplit
<1>8. ASSUME NEW k \in 1 .. n PROVE Placed(k)'
  <2>1. Placed(k) /\ stageds'[k] = stageds[k]
    BY <1>4 DEF Cut
  <2>2. (Computes(stageds[k]))' = Computes(stageds[k])
    <3>1. PICK s : s = stageds[k]
      OBVIOUS
    <3>2. (Computes(stageds[k]))' = Computes(s)
      BY <2>1, <3>1 DEF Computes
    <3>3. QED
      BY <3>1, <3>2
  <2>3. QED
    BY <1>6, <1>7, <2>1, <2>2 DEF Placed
<1>9. Placed(n + 1)'
  <2>1. ASSUME NEW e \in before
        PROVE  /\ \A p \in design.needs[e] : BelowSplit(n + 1, p)
               /\ n + 1 > 1 => \E p \in design.needs[e] : Depth[p] > From(n + 1)
    <3>1. e \in unrealized /\ Reached(e)
      <4>1. before \subseteq Endpoints
        BY DEF Inductive, TypeOK
      <4>2. QED
        BY <1>3, <4>1
    <3>2. \A p \in design.needs[e] : BelowSplit(n + 1, p)
      BY <1>3, <3>1 DEF Reached
    <3>3. n + 1 > 1 => Due(e)
      BY <1>3, <3>1 DEF Cut
    <3>4. QED
      BY <1>3, <3>2, <3>3 DEF Due
  <2>2. \A p \in Computes(new) : Depth[p] > From(n + 1) /\ BelowSplit(n + 1, p)
    BY <1>2, <1>3, ComputesBetween
  <2>3. (Computes(stageds[n + 1]))' = Computes(new)
    BY <1>4, <1>6 DEF Computes
  <2>4. QED
    BY <1>4, <1>5, <1>6, <1>7, <2>1, <2>2, <2>3 DEF Placed
<1>10. \A k \in 1 .. n + 1 : k \in 1 .. n \/ k = n + 1
  BY <1>3
<1>11. QED
  BY <1>4, <1>8, <1>9, <1>10

LEMMA LastStageCuts == Inductive /\ Cut /\ LastStage => Cut'
<1> SUFFICES ASSUME Inductive, Cut, LastStage PROVE Cut'
  OBVIOUS
<1>1. /\ pc = "settle" /\ open = {} /\ stageds' = Append(stageds, StageBuilt) /\ pc' = "done"
      /\ UNCHANGED <<design, split>>
  BY DEF LastStage
<1>2. Len(stageds') <= Len(split') + 1
  <2>1. Len(stageds') = Len(stageds) + 1
    BY <1>1, StageAdded
  <2>2. Len(stageds) <= Len(split) /\ Len(stageds) \in Nat /\ Len(split) \in Nat
    <3>1. TypeOK
      BY DEF Inductive
    <3>2. Len(stageds) <= Len(split)
      BY <1>1, <3>1 DEF TypeOK
    <3>3. QED
      BY <3>1, <3>2, SplitIs
  <2>3. QED
    BY <1>1, <2>1, <2>2
<1>3. design.macros = {} => \A k \in DOMAIN stageds' : Placed(k)'
  BY <1>1, StagesPlaced
<1>4. QED
  BY <1>1, <1>2, <1>3 DEF Cut, InStage

\* What is left of the graph starts above the level it was cut at.
LEMMA RestIsAbove ==
  ASSUME Inductive, Cut, design.macros = {}, pc = "settle", open = {}, Current <= Len(split),
         UNCHANGED <<design, split>>, unrealized' = StillUnrealized, inputs' = Handed
  PROVE  /\ \A e \in unrealized' : \E p \in design.needs[e] : Depth[p] > split[Current]
         /\ \A p \in Cone(design, Needs(design, unrealized'), inputs') :
              /\ p \in Gates' <=> Depth[p] > split[Current]
              /\ p \in Gates' \/ p \in inputs'
<1> DEFINE S == {p \in order : p \in inputs' \/ ~Within(level[p])}
           from == Needs(design, unrealized')
<1>1. /\ design \in Designs /\ order \subseteq Pins /\ inputs \subseteq Pins
      /\ Len(stageds) \in Nat /\ Len(split) \in Nat /\ Current = Len(stageds) + 1 /\ From(Current) \in Nat
      /\ \A p \in order : /\ Depth[p] \in Nat
                          /\ Within(level[p]) <=> BelowSplit(Current, p)
                          /\ p \in Gates <=> Depth[p] > From(Current)
      /\ \A p \in Gates \cap order : FaninOf(design, p) \subseteq order
      /\ \A p \in Pins \ design.gates : FaninOf(design, p) = {}
      /\ \A e \in unrealized : design.needs[e] \subseteq order
      /\ \A e \in Endpoints : e \in before <=> e \in unrealized /\ Reached(e)
      /\ \A p \in live : p \in order /\ Within(level[p])
  BY AtStageEnd
<1>2. PICK c : c = split[Current]
  OBVIOUS
<1>3. c \in Nat \ {0} /\ From(Current) <= c
  <2>1. TypeOK /\ pc # "done"
    BY DEF Inductive
  <2>2. Current \in 1 .. Len(split)
    BY <1>1
  <2>3. c \in Nat \ {0}
    BY <1>2, <2>1, <2>2, SplitIs
  <2>4. c - From(Current) \in Nat
    BY <1>2, <2>1, RoomInStage
  <2>5. QED
    BY <1>1, <2>3, <2>4
<1>4. \A p \in order : Within(level[p]) <=> Depth[p] <= c
  BY <1>1, <1>2 DEF BelowSplit
<1>5. unrealized' \subseteq unrealized /\ unrealized' \subseteq Endpoints
      /\ \A e \in unrealized' : ~Reached(e)
  <2>1. unrealized \subseteq Endpoints
    BY DEF Inductive, TypeOK
  <2>2. QED
    BY <1>1, <2>1 DEF StillUnrealized
<1>6. inputs' = inputs \cup live /\ inputs' \subseteq Pins
  BY <1>1 DEF Handed, StagedPins
<1>7. \A p \in order : Within(level[p]) /\ wanted[p] # {} => p \in inputs'
  <2>1. \A p \in Pins : p \in live <=> IsLive(p)
    BY DEF Inductive, Alive
  <2>2. todo = {}
    BY DEF Inductive, Settled
  <2>3. QED
    BY <1>1, <1>6, <2>1, <2>2 DEF IsLive
<1>8. \A p \in Pins : (GatesLeft(p) # {} \/ EndpointsLeft(p) # {}) => wanted[p] # {}
  <2>1. TypeOK /\ Counted /\ InStage
    BY DEF Inductive, InStage
  <2>2. \A p \in Pins : GatesLeft(p) \subseteq Pins /\ EndpointsLeft(p) \subseteq Endpoints
    BY <2>1 DEF GatesLeft, EndpointsLeft, GateReaders, EndpointReaders, TypeOK
  <2>3. QED
    BY <2>1, <2>2 DEF Counted
<1>9. ASSUME NEW e \in unrealized' PROVE \E p \in design.needs[e] : Depth[p] > c
  <2>1. PICK p \in design.needs[e] : ~Within(level[p])
    BY <1>5 DEF Reached
  <2>2. p \in order
    BY <1>1, <1>5
  <2>3. QED
    BY <1>1, <1>3, <1>4, <2>1, <2>2
<1>10. ASSUME NEW p \in from PROVE p \in S
  <2>1. PICK e \in unrealized' : p \in design.needs[e]
    BY DEF Needs
  <2>2. p \in order /\ e \in unrealized /\ ~Reached(e)
    BY <1>1, <1>5, <2>1
  <2>3. e \in EndpointsLeft(p)
    BY <2>1, <2>2 DEF EndpointsLeft, EndpointReaders
  <2>4. wanted[p] # {}
    BY <1>1, <1>8, <2>2, <2>3
  <2>5. QED
    BY <1>7, <2>2, <2>4
<1>11. ASSUME NEW p \in S \ inputs', NEW f \in FaninOf(design, p) PROVE f \in S
  <2>1. p \in order /\ p \in Pins /\ ~Within(level[p]) /\ p \notin inputs
    BY <1>1, <1>6
  <2>2. p \in Gates
    BY <1>1, <2>1 DEF Gates
  <2>3. f \in order /\ f \in Pins
    BY <1>1, <2>1, <2>2
  <2>4. p \in GatesLeft(f)
    BY <2>1, <2>2 DEF GatesLeft, GateReaders
  <2>5. wanted[f] # {}
    BY <1>8, <2>3, <2>4
  <2>6. QED
    BY <1>7, <2>3, <2>5
<1>12. S \in SUBSET Pins /\ from \in SUBSET Pins /\ from \subseteq S /\ inputs' \in SUBSET Pins
  BY <1>1, <1>6, <1>10
<1>13. Cone(design, from, inputs') \subseteq S
  <2>1. \A p \in S \ inputs' : FaninOf(design, p) \subseteq S
    BY <1>11
  <2> HIDE DEF S, from
  <2>2. PICK i : i = inputs'
    OBVIOUS
  <2>3. Cone(design, from, i) \subseteq S
    BY <1>1, <1>12, <2>1, <2>2, ConeIsLeast
  <2> QED BY <2>2, <2>3
<1>14. ASSUME NEW p \in S PROVE (p \in Gates' <=> Depth[p] > c) /\ (p \in Gates' \/ p \in inputs')
  <2>1. p \in order /\ p \in Pins /\ Depth[p] \in Nat
    BY <1>1
  <2>2. p \in Gates' <=> p \in design.gates /\ p \notin inputs'
    BY DEF Gates
  <2>3. CASE p \in inputs
    <3>1. ~(Depth[p] > From(Current))
      BY <1>1, <2>1, <2>3 DEF Gates
    <3>2. ~(Depth[p] > c)
      BY <1>1, <1>3, <2>1, <3>1
    <3>3. QED
      BY <1>6, <2>2, <2>3, <3>2
  <2>4. CASE p \in live
    <3>1. ~(Depth[p] > c)
      BY <1>1, <1>3, <1>4, <2>1, <2>4
    <3>2. QED
      BY <1>6, <2>2, <2>4, <3>1
  <2>5. CASE p \notin inputs'
    <3>1. Depth[p] > c
      BY <1>3, <1>4, <2>1, <2>5
    <3>2. p \in design.gates
      <4>1. Depth[p] # 0
        BY <1>3, <2>1, <3>1
      <4>2. QED
        BY <1>1, <2>1, <4>1, DepthIs
    <3>3. QED
      BY <2>2, <2>5, <3>1, <3>2
  <2>6. QED
    BY <1>6, <2>3, <2>4, <2>5
<1>15. \A p \in Cone(design, from, inputs') : (p \in Gates' <=> Depth[p] > c) /\ (p \in Gates' \/ p \in inputs')
  <2> HIDE DEF S, from
  <2> QED BY <1>13, <1>14
<1>16. QED
  BY <1>2, <1>9, <1>15

LEMMA NextStageCuts == Inductive /\ Cut /\ NextStage => Cut'
<1> SUFFICES ASSUME Inductive, Cut, NextStage PROVE Cut'
  OBVIOUS
<1>1. /\ pc = "settle" /\ open = {} /\ stageds' = Append(stageds, StageBuilt) /\ Current <= Len(split)
      /\ UNCHANGED <<design, split>> /\ unrealized' = StillUnrealized /\ inputs' = Handed
      /\ pc' \in {"start", "done"}
  BY DEF NextStage
<1>2. /\ Len(stageds') = Len(stageds) + 1 /\ Len(stageds) \in Nat /\ Len(split) \in Nat
      /\ Current = Len(stageds) + 1 /\ Current' = Len(stageds') + 1
  <2>1. Len(stageds') = Len(stageds) + 1
    BY <1>1, StageAdded
  <2>2. QED
    BY <2>1, SplitIs DEF Inductive, Current
<1>3. Len(stageds') <= Len(split') + 1
  BY <1>1, <1>2
<1>4. From(Current)' = split[Current]
  <2>1. Current' # 1 /\ Current' - 1 = Current
    BY <1>2
  <2>2. QED
    BY <1>1, <2>1 DEF From
<1>5. ASSUME design.macros = {}
      PROVE  /\ Parted(Cone(design, Needs(design, unrealized), inputs))'
             /\ \A e \in unrealized' : Due(e)'
             /\ \A k \in DOMAIN stageds' : Placed(k)'
  <2>1. \A k \in DOMAIN stageds' : Placed(k)'
    BY <1>1, <1>5, StagesPlaced
  <2>2. Depth' = Depth
    BY <1>1, SameDepth
  <2>3. /\ \A e \in unrealized' : \E p \in design.needs[e] : Depth[p] > split[Current]
        /\ \A p \in Cone(design, Needs(design, unrealized'), inputs') : p \in Gates' <=> Depth[p] > split[Current]
    BY <1>1, <1>5, RestIsAbove
  <2>4. \A e \in unrealized' : Due(e)'
    BY <1>1, <1>4, <2>2, <2>3 DEF Due
  <2>5. Cone(design, Needs(design, unrealized), inputs)' = Cone(design, Needs(design, unrealized'), inputs')
    BY <1>1 DEF Cone, Needs
  <2>6. Parted(Cone(design, Needs(design, unrealized), inputs))'
    BY <1>4, <2>2, <2>3, <2>5 DEF Parted
  <2>7. QED
    BY <2>1, <2>4, <2>6
<1>6. ~InStage'
  BY <1>1 DEF InStage
<1>7. QED
  BY <1>1, <1>3, <1>5, <1>6 DEF Cut

-----------------------------------------------------------------------------

\* Every step keeps the cut.
THEOREM CutHolds == Spec => [](Inductive /\ Cut)
<1>1. Init => Inductive /\ Cut
  BY InitInductive, InitCut
<1>2. Inductive /\ Cut /\ [Next]_vars => Cut'
  <2> SUFFICES ASSUME Inductive, Cut, [Next]_vars PROVE Cut'
    OBVIOUS
  <2>1. CASE Start
    BY <2>1, StartCuts
  <2>2. CASE NextStage
    BY <2>2, NextStageCuts
  <2>3. CASE LastStage
    BY <2>3, LastStageCuts
  <2>4. CASE NothingLeft \/ RankEnd \/ VisitEnd \/ (\E p \in Pins : Visit(p)) \/ (\E e \in Endpoints : Settle(e))
    BY <2>4, QuietCuts
  <2>5. ASSUME NEW p \in Pins, Rank(p) PROVE Cut'
    BY <2>5, RankCuts
  <2>6. CASE UNCHANGED vars
    <3>1. UNCHANGED <<pc, design, split, unrealized, inputs, stageds, order, todo, level>>
      BY <2>6 DEF vars
    <3>2. Gates' = Gates /\ Depth' = Depth /\ InStage' = InStage
      BY <3>1, SameDepth DEF Gates, InStage
    <3>3. RankedGates' = RankedGates /\ Current' = Current
      BY <3>1, <3>2 DEF RankedGates, Current
    <3>4. From(Current)' = From(Current)
      BY <3>1, <3>3 DEF From
    <3>5. (Parted(order)' <=> Parted(order)) /\ (Shifted' <=> Shifted)
      BY <3>1, <3>2, <3>3, <3>4 DEF Parted, Shifted
    <3>6. Parted(Cone(design, Needs(design, unrealized), inputs))' <=> Parted(Cone(design, Needs(design, unrealized), inputs))
      <4>1. Cone(design, Needs(design, unrealized), inputs)' = Cone(design, Needs(design, unrealized), inputs)
        BY <3>1 DEF Cone, Needs
      <4>2. QED
        BY <3>2, <3>4, <4>1 DEF Parted
    <3>7. (\A e : Due(e)' <=> Due(e)) /\ (\A k : Placed(k)' <=> Placed(k))
      BY <3>1, SameParted, SamePlaced
    <3>8. QED
      BY <3>1, <3>2, <3>3, <3>5, <3>6, <3>7 DEF Cut
  <2>7. QED
    BY <2>1, <2>2, <2>3, <2>4, <2>5, <2>6 DEF Next
<1>3. Spec => []Inductive
  BY InductiveHolds
<1>4. QED
  BY <1>1, <1>2, <1>3, PTL DEF Spec

\* A graph without macros is cut where it is meant to be: every endpoint is
\* realized in the stage its depth in the uncut graph falls into, although
\* levels are counted anew in every stage, and no gate is computed by two
\* (staging.rs:107-125, 156-178, 188-229).
THEOREM CutAtLevels == Spec => []StagedAsCut
<1>1. Inductive /\ Cut => StagedAsCut
  <2> SUFFICES ASSUME Inductive, Cut, pc = "done", design.macros = {} PROVE OnTime /\ ComputedOnce
    BY DEF StagedAsCut, OnTime, ComputedOnce
  <2>1. /\ TypeOK /\ design \in Designs
        /\ \A k \in DOMAIN stageds : Placed(k)
        /\ Len(stageds) <= Len(split) + 1 /\ Len(stageds) \in Nat /\ Len(split) \in Nat
        /\ DOMAIN stageds = 1 .. Len(stageds)
    <3>1. TypeOK /\ stageds \in Seq(Stages)
      BY DEF Inductive, TypeOK
    <3>2. QED
      BY <3>1, SplitIs DEF Cut, TypeOK
  <2>2. OnTime
    <3> SUFFICES ASSUME NEW k \in DOMAIN stageds, NEW e \in stageds[k].endpoints
                 PROVE  /\ k <= Len(split) => \A p \in design.needs[e] : Depth[p] <= split[k]
                        /\ k > 1 => \E p \in design.needs[e] : Depth[p] > split[k - 1]
      BY DEF OnTime
    <3>1. k > 1 => From(k) = split[k - 1]
      BY DEF From
    <3>2. QED
      BY <2>1, <3>1 DEF Placed, BelowSplit
  <2>3. ASSUME NEW i \in DOMAIN stageds, NEW j \in DOMAIN stageds, i < j
        PROVE  Computes(stageds[i]) \cap Computes(stageds[j]) = {}
    <3> SUFFICES ASSUME NEW p \in Computes(stageds[i]), p \in Computes(stageds[j]) PROVE FALSE
      OBVIOUS
    <3>1. Depth[p] > From(j) /\ BelowSplit(i, p)
      BY <2>1 DEF Placed
    <3>2. i \in 1 .. Len(split) /\ j - 1 \in 1 .. Len(split) /\ i <= j - 1 /\ j # 1
      BY <2>1, <2>3
    <3>3. From(j) = split[j - 1] /\ Depth[p] <= split[i]
      BY <2>1, <3>1, <3>2 DEF From, BelowSplit
    <3>4. PICK k : k = j - 1
      OBVIOUS
    <3>5. split[i] <= split[k] /\ split[i] \in Nat /\ split[k] \in Nat
      <4>1. k \in 1 .. Len(split) /\ i <= k
        BY <3>2, <3>4
      <4>2. split[i] <= split[k]
        BY <2>1, <3>2, <4>1, SplitGrows
      <4>3. QED
        BY <2>1, <3>2, <4>1, <4>2, SplitIs
    <3>6. Depth[p] \in Nat
      <4>1. p \in Pins
        <5>1. p \in design.gates
          BY DEF Computes
        <5>2. QED
          BY <2>1, <5>1, DesignAssumption
      <4>2. QED
        BY <2>1, <4>1, DepthIs
    <3>7. QED
      BY <3>1, <3>3, <3>4, <3>5, <3>6
  <2>4. ComputedOnce
    <3> SUFFICES ASSUME NEW i \in DOMAIN stageds, NEW j \in DOMAIN stageds, i # j
                 PROVE  Computes(stageds[i]) \cap Computes(stageds[j]) = {}
      BY DEF ComputedOnce
    <3>1. i < j \/ j < i
      BY <2>1
    <3>2. QED
      BY <2>3, <3>1
  <2>5. QED
    BY <2>2, <2>4
<1>2. QED
  BY <1>1, CutHolds, PTL

-----------------------------------------------------------------------------
(* The inputs of a stage: past the first, what a stage traverses is a gate *)
(* or was handed on, so that none of its inputs reads what it computes.     *)
(* RepCut sweeps past the inputs, and needs this.                          *)

\* What a stage traverses.
Traversed(s) == Cone(design, s.pins \cup Needs(design, s.endpoints), s.inputs)

\* No input of a stage reads what the stage computes.
Sealed(s) ==
  \A p \in Traversed(s) \ s.inputs, r \in Traversed(s) \cap s.inputs : p \notin FaninOf(design, r)

\* Past the first stage nothing is traversed but gates and what was handed on.
Supplied(S) == Current > 1 => S \subseteq Gates \cup inputs

Fed ==
  design.macros = {} =>
    /\ pc = "start" => Supplied(Cone(design, Needs(design, unrealized), inputs))
    /\ InStage => Supplied(order)
    /\ \A k \in DOMAIN stageds : Sealed(stageds[k])

LEMMA SameSealed ==
  ASSUME UNCHANGED design
  PROVE  \A s : Sealed(s)' <=> Sealed(s)
BY DEF Sealed, Traversed

\* A finished stage is sealed: its inputs are no deeper than where it starts from,
\* and what it computes is deeper.
LEMMA StageSealed ==
  ASSUME Inductive, Cut, Fed, design.macros = {}, pc = "settle", open = {}
  PROVE  Sealed(StageBuilt)
<1> DEFINE from == StagedPins \cup Needs(design, before)
<1>1. /\ design \in Designs /\ order \subseteq Pins /\ inputs \subseteq Pins
      /\ Len(stageds) \in Nat /\ Current = Len(stageds) + 1 /\ From(Current) \in Nat
      /\ \A p \in order : /\ Depth[p] \in Nat
                          /\ p \in Gates <=> Depth[p] > From(Current)
      /\ \A p \in Gates \cap order : FaninOf(design, p) \subseteq order
      /\ \A p \in Pins \ design.gates : FaninOf(design, p) = {}
      /\ \A e \in unrealized : design.needs[e] \subseteq order
      /\ \A e \in Endpoints : e \in before <=> e \in unrealized /\ Reached(e)
      /\ \A p \in live : p \in order /\ Within(level[p])
  BY AtStageEnd
<1>2. StagedPins \subseteq order
  BY <1>1 DEF StagedPins
<1>3. Needs(design, before) \subseteq order
  <2> SUFFICES ASSUME NEW e \in before, NEW p \in design.needs[e] PROVE p \in order
    BY DEF Needs
  <2>1. before \subseteq Endpoints
    BY DEF Inductive, TypeOK
  <2>2. QED
    BY <1>1, <2>1
<1>4. ASSUME NEW p \in order \ inputs PROVE FaninOf(design, p) \subseteq order
  <2>1. CASE p \notin design.gates
    BY <1>1, <2>1
  <2>2. CASE p \in design.gates
    BY <1>1, <2>2 DEF Gates
  <2>3. QED
    BY <2>1, <2>2
<1>5. from \in SUBSET Pins /\ from \subseteq order
  BY <1>1, <1>2, <1>3
<1>6. Cone(design, from, inputs) \subseteq order
  <2> HIDE DEF from
  <2> QED BY <1>1, <1>4, <1>5, ConeIsLeast
<1>7. Traversed(StageBuilt) = Cone(design, from, inputs) /\ StageBuilt.inputs = inputs
  BY DEF Traversed, StageBuilt
<1>8. SUFFICES ASSUME NEW p \in order \ inputs, NEW r \in order \cap inputs, p \in FaninOf(design, r)
               PROVE  FALSE
  BY <1>6, <1>7 DEF Sealed
<1>9. r \in design.gates
  BY <1>1, <1>8
<1>10. Depth[p] \in Nat /\ Depth[r] \in Nat /\ Depth[p] < Depth[r]
  BY <1>1, <1>8, <1>9, FaninIsShallower
<1>11. ~(Depth[r] > From(Current))
  BY <1>1 DEF Gates
<1>12. ~(Depth[p] > From(Current))
  BY <1>1, <1>10, <1>11
<1>13. CASE Current > 1
  <2>1. p \in Gates
    BY <1>13 DEF Fed, InStage, Supplied
  <2>2. QED
    BY <1>1, <1>12, <2>1
<1>14. CASE Current = 1
  <2>1. From(Current) = 0
    BY <1>14 DEF From
  <2>2. QED
    BY <1>10, <1>11, <2>1
<1>15. QED
  BY <1>1, <1>13, <1>14

LEMMA StagesSealed ==
  ASSUME Inductive, Cut, Fed, design.macros = {}, pc = "settle", open = {},
         stageds' = Append(stageds, StageBuilt), UNCHANGED design
  PROVE  \A k \in DOMAIN stageds' : Sealed(stageds[k])'
<1>1. PICK new : new = StageBuilt
  OBVIOUS
<1>2. PICK n : n = Len(stageds)
  OBVIOUS
<1>3. n \in Nat /\ DOMAIN stageds' = 1 .. n + 1 /\ stageds'[n + 1] = new
      /\ DOMAIN stageds = 1 .. n /\ \A i \in 1 .. n : stageds'[i] = stageds[i]
  <2>1. stageds \in Seq(Stages)
    BY DEF Inductive, TypeOK
  <2>2. QED
    BY <1>1, <1>2, <2>1, SMT
<1>4. Sealed(new)
  BY <1>1, StageSealed
<1>5. \A k \in 1 .. n : Sealed(stageds[k])
  BY <1>3 DEF Fed
<1>6. \A k \in 1 .. n + 1 : k \in 1 .. n \/ k = n + 1
  BY <1>3
<1>7. SUFFICES ASSUME NEW k \in 1 .. n + 1 PROVE Sealed(stageds[k])'
  BY <1>3
<1>8. PICK s : s = stageds'[k]
  OBVIOUS
<1>9. Sealed(s)
  BY <1>3, <1>4, <1>5, <1>6, <1>8
<1>10. Sealed(stageds[k])' <=> Sealed(s)
  BY <1>8 DEF Sealed, Traversed
<1>11. QED
  BY <1>9, <1>10

\* A step that takes no stage and no input.
LEMMA SameFed ==
  ASSUME Fed, UNCHANGED <<design, stageds, inputs>>,
         pc' = "start" => pc = "start" /\ UNCHANGED unrealized,
         InStage' => InStage /\ UNCHANGED order
  PROVE  Fed'
<1>1. Gates' = Gates /\ Current' = Current
  BY DEF Gates, Current
<1>2. \A S : Supplied(S)' <=> Supplied(S)
  BY <1>1 DEF Supplied
<1>3. SUFFICES ASSUME design.macros = {}
               PROVE  /\ pc' = "start" => Supplied(Cone(design, Needs(design, unrealized), inputs))'
                      /\ InStage' => Supplied(order)'
                      /\ \A k \in DOMAIN stageds' : Sealed(stageds[k])'
  BY DEF Fed
<1>4. \A k : Sealed(stageds[k])' <=> Sealed(stageds[k])
  BY DEF Sealed, Traversed
<1>5. ASSUME pc' = "start" PROVE Supplied(Cone(design, Needs(design, unrealized), inputs))'
  <2>1. Supplied(Cone(design, Needs(design, unrealized), inputs))
    BY <1>3, <1>5 DEF Fed
  <2>2. QED
    BY <1>1, <1>5, <2>1 DEF Supplied
<1>6. ASSUME InStage' PROVE Supplied(order)'
  BY <1>1, <1>3, <1>6 DEF Supplied, Fed
<1>7. QED
  BY <1>3, <1>4, <1>5, <1>6 DEF Fed

LEMMA FedKept == Inductive /\ Cut /\ Fed /\ [Next]_vars => Fed'
<1> SUFFICES ASSUME Inductive, Cut, Fed, [Next]_vars PROVE Fed'
  OBVIOUS
<1>1. CASE Start
  <2>1. UNCHANGED <<design, inputs, stageds>> /\ pc = "start" /\ pc' = "rank"
        /\ order' = Cone(design, Needs(design, unrealized), inputs)
    BY <1>1 DEF Start
  <2>2. Gates' = Gates /\ Current' = Current
    BY <2>1 DEF Gates, Current
  <2>3. design.macros = {} => Supplied(order)'
    BY <2>1, <2>2 DEF Fed, Supplied
  <2>4. \A k : Sealed(stageds[k])' <=> Sealed(stageds[k])
    BY <2>1 DEF Sealed, Traversed
  <2>5. QED
    BY <2>1, <2>3, <2>4 DEF Fed
<1>2. CASE NextStage
  <2>1. /\ pc = "settle" /\ open = {} /\ stageds' = Append(stageds, StageBuilt) /\ Current <= Len(split)
        /\ UNCHANGED <<design, split>> /\ unrealized' = StillUnrealized /\ inputs' = Handed
        /\ pc' \in {"start", "done"}
    BY <1>2 DEF NextStage
  <2>2. SUFFICES ASSUME design.macros = {}
                 PROVE  Supplied(Cone(design, Needs(design, unrealized), inputs))'
                        /\ \A k \in DOMAIN stageds' : Sealed(stageds[k])'
    BY <2>1 DEF Fed, InStage
  <2>3. \A p \in Cone(design, Needs(design, unrealized'), inputs') : p \in Gates' \/ p \in inputs'
    BY <2>1, <2>2, RestIsAbove
  <2>4. Cone(design, Needs(design, unrealized), inputs)' = Cone(design, Needs(design, unrealized'), inputs')
    BY <2>1 DEF Cone, Needs
  <2>5. Supplied(Cone(design, Needs(design, unrealized), inputs))'
    BY <2>3, <2>4 DEF Supplied
  <2>6. \A k \in DOMAIN stageds' : Sealed(stageds[k])'
    BY <2>1, <2>2, StagesSealed
  <2>7. QED
    BY <2>5, <2>6
<1>3. CASE LastStage
  <2>1. /\ pc = "settle" /\ open = {} /\ stageds' = Append(stageds, StageBuilt)
        /\ UNCHANGED design /\ pc' = "done"
    BY <1>3 DEF LastStage
  <2>2. design.macros = {} => \A k \in DOMAIN stageds' : Sealed(stageds[k])'
    BY <2>1, StagesSealed
  <2>3. QED
    BY <2>1, <2>2 DEF Fed, InStage
<1>4. CASE NothingLeft \/ RankEnd \/ VisitEnd \/ UNCHANGED vars
  <2>1. /\ UNCHANGED <<design, stageds, inputs, unrealized, order>>
        /\ pc' = "start" => pc = "start"
        /\ InStage' => InStage
    BY <1>4 DEF NothingLeft, RankEnd, VisitEnd, vars, InStage
  <2>2. QED
    BY <2>1, SameFed
<1>5. ASSUME NEW p \in Pins, Rank(p) \/ Visit(p) PROVE Fed'
  <2>1. UNCHANGED <<design, stageds, inputs, unrealized, order>> /\ InStage /\ pc' # "start"
    BY <1>5 DEF Rank, Visit, Drop, InStage
  <2>2. QED
    BY <2>1, SameFed
<1>6. ASSUME NEW e \in Endpoints, Settle(e) PROVE Fed'
  <2>1. UNCHANGED <<design, stageds, inputs, unrealized, order>> /\ InStage /\ pc' # "start"
    BY <1>6 DEF Settle, Drop, InStage
  <2>2. QED
    BY <2>1, SameFed
<1>7. QED
  BY <1>1, <1>2, <1>3, <1>4, <1>5, <1>6 DEF Next

LEMMA InitFed == Init => Fed
<1> SUFFICES ASSUME Init PROVE Fed
  OBVIOUS
<1>1. stageds = <<>> /\ pc = "start" /\ Current = 1
  BY DEF Init, Current
<1>2. QED
  BY <1>1 DEF Fed, Supplied, InStage

\* Some of the groups of a stage are divided.
Divided ==
  /\ sub.pins \in Seq(Pins) /\ sub.endpoints \in Seq(Endpoints) /\ sub.inputs \in SUBSET Pins
  /\ step # "idle" =>
       /\ pc = "done"
       /\ \E k \in DOMAIN stageds :
            /\ \A i \in DOMAIN sub.pins : sub.pins[i] \in stageds[k].pins
            /\ \A i \in DOMAIN sub.endpoints : sub.endpoints[i] \in stageds[k].endpoints
            /\ sub.inputs = stageds[k].inputs

\* Where a pin that is computed is charged to none but its users.
Charged == design.macros = {} \/ sub.inputs = {}

\* What the sweep has found in a block when the pins of rest are still to come.
Swept(b, rest) ==
  \A p \in Pins :
    /\ segments[b][p] \subseteq GroupsOf(b)
    /\ p \in rest \/ p \notin BlockOrder(b) => segments[b][p] = {}
    /\ p \in BlockOrder(b) \ rest =>
         /\ ReadBy(b, p) \subseteq segments[b][p]
         /\ \A r \in BlockOrder(b) \ sub.inputs :
              p \in FaninOf(design, r) => r \notin rest /\ segments[b][r] \subseteq segments[b][p]
    /\ Charged /\ p \notin sub.inputs => segments[b][p] \subseteq Users(p)

Sweeps ==
  step # "idle" =>
    /\ block \in Nat /\ block <= NumBlocks
    /\ segments \in Seq([Pins -> SUBSET Nat]) /\ Len(segments) = block
    /\ block = 0 => ahead = {}
    /\ ahead \subseteq BlockOrder(block)
    /\ \A b \in 1 .. block : Swept(b, IF b = block THEN ahead ELSE {})
    /\ step # "sweep" => ahead = {} /\ block = NumBlocks

-----------------------------------------------------------------------------
(* The groups and their blocks. *)

LEMMA GroupIs ==
  ASSUME design \in Designs, Divided, NEW g \in 1 .. NumGroups
  PROVE  /\ GroupNeeds(g) \subseteq Pins
         /\ \/ \E i \in DOMAIN sub.pins : GroupNeeds(g) = {sub.pins[i]}
            \/ \E i \in DOMAIN sub.endpoints : GroupNeeds(g) = design.needs[sub.endpoints[i]]
<1>1. PICK n \in Nat : n = Len(sub.pins) /\ DOMAIN sub.pins = 1 .. n /\ \A i \in 1 .. n : sub.pins[i] \in Pins
  BY DEF Divided
<1>2. PICK m \in Nat : m = Len(sub.endpoints) /\ DOMAIN sub.endpoints = 1 .. m
                       /\ \A i \in 1 .. m : sub.endpoints[i] \in Endpoints
  BY DEF Divided
<1>3. g \in 1 .. n + m
  BY <1>1, <1>2 DEF NumGroups
<1>4. CASE g <= n
  <2>1. g \in 1 .. n /\ GroupNeeds(g) = {sub.pins[g]}
    BY <1>1, <1>3, <1>4 DEF GroupNeeds
  <2>2. QED
    BY <1>1, <2>1
<1>5. CASE ~(g <= n)
  <2>1. PICK i \in 1 .. m : i = g - n
    <3>1. n \in Nat /\ m \in Nat /\ g \in 1 .. n + m /\ ~(g <= n)
      BY <1>3, <1>5
    <3>2. g - n \in 1 .. m
      BY <3>1
    <3>3. QED
      BY <3>2
  <2>2. GroupNeeds(g) = design.needs[sub.endpoints[i]]
    BY <1>1, <1>5, <2>1 DEF GroupNeeds
  <2>3. design.needs \in [Endpoints -> SUBSET Pins]
    BY DesignAssumption
  <2>4. QED
    BY <1>2, <2>1, <2>2, <2>3
<1>6. QED
  BY <1>4, <1>5

LEMMA CountIs ==
  ASSUME Divided
  PROVE  NumGroups \in Nat /\ NumBlocks \in Nat /\ BlockSize * NumBlocks >= NumGroups
<1>1. NumGroups \in Nat
  <2>1. sub.pins \in Seq(Pins) /\ sub.endpoints \in Seq(Endpoints)
    BY DEF Divided
  <2>2. Len(sub.pins) \in Nat /\ Len(sub.endpoints) \in Nat
    BY <2>1
  <2>3. PICK n \in Nat : n = Len(sub.pins)
    BY <2>2
  <2>4. PICK m \in Nat : m = Len(sub.endpoints)
    BY <2>2
  <2>5. NumGroups = n + m
    BY <2>3, <2>4 DEF NumGroups
  <2>6. QED
    BY <2>5
<1>2. BlockSize \in Nat \ {0}
  BY RepCutAssumption
<1>3. PICK n \in Nat : n = NumGroups + BlockSize - 1
  BY <1>1, <1>2
<1>4. n \div BlockSize \in Nat /\ n < BlockSize * (n \div BlockSize) + BlockSize
  BY <1>2, SMT
<1>5. NumBlocks = n \div BlockSize
  BY <1>3 DEF NumBlocks
<1>6. PICK q \in Nat : q = n \div BlockSize
  BY <1>4
<1>7. PICK m : m = BlockSize * q
  OBVIOUS
<1>8. m \in Nat /\ n < m + BlockSize
  BY <1>2, <1>4, <1>6, <1>7
<1>9. m >= NumGroups
  BY <1>1, <1>2, <1>3, <1>8
<1>10. QED
  BY <1>1, <1>5, <1>6, <1>7, <1>9

\* Every group is in a block.
LEMMA BlocksCover ==
  ASSUME Divided, NEW g \in 1 .. NumGroups
  PROVE  \E b \in 1 .. NumBlocks : g \in GroupsOf(b)
<1>1. NumGroups \in Nat /\ NumBlocks \in Nat /\ BlockSize * NumBlocks >= NumGroups /\ BlockSize \in Nat \ {0}
  BY CountIs, RepCutAssumption
<1>2. PICK q \in Nat : q = (g - 1) \div BlockSize /\ BlockSize * q <= g - 1 /\ g - 1 < BlockSize * q + BlockSize
  <2>1. PICK n \in Nat : n = g - 1
    BY <1>1
  <2>2. n \div BlockSize \in Nat /\ BlockSize * (n \div BlockSize) <= n
        /\ n < BlockSize * (n \div BlockSize) + BlockSize
    BY <1>1, SMT
  <2>3. QED
    BY <2>1, <2>2
<1>3. PICK b \in Nat : b = q + 1
  OBVIOUS
<1>4. (b - 1) * BlockSize = BlockSize * q /\ b * BlockSize = BlockSize * q + BlockSize
  BY <1>1, <1>3
<1>5. g \in GroupsOf(b)
  <2>1. BlockSize * q \in Nat
    BY <1>1
  <2>2. (b - 1) * BlockSize < g /\ g <= b * BlockSize
    BY <1>1, <1>2, <1>4, <2>1
  <2>3. QED
    BY <2>2 DEF GroupsOf
<1>6. b <= NumBlocks
  <2>1. SUFFICES ASSUME NumBlocks <= q PROVE FALSE
    BY <1>1, <1>3
  <2>2. BlockSize * NumBlocks <= BlockSize * q
    BY <1>1, <2>1
  <2>3. PICK u \in Nat : u = BlockSize * NumBlocks
    BY <1>1
  <2>4. PICK v \in Nat : v = BlockSize * q
    BY <1>1
  <2>5. QED
    BY <1>1, <1>2, <2>2, <2>3, <2>4
<1>7. QED
  BY <1>1, <1>3, <1>5, <1>6

\* A block is traversed from what its groups need.
LEMMA BlockOrderIs ==
  ASSUME design \in Designs, Divided, NEW b
  PROVE  /\ BlockOrder(b) \subseteq Pins
         /\ \A g \in GroupsOf(b) : g \in 1 .. NumGroups /\ GroupNeeds(g) \subseteq BlockOrder(b)
         /\ \A r \in BlockOrder(b) \ sub.inputs : FaninOf(design, r) \subseteq BlockOrder(b)
<1> DEFINE from == UNION {GroupNeeds(g) : g \in GroupsOf(b)}
<1>1. \A g \in GroupsOf(b) : g \in 1 .. NumGroups /\ GroupNeeds(g) \subseteq from
  BY DEF GroupsOf
<1>2. from \in SUBSET Pins
  BY <1>1, GroupIs
<1>3. PICK stop \in SUBSET Pins : stop = sub.inputs
  BY DEF Divided
<1>4. PICK start : start = from
  OBVIOUS
<1>5. BlockOrder(b) = Cone(design, start, stop)
  BY <1>3, <1>4 DEF BlockOrder
<1>6. /\ Cone(design, start, stop) \subseteq Pins
      /\ start \subseteq Cone(design, start, stop)
      /\ \A p \in Cone(design, start, stop) \ stop : FaninOf(design, p) \subseteq Cone(design, start, stop)
  BY <1>2, <1>4, ConeIsClosed
<1>7. QED
  BY <1>1, <1>3, <1>4, <1>5, <1>6

LEMMA UserIs ==
  ASSUME design \in Designs, Divided, NEW g \in 1 .. NumGroups
  PROVE  /\ \A p \in GroupNeeds(g) : g \in Users(p)
         /\ \A r \in Pins \ sub.inputs : g \in Users(r) => \A p \in FaninOf(design, r) : g \in Users(p)
<1>1. PICK stop \in SUBSET Pins : stop = sub.inputs
  BY DEF Divided
<1>2. PICK start \in SUBSET Pins : start = GroupNeeds(g)
  BY GroupIs
<1>3. \A p : g \in Users(p) <=> p \in Cone(design, start, stop)
  BY <1>1, <1>2 DEF Users
<1>4. /\ start \subseteq Cone(design, start, stop)
      /\ \A p \in Cone(design, start, stop) \ stop : FaninOf(design, p) \subseteq Cone(design, start, stop)
  BY ConeIsClosed
<1>5. QED
  BY <1>1, <1>2, <1>3, <1>4

\* Where pins are charged exactly, no input reads what is computed.
LEMMA ChargedIsSealed ==
  ASSUME TypeOK, Fed, Divided, step # "idle", Charged, NEW b
  PROVE  \A p \in BlockOrder(b) \ sub.inputs, r \in BlockOrder(b) \cap sub.inputs : p \notin FaninOf(design, r)
<1>1. SUFFICES ASSUME design.macros = {} 
               PROVE  \A p \in BlockOrder(b) \ sub.inputs, r \in BlockOrder(b) \cap sub.inputs :
                        p \notin FaninOf(design, r)
  BY DEF Charged
<1>2. PICK k \in DOMAIN stageds : 
            /\ \A i \in DOMAIN sub.pins : sub.pins[i] \in stageds[k].pins
            /\ \A i \in DOMAIN sub.endpoints : sub.endpoints[i] \in stageds[k].endpoints
            /\ sub.inputs = stageds[k].inputs
  BY DEF Divided
<1>3. PICK s \in Stages : s = stageds[k]
  BY DEF TypeOK
<1>4. design \in Designs
  BY DEF TypeOK
<1>5. PICK from : from = s.pins \cup Needs(design, s.endpoints)
  OBVIOUS
<1>6. PICK stop : stop = sub.inputs
  OBVIOUS
<1>7. from \in SUBSET Pins /\ stop \in SUBSET Pins /\ Traversed(s) = Cone(design, from, stop) /\ stop = s.inputs
  <2>1. s.pins \subseteq Pins /\ s.endpoints \in SUBSET Endpoints
    BY DEF Stages
  <2>2. Needs(design, s.endpoints) \subseteq Pins
    BY <1>4, <2>1, NeedsArePins
  <2>3. QED
    BY <1>2, <1>3, <1>5, <1>6, <2>1, <2>2 DEF Traversed, Divided
<1>8. \A g \in GroupsOf(b) : GroupNeeds(g) \subseteq from
  <2> SUFFICES ASSUME NEW g \in GroupsOf(b), NEW p \in GroupNeeds(g) PROVE p \in from
    OBVIOUS
  <2>1. g \in 1 .. NumGroups
    BY DEF GroupsOf
  <2>2. \/ \E i \in DOMAIN sub.pins : GroupNeeds(g) = {sub.pins[i]}
        \/ \E i \in DOMAIN sub.endpoints : GroupNeeds(g) = design.needs[sub.endpoints[i]]
    BY <1>4, <2>1, GroupIs
  <2>3. QED
    BY <1>2, <1>3, <1>5, <2>2 DEF Needs
<1>9. PICK C \in SUBSET Pins : /\ C = Cone(design, from, stop) /\ from \subseteq C
                               /\ \A p \in C \ stop : FaninOf(design, p) \subseteq C
  BY <1>4, <1>7, ConeIsClosed
<1>10. PICK start : start = UNION {GroupNeeds(g) : g \in GroupsOf(b)}
  OBVIOUS
<1>11. start \subseteq C
  BY <1>8, <1>9, <1>10
<1>12. BlockOrder(b) = Cone(design, start, stop)
  BY <1>6, <1>10 DEF BlockOrder
<1>13. BlockOrder(b) \subseteq C
  BY <1>4, <1>7, <1>9, <1>11, <1>12, ConeIsLeast
<1>14. Sealed(s)
  BY <1>1, <1>3 DEF Fed
<1>15. QED
  BY <1>6, <1>7, <1>9, <1>13, <1>14 DEF Sealed

Dividing == TypeOK /\ Fed /\ Divided /\ Sweeps

-----------------------------------------------------------------------------
(* One lemma for each action.                                              *)

LEMMA SetToSeqIs ==
  ASSUME NEW S, IsFiniteSet(S)
  PROVE  SetToSeq(S) \in Seq(S)
<1>1. PICK n \in Nat : n = Cardinality(S) /\ ExistsBijection(1 .. n, S)
  BY FS_CardinalityType
<1>2. PICK f \in [1 .. n -> S] : f \in Bijection(1 .. n, S)
  BY <1>1 DEF ExistsBijection, Bijection, Injection
<1>3. \A i, j \in 1 .. n : f[i] = f[j] => i = j
  BY <1>2 DEF Bijection, Injection, IsInjective
<1>4. IsInjective(f)
  BY <1>3, Zenon DEF IsInjective
<1>5. SetToSeq(S) \in [1 .. n -> S]
  BY <1>1, <1>2, <1>4, Zenon DEF SetToSeq
<1>6. QED
  BY <1>5

\* What the sweep has found depends on what is divided, and on the sets.
LEMMA SameSweep ==
  ASSUME UNCHANGED <<design, sub>>
  PROVE  /\ NumGroups' = NumGroups /\ NumBlocks' = NumBlocks
         /\ \A b : BlockOrder(b)' = BlockOrder(b) /\ GroupsOf(b)' = GroupsOf(b)
         /\ \A b, p : ReadBy(b, p)' = ReadBy(b, p)
         /\ \A p : Users(p)' = Users(p) /\ Fanouts(p)' = Fanouts(p) /\ FaninOf(design, p)' = FaninOf(design, p)
         /\ Charged' = Charged
<1>1. \A g : GroupNeeds(g)' = GroupNeeds(g)
  BY DEF GroupNeeds
<1>2. NumGroups' = NumGroups
  BY DEF NumGroups
<1>3. NumBlocks' = NumBlocks /\ \A b : GroupsOf(b)' = GroupsOf(b)
  BY <1>2 DEF NumBlocks, GroupsOf
<1>4. \A b : BlockOrder(b)' = BlockOrder(b)
  BY <1>1, <1>3 DEF BlockOrder
<1>5. \A b, p : ReadBy(b, p)' = ReadBy(b, p)
  BY <1>1, <1>3 DEF ReadBy
<1>6. \A p : Users(p)' = Users(p) /\ Fanouts(p)' = Fanouts(p)
  BY <1>1, <1>2 DEF Users, Fanouts, FaninOf
<1>7. QED
  BY <1>2, <1>3, <1>4, <1>5, <1>6 DEF Charged, FaninOf

LEMMA BlocksCounted == Divided => NumBlocks \in Nat
BY CountIs

LEMMA SameDivided ==
  ASSUME Divided, UNCHANGED <<pc, stageds, sub>>, step # "idle"
  PROVE  Divided'
BY DEF Divided

\* Nothing moves in Staging once its graph is divided.
LEMMA NoStageStep ==
  ASSUME pc = "done", Next
  PROVE  FALSE
BY DEF Next, Start, NothingLeft, RankEnd, VisitEnd, NextStage, LastStage, Rank, Visit, Settle

LEMMA StageNextDivides == Divided /\ Sweeps /\ StageNext => Divided' /\ Sweeps'
<1> SUFFICES ASSUME Divided, Sweeps, StageNext PROVE Divided' /\ Sweeps'
  OBVIOUS
<1>1. step = "idle" /\ step' = step /\ sub' = sub
  BY NoStageStep DEF StageNext, rcvars, Divided
<1>2. QED
  BY <1>1 DEF Divided, Sweeps

LEMMA DivideDivides ==
  ASSUME TypeOK, NEW k \in DOMAIN stageds, NEW pins \in SUBSET stageds[k].pins,
         NEW endpoints \in SUBSET stageds[k].endpoints, Divide(k, pins, endpoints)
  PROVE  Divided' /\ Sweeps'
<1>1. stageds[k].pins \subseteq Pins /\ stageds[k].endpoints \subseteq Endpoints /\ stageds[k].inputs \subseteq Pins
  <2>1. stageds[k] \in Stages
    BY DEF TypeOK
  <2>2. QED
    BY <2>1 DEF Stages
<1>2. IsFiniteSet(pins) /\ IsFiniteSet(endpoints)
  BY <1>1, DesignAssumption, RepCutAssumption, FS_Subset
<1>3. PICK p \in Seq(pins) : p = SetToSeq(pins)
  BY <1>2, SetToSeqIs
<1>4. PICK e \in Seq(endpoints) : e = SetToSeq(endpoints)
  BY <1>2, SetToSeqIs
<1>5. sub' = [pins |-> p, endpoints |-> e, inputs |-> stageds[k].inputs]
  BY <1>3, <1>4 DEF Divide
<1>6. sub'.pins = p /\ sub'.endpoints = e /\ sub'.inputs = stageds[k].inputs
  BY <1>5
<1>7. p \in Seq(Pins) /\ e \in Seq(Endpoints)
  BY <1>1
<1>8. stageds' = stageds /\ pc' = "done" /\ step' = "sweep" /\ block' = 0 /\ ahead' = {} /\ segments' = <<>>
  BY DEF Divide, vars
<1>9. Divided'
  <2>1. \A i \in DOMAIN p : p[i] \in stageds[k].pins
    OBVIOUS
  <2>2. \A i \in DOMAIN e : e[i] \in stageds[k].endpoints
    OBVIOUS
  <2>3. QED
    BY <1>1, <1>6, <1>7, <1>8, <2>1, <2>2 DEF Divided
<1>10. (NumBlocks \in Nat)'
  BY <1>9, BlocksCounted, PTL
<1>11. QED
  BY <1>8, <1>9, <1>10 DEF Sweeps

\* A block that is begun has found nothing.
LEMMA NextBlockSweeps == ASSUME Dividing, NextBlock PROVE Divided' /\ Sweeps'
<1>1. /\ step = "sweep" /\ step' = "sweep" /\ ahead = {} /\ block < NumBlocks /\ block' = block + 1
      /\ ahead' = BlockOrder(block + 1) /\ segments' = Append(segments, NoSets)
      /\ UNCHANGED <<pc, design, stageds, sub>>
  BY DEF NextBlock, vars
<1>2. Divided'
  BY <1>1, SameDivided DEF Dividing
<1>3. PICK n \in Nat : n = block
  BY <1>1 DEF Dividing, Sweeps
<1>4. /\ segments \in Seq([Pins -> SUBSET Nat]) /\ Len(segments) = n
      /\ \A b \in 1 .. n : Swept(b, {})
  BY <1>1, <1>3 DEF Dividing, Sweeps
<1>5. PICK new \in [Pins -> SUBSET Nat] : new = NoSets
  BY DEF NoSets
<1>6. /\ segments' \in Seq([Pins -> SUBSET Nat]) /\ Len(segments') = n + 1 /\ segments'[n + 1] = new
      /\ \A b \in 1 .. n : segments'[b] = segments[b]
  BY <1>1, <1>4, <1>5
<1>7. /\ NumBlocks' = NumBlocks
      /\ \A b : BlockOrder(b)' = BlockOrder(b) /\ GroupsOf(b)' = GroupsOf(b)
      /\ \A b, p : ReadBy(b, p)' = ReadBy(b, p)
      /\ \A p : Users(p)' = Users(p) /\ FaninOf(design, p)' = FaninOf(design, p)
      /\ (Charged' <=> Charged)
  BY <1>1, SameSweep
<1>8. ASSUME NEW b \in 1 .. n PROVE Swept(b, {})'
  <2>1. Swept(b, {}) /\ segments'[b] = segments[b]
    BY <1>4, <1>6
  <2>2. QED
    BY <1>1, <1>7, <2>1 DEF Swept
<1>9. Swept(n + 1, ahead)'
  <2>1. \A p \in Pins : segments'[n + 1][p] = {}
    BY <1>5, <1>6 DEF NoSets
  <2>2. ahead' = BlockOrder(n + 1)'
    BY <1>1, <1>3, <1>7
  <2>3. QED
    BY <2>1, <2>2 DEF Swept
<1>10. NumBlocks \in Nat
  BY CountIs DEF Dividing
<1>11. block' = n + 1 /\ n + 1 <= NumBlocks'
  BY <1>1, <1>3, <1>7, <1>10
<1>12. \A b \in 1 .. n + 1 : b \in 1 .. n \/ b = n + 1
  OBVIOUS
<1>13. \A b \in 1 .. block' : Swept(b, IF b = block THEN ahead ELSE {})'
  <2>1. SUFFICES ASSUME NEW b \in 1 .. n + 1 PROVE Swept(b, IF b = block THEN ahead ELSE {})'
    BY <1>11
  <2>2. CASE b \in 1 .. n
    <3>1. b # block'
      BY <1>11, <2>2
    <3>2. QED
      BY <1>8, <2>2, <3>1 DEF Swept
  <2>3. CASE b = n + 1
    BY <1>9, <1>11, <2>3 DEF Swept
  <2>4. QED
    BY <1>12, <2>2, <2>3
<1>14. ahead' \subseteq BlockOrder(block)'
  BY <1>1, <1>7, <1>11, <1>3 DEF BlockOrder
<1>15. QED
  BY <1>1, <1>2, <1>3, <1>6, <1>11, <1>13, <1>14 DEF Sweeps

\* A pin is charged to whom its readers are: they come before it in the sweep,
\* unless they are inputs.
LEMMA SweepSweeps == ASSUME Dividing, NEW p \in Pins, Sweep(p) PROVE Divided' /\ Sweeps'
<1> DEFINE set == ReadBy(block, p) \cup UNION {segments[block][r] : r \in Fanouts(p)}
<1>1. /\ step = "sweep" /\ step' = "sweep" /\ p \in ahead /\ ahead' = ahead \ {p}
      /\ \A r \in ahead \ sub.inputs : p \notin FaninOf(design, r)
      /\ segments' = [segments EXCEPT ![block][p] = set]
      /\ UNCHANGED <<pc, design, stageds, sub, block>>
  BY DEF Sweep, vars
<1>2. Divided'
  BY <1>1, SameDivided DEF Dividing
<1>3. PICK n \in Nat : n = block
  BY <1>1 DEF Dividing, Sweeps
<1>4. /\ segments \in Seq([Pins -> SUBSET Nat]) /\ Len(segments) = n
      /\ ahead \subseteq BlockOrder(n) /\ n # 0 /\ n <= NumBlocks
      /\ \A b \in 1 .. n : Swept(b, IF b = n THEN ahead ELSE {})
  BY <1>1, <1>3 DEF Dividing, Sweeps
<1>5. design \in Designs /\ Divided /\ TypeOK /\ Fed
  BY DEF Dividing, TypeOK
<1>6. PICK seg \in [Pins -> SUBSET Nat] : seg = segments[n]
  BY <1>3, <1>4
<1>7. /\ \A q \in Pins : seg[q] \subseteq GroupsOf(n)
      /\ \A q \in Pins : q \in ahead \/ q \notin BlockOrder(n) => seg[q] = {}
      /\ \A q \in BlockOrder(n) \ ahead :
           /\ ReadBy(n, q) \subseteq seg[q]
           /\ \A r \in BlockOrder(n) \ sub.inputs :
                q \in FaninOf(design, r) => r \notin ahead /\ seg[r] \subseteq seg[q]
      /\ Charged => \A q \in Pins \ sub.inputs : seg[q] \subseteq Users(q)
  <2>1. Swept(n, ahead)
    <3>1. n \in 1 .. n
      BY <1>4
    <3>2. QED
      BY <1>4, <3>1 DEF Swept
  <2>2. BlockOrder(n) \subseteq Pins
    BY <1>5, BlockOrderIs
  <2>3. QED
    BY <1>6, <2>1, <2>2 DEF Swept
<1>8. /\ BlockOrder(n) \subseteq Pins
      /\ \A g \in GroupsOf(n) : g \in 1 .. NumGroups /\ GroupNeeds(g) \subseteq BlockOrder(n)
      /\ p \in BlockOrder(n)
  BY <1>1, <1>4, <1>5, BlockOrderIs
<1>9. /\ \A r : r \in Fanouts(p) <=> r \in Pins /\ p \in FaninOf(design, r)
      /\ \A q : ReadBy(n, q) = {g \in GroupsOf(n) : q \in GroupNeeds(g)}
      /\ p \notin Fanouts(p)
  <2>1. p \notin FaninOf(design, p)
    <3>1. p \in Nat
      BY DesignAssumption
    <3>2. QED
      BY <1>5, <3>1, FaninIsPins
  <2>2. QED
    BY <2>1 DEF Fanouts, ReadBy
<1>10. PICK X : X = ReadBy(n, p) \cup UNION {seg[r] : r \in Fanouts(p)}
  OBVIOUS
<1>11. X = set
  BY <1>3, <1>6, <1>10
<1>12. X \subseteq GroupsOf(n) /\ X \subseteq Nat
  <2>1. X \subseteq GroupsOf(n)
    BY <1>7, <1>9, <1>10
  <2>2. GroupsOf(n) \subseteq Nat
    BY DEF GroupsOf
  <2>3. QED
    BY <2>1, <2>2
<1>13. PICK new \in [Pins -> SUBSET Nat] : /\ new[p] = X
                                           /\ \A q \in Pins : q # p => new[q] = seg[q]
                                           /\ new = [seg EXCEPT ![p] = X]
  <2>1. [seg EXCEPT ![p] = X] \in [Pins -> SUBSET Nat]
    BY <1>12
  <2>2. QED
    BY <2>1
<1>14. segments' = [segments EXCEPT ![n] = new]
  <2> HIDE DEF set
  <2> QED BY <1>1, <1>3, <1>4, <1>6, <1>11, <1>13
<1>15. /\ segments' \in Seq([Pins -> SUBSET Nat]) /\ Len(segments') = n /\ segments'[n] = new
       /\ \A b \in 1 .. n : b # n => segments'[b] = segments[b]
  BY <1>4, <1>13, <1>14
<1>16. /\ NumBlocks' = NumBlocks
       /\ \A b : BlockOrder(b)' = BlockOrder(b) /\ GroupsOf(b)' = GroupsOf(b)
       /\ \A b, q : ReadBy(b, q)' = ReadBy(b, q)
       /\ \A q : Users(q)' = Users(q) /\ FaninOf(design, q)' = FaninOf(design, q)
       /\ (Charged' <=> Charged)
  BY <1>1, SameSweep
<1>17. Charged /\ p \notin sub.inputs => X \subseteq Users(p)
  <2> SUFFICES ASSUME Charged, p \notin sub.inputs, NEW g \in X PROVE g \in Users(p)
    OBVIOUS
  <2>1. g \in GroupsOf(n) /\ g \in 1 .. NumGroups
    BY <1>8, <1>12
  <2>2. CASE g \in ReadBy(n, p)
    BY <1>5, <1>9, <2>1, <2>2, UserIs
  <2>3. ASSUME NEW r \in Fanouts(p), g \in seg[r] PROVE g \in Users(p)
    <3>1. r \in Pins /\ p \in FaninOf(design, r) /\ r \in BlockOrder(n)
      BY <1>7, <1>9, <2>3
    <3>2. r \notin sub.inputs
      BY <1>1, <1>5, <1>8, <2>1, <3>1, ChargedIsSealed
    <3>3. g \in Users(r)
      BY <1>7, <2>3, <3>1, <3>2
    <3>4. QED
      BY <1>5, <2>1, <3>1, <3>2, <3>3, UserIs
  <2>4. QED
    BY <1>10, <2>2, <2>3
<1>18. ASSUME NEW q \in BlockOrder(n) \ ahead'
       PROVE  /\ ReadBy(n, q) \subseteq new[q]
              /\ \A r \in BlockOrder(n) \ sub.inputs :
                   q \in FaninOf(design, r) => r \notin ahead' /\ new[r] \subseteq new[q]
  <2>1. CASE q = p
    <3>1. ASSUME NEW r \in BlockOrder(n) \ sub.inputs, p \in FaninOf(design, r)
          PROVE  r \notin ahead' /\ new[r] \subseteq new[p]
      <4>1. r \in Fanouts(p) /\ r \in Pins /\ r # p /\ r \notin ahead
        BY <1>1, <1>8, <1>9, <3>1
      <4>2. new[r] = seg[r] /\ seg[r] \subseteq X
        BY <1>10, <1>13, <4>1
      <4>3. QED
        BY <1>1, <1>13, <4>1, <4>2
    <3>2. ReadBy(n, p) \subseteq new[p]
      BY <1>10, <1>13
    <3>3. QED
      BY <2>1, <3>1, <3>2
  <2>2. CASE q # p
    <3>1. q \in BlockOrder(n) \ ahead /\ q \in Pins /\ new[q] = seg[q]
      BY <1>1, <1>8, <1>13, <2>2
    <3>2. ASSUME NEW r \in BlockOrder(n) \ sub.inputs, q \in FaninOf(design, r)
          PROVE  r \notin ahead' /\ new[r] \subseteq new[q]
      <4>1. r \notin ahead /\ seg[r] \subseteq seg[q]
        BY <1>7, <3>1, <3>2
      <4>2. r # p /\ r \in Pins
        BY <1>1, <1>8, <4>1
      <4>3. QED
        BY <1>1, <1>13, <3>1, <4>1, <4>2
    <3>3. QED
      BY <1>7, <3>1, <3>2
  <2>3. QED
    BY <2>1, <2>2
<1>19. Swept(n, ahead)'
  <2>1. \A q \in Pins : new[q] \subseteq GroupsOf(n)
    BY <1>7, <1>12, <1>13
  <2>2. \A q \in Pins : q \in ahead' \/ q \notin BlockOrder(n) => new[q] = {}
    BY <1>1, <1>7, <1>8, <1>13
  <2>3. \A q \in Pins : Charged /\ q \notin sub.inputs => new[q] \subseteq Users(q)
    BY <1>7, <1>13, <1>17
  <2>4. sub' = sub
    BY <1>1
  <2>5. QED
    BY <1>15, <1>16, <1>18, <2>1, <2>2, <2>3, <2>4 DEF Swept
<1>20. ASSUME NEW b \in 1 .. n, b # n PROVE Swept(b, {})'
  <2>1. Swept(b, {}) /\ segments'[b] = segments[b]
    BY <1>4, <1>15, <1>20 DEF Swept
  <2>2. QED
    BY <1>1, <1>16, <2>1 DEF Swept
<1>21. \A b \in 1 .. block' : Swept(b, IF b = block THEN ahead ELSE {})'
  <2>1. SUFFICES ASSUME NEW b \in 1 .. n PROVE Swept(b, IF b = block THEN ahead ELSE {})'
    BY <1>1, <1>3
  <2>2. CASE b # n
    BY <1>1, <1>3, <1>20, <2>2 DEF Swept
  <2>3. CASE b = n
    BY <1>1, <1>3, <1>19, <2>3 DEF Swept
  <2>4. QED
    BY <2>2, <2>3
<1>22. ahead' \subseteq BlockOrder(block)'
  <2>1. BlockOrder(block)' = BlockOrder(n)
    BY <1>1, <1>3, <1>16 DEF BlockOrder
  <2>2. QED
    BY <1>1, <1>4, <2>1
<1>23. QED
  BY <1>1, <1>2, <1>3, <1>4, <1>15, <1>16, <1>21, <1>22 DEF Sweeps

\* The sets are not touched once they are found.
LEMMA SameSweeps ==
  ASSUME Dividing, step # "idle", step' # "idle", UNCHANGED <<pc, design, stageds, sub, block, ahead, segments>>,
         step' # "sweep" => ahead = {} /\ block = NumBlocks
  PROVE  Divided' /\ Sweeps'
<1>1. Divided'
  BY SameDivided DEF Dividing
<1>2. /\ NumBlocks' = NumBlocks
      /\ \A b : BlockOrder(b)' = BlockOrder(b) /\ GroupsOf(b)' = GroupsOf(b)
      /\ \A b, q : ReadBy(b, q)' = ReadBy(b, q)
      /\ \A q : Users(q)' = Users(q) /\ FaninOf(design, q)' = FaninOf(design, q)
      /\ (Charged' <=> Charged)
  BY SameSweep
<1>3. \A b, rest : Swept(b, rest) => Swept(b, rest)'
  BY <1>2 DEF Swept
<1>4. ASSUME NEW b \in 1 .. block' PROVE Swept(b, IF b = block THEN ahead ELSE {})'
  <2>1. Swept(b, IF b = block THEN ahead ELSE {})
    BY DEF Dividing, Sweeps
  <2>2. QED
    BY <1>2, <2>1 DEF Swept
<1>5. BlockOrder(block)' = BlockOrder(block)
  BY <1>2 DEF BlockOrder
<1>6. QED
  BY <1>1, <1>2, <1>4, <1>5 DEF Dividing, Sweeps

LEMMA DividingInit == InitRC => Divided /\ Sweeps
BY DEF InitRC, Divided, Sweeps

-----------------------------------------------------------------------------
(* The sample of a large set.                                              *)

\* The samples of the members up to n, from those of the members before n.
Picks(S, n, earlier) ==
  IF n \notin S THEN earlier
  ELSE IF Cardinality(S \cap (1 .. n)) <= EdgeLimit THEN {e \cup {n} : e \in earlier}
  ELSE IF Cardinality(S \cap (1 .. n)) = EdgeLimit + 1 THEN UNION {{(e \ {m}) \cup {n} : m \in e} : e \in earlier}
  ELSE earlier \cup UNION {{(e \ {m}) \cup {n} : m \in e} : e \in earlier}

Picking(f, S) == f = [n \in 0 .. NumGroups |-> IF n = 0 THEN {{}} ELSE Picks(S, n, f[n - 1])]

LEMMA PickingExists ==
  ASSUME NumGroups \in Nat, NEW S
  PROVE  \E f : Picking(f, S)
<1> DEFINE T == SUBSET (SUBSET Nat)
           F == [z \in Nat \X T |-> Picks(S, z[1], z[2])]
<1>1. ASSUME NEW n \in Nat, NEW E \in T PROVE Picks(S, n, E) \in T
  <2>1. \A e \in E : e \cup {n} \in SUBSET Nat /\ \A m \in e : (e \ {m}) \cup {n} \in SUBSET Nat
    OBVIOUS
  <2>2. {e \cup {n} : e \in E} \in T
    <3>1. ASSUME NEW x \in {e \cup {n} : e \in E} PROVE x \in SUBSET Nat
      <4>1. PICK e \in E : x = e \cup {n}
        OBVIOUS
      <4>2. QED
        BY <2>1, <4>1
    <3>2. QED
      BY <3>1, Zenon
  <2>3. UNION {{(e \ {m}) \cup {n} : m \in e} : e \in E} \in T
    <3>1. ASSUME NEW x \in UNION {{(e \ {m}) \cup {n} : m \in e} : e \in E} PROVE x \in SUBSET Nat
      <4>1. PICK e \in E : \E m \in e : x = (e \ {m}) \cup {n}
        OBVIOUS
      <4>2. QED
        BY <2>1, <4>1
    <3>2. QED
      BY <3>1, Zenon
  <2>4. QED
    BY <2>2, <2>3 DEF Picks
<1>2. F \in [Nat \X T -> T]
  BY <1>1
<1>3. {{}} \in T
  OBVIOUS
<1>4. PICK f \in [0 .. NumGroups -> T] : Recurs(f, {{}}, F, NumGroups)
  <2> HIDE DEF T, F
  <2> QED BY <1>2, <1>3, RecursionExists
<1>5. \A n \in 1 .. NumGroups : f[n] = Picks(S, n, f[n - 1])
  <2> SUFFICES ASSUME NEW n \in 1 .. NumGroups PROVE f[n] = Picks(S, n, f[n - 1])
    OBVIOUS
  <2>1. n - 1 \in 0 .. NumGroups /\ n \in Nat
    OBVIOUS
  <2>2. f[n - 1] \in T
    <3> HIDE DEF T
    <3> QED BY <2>1
  <2>3. PICK E \in T : E = f[n - 1]
    BY <2>2
  <2>4. f[n] = F[<<n, E>>]
    <3> HIDE DEF F, T
    <3> QED BY <1>4, <2>3 DEF Recurs
  <2>5. <<n, E>> \in Nat \X T
    BY <2>1
  <2>6. F[<<n, E>>] = Picks(S, n, E)
    <3> HIDE DEF T
    <3> QED BY <2>5
  <2>7. QED
    BY <2>3, <2>4, <2>6
<1>6. f[0] = {{}}
  BY <1>4 DEF Recurs
<1>7. Picking(f, S)
  <2>1. f = [n \in 0 .. NumGroups |-> f[n]]
    <3> HIDE DEF T
    <3> QED BY <1>4
  <2>2. \A n \in 0 .. NumGroups : f[n] = IF n = 0 THEN {{}} ELSE Picks(S, n, f[n - 1])
    BY <1>5, <1>6
  <2>3. QED
    BY <2>1, <2>2 DEF Picking
<1>8. QED
  BY <1>7

\* A sample is full, or all of its set.
Full(S, n, e) ==
  /\ e \subseteq S \cap (1 .. n)
  /\ IsFiniteSet(e)
  /\ Cardinality(e) = IF Cardinality(S \cap (1 .. n)) > EdgeLimit THEN EdgeLimit
                      ELSE Cardinality(S \cap (1 .. n))

LEMMA PicksFull ==
  ASSUME NEW S, NEW n \in Nat, NEW E, \A e \in E : Full(S, n, e), NEW d \in Picks(S, n + 1, E)
  PROVE  Full(S, n + 1, d)
<1>1. PICK A : A = S \cap (1 .. n)
  OBVIOUS
<1>2. PICK B : B = S \cap (1 .. n + 1)
  OBVIOUS
<1>3. IsFiniteSet(A) /\ Cardinality(A) \in Nat /\ n + 1 \notin A
  <2>1. IsFiniteSet(1 .. n)
    BY FS_Interval
  <2>2. A \subseteq 1 .. n /\ n + 1 \notin 1 .. n
    BY <1>1
  <2>3. QED
    BY <2>1, <2>2, FS_Subset, FS_CardinalityType
<1>4. EdgeLimit \in Nat \ {0}
  BY RepCutAssumption
<1>5. ASSUME NEW e \in E
      PROVE  e \subseteq A /\ IsFiniteSet(e) /\ Cardinality(e) \in Nat /\ n + 1 \notin e
             /\ Cardinality(e) = IF Cardinality(A) > EdgeLimit THEN EdgeLimit ELSE Cardinality(A)
  BY <1>1, <1>3, FS_CardinalityType DEF Full
<1>6. CASE n + 1 \notin S
  <2>1. B = A
    BY <1>1, <1>2, <1>6
  <2>2. d \in E
    BY <1>6 DEF Picks
  <2>3. QED
    BY <1>1, <1>2, <2>1, <2>2 DEF Full
<1>7. CASE n + 1 \in S
  <2>1. B = A \cup {n + 1}
    BY <1>1, <1>2, <1>7
  <2>2. IsFiniteSet(B) /\ Cardinality(B) = Cardinality(A) + 1 /\ Cardinality(B) \in Nat
    <3>1. IsFiniteSet(A \cup {n + 1}) /\ Cardinality(A \cup {n + 1}) = Cardinality(A) + 1
      BY <1>3, FS_AddElement
    <3>2. QED
      BY <1>3, <2>1, <3>1
  <2>3. Full(S, n + 1, d) <=> /\ d \subseteq B /\ IsFiniteSet(d)
                              /\ Cardinality(d) = IF Cardinality(B) > EdgeLimit THEN EdgeLimit ELSE Cardinality(B)
    BY <1>2 DEF Full
  <2>4. CASE Cardinality(B) <= EdgeLimit
    <3>1. PICK e \in E : d = e \cup {n + 1}
      BY <1>2, <1>7, <2>4 DEF Picks
    <3>2. IsFiniteSet(d) /\ Cardinality(d) = Cardinality(e) + 1
      BY <1>5, <3>1, FS_AddElement
    <3>3. Cardinality(e) = Cardinality(A)
      BY <1>3, <1>4, <1>5, <2>2, <2>4
    <3>4. QED
      BY <1>3, <1>4, <1>5, <2>1, <2>2, <2>3, <2>4, <3>1, <3>2, <3>3
  <2>5. ASSUME NEW e \in E, NEW m \in e, d = (e \ {m}) \cup {n + 1}, Cardinality(B) > EdgeLimit
        PROVE  Full(S, n + 1, d)
    <3>1. Cardinality(A) >= EdgeLimit /\ Cardinality(e) = EdgeLimit
      BY <1>3, <1>4, <1>5, <2>2, <2>5
    <3>2. IsFiniteSet(e \ {m}) /\ Cardinality(e \ {m}) = EdgeLimit - 1
      BY <1>5, <3>1, FS_RemoveElement
    <3>3. n + 1 \notin e \ {m}
      BY <1>5
    <3>4. IsFiniteSet(d) /\ Cardinality(d) = EdgeLimit - 1 + 1
      BY <2>5, <3>2, <3>3, FS_AddElement
    <3>5. Cardinality(d) = EdgeLimit
      BY <1>4, <3>4
    <3>6. d \subseteq B
      BY <1>5, <2>1, <2>5
    <3>7. QED
      BY <2>3, <2>5, <3>4, <3>5, <3>6
  <2>6. CASE Cardinality(B) = EdgeLimit + 1
    <3>1. Cardinality(B) > EdgeLimit /\ ~(Cardinality(B) <= EdgeLimit)
      BY <1>4, <2>2, <2>6
    <3>2. PICK e \in E : \E m \in e : d = (e \ {m}) \cup {n + 1}
      BY <1>2, <1>7, <2>6, <3>1 DEF Picks
    <3>3. QED
      BY <2>5, <3>1, <3>2
  <2>7. CASE Cardinality(B) > EdgeLimit + 1
    <3>1. Cardinality(B) > EdgeLimit /\ ~(Cardinality(B) <= EdgeLimit) /\ Cardinality(B) # EdgeLimit + 1
          /\ Cardinality(A) > EdgeLimit
      BY <1>3, <1>4, <2>2, <2>7
    <3>2. d \in E \/ \E e \in E : \E m \in e : d = (e \ {m}) \cup {n + 1}
      BY <1>2, <1>7, <3>1 DEF Picks
    <3>3. CASE d \in E
      BY <1>5, <2>1, <2>3, <3>1, <3>3
    <3>4. QED
      BY <2>5, <3>1, <3>2, <3>3
  <2>8. QED
    BY <1>4, <2>2, <2>4, <2>6, <2>7
<1>8. QED
  BY <1>6, <1>7

LEMMA SamplesFull ==
  ASSUME NumGroups \in Nat, NEW S \in SUBSET (1 .. NumGroups), NEW e \in Samples(S)
  PROVE  /\ e \subseteq S
         /\ Cardinality(e) = IF Cardinality(S) > EdgeLimit THEN EdgeLimit ELSE Cardinality(S)
<1> DEFINE upTo == CHOOSE f : Picking(f, S)
<1>1. Samples(S) = upTo[NumGroups]
  BY DEF Samples, Picking, Picks
<1>2. Picking(upTo, S)
  BY PickingExists
<1>3. PICK f : f = upTo
  OBVIOUS
<1> DEFINE T == {n \in Nat : \A d \in f[n] : Full(S, n, d)}
<1>4. f[0] = {{}} /\ \A n \in 1 .. NumGroups : f[n] = Picks(S, n, f[n - 1])
  <2>1. Picking(f, S)
    BY <1>2, <1>3
  <2>2. \A n \in 0 .. NumGroups : f[n] = IF n = 0 THEN {{}} ELSE Picks(S, n, f[n - 1])
    BY <2>1, Zenon DEF Picking
  <2>3. QED
    BY <2>2
<1>5. 0 \in T
  <2>1. S \cap (1 .. 0) = {}
    OBVIOUS
  <2>2. Full(S, 0, {})
    BY <2>1, FS_EmptySet, RepCutAssumption DEF Full
  <2>3. QED
    BY <1>3, <1>4, <2>2
<1>6. ASSUME NEW n \in 0 .. NumGroups - 1, n \in T PROVE n + 1 \in T
  <2>1. n \in Nat /\ n + 1 \in 1 .. NumGroups /\ n + 1 - 1 = n
    OBVIOUS
  <2>2. PICK E : E = f[n]
    OBVIOUS
  <2>3. f[n + 1] = Picks(S, n + 1, E)
    BY <1>4, <2>1, <2>2
  <2>4. \A d \in E : Full(S, n, d)
    BY <1>3, <1>6, <2>2
  <2>5. \A d \in Picks(S, n + 1, E) : Full(S, n + 1, d)
    BY <2>1, <2>4, PicksFull
  <2>6. \A d \in f[n + 1] : Full(S, n + 1, d)
    BY <2>3, <2>5
  <2>7. QED
    BY <2>1, <2>6
<1>7. NumGroups \in T
  <2>1. \A n \in 0 .. NumGroups : n \in T
    <3> HIDE DEF T
    <3> QED BY <1>5, <1>6, IntervalInduction
  <2>2. NumGroups \in 0 .. NumGroups
    OBVIOUS
  <2>3. QED
    BY <2>1, <2>2
<1>8. Full(S, NumGroups, e)
  BY <1>1, <1>3, <1>7
<1>9. S \cap (1 .. NumGroups) = S
  OBVIOUS
<1>10. QED
  BY <1>8, <1>9 DEF Full

-----------------------------------------------------------------------------
(* The hypergraph.                                                         *)

\* Swept through, a pin has its users, and no one else where that is promised.
LEMMA SweptIsExact ==
  ASSUME Dividing, step # "idle", block = NumBlocks, ahead = {}, NEW p \in Pins
  PROVE  /\ Users(p) \subseteq SetOf(p)
         /\ Charged /\ p \notin sub.inputs => SetOf(p) = Users(p)
<1>1. design \in Designs /\ Divided
  BY DEF Dividing, TypeOK
<1>2. PICK n \in Nat : n = block /\ n = NumBlocks
  BY DEF Dividing, Sweeps
<1>3. DOMAIN segments = 1 .. n /\ \A b \in 1 .. n : Swept(b, {})
  BY <1>2 DEF Dividing, Sweeps, Swept
<1>4. ASSUME NEW g \in Users(p) PROVE g \in SetOf(p)
  <2>1. g \in 1 .. NumGroups
    BY DEF Users
  <2>2. PICK b \in 1 .. n : g \in GroupsOf(b)
    BY <1>1, <1>2, <2>1, BlocksCover
  <2>3. PICK seg : seg = segments[b]
    OBVIOUS
  <2>4. /\ BlockOrder(b) \subseteq Pins
        /\ GroupNeeds(g) \subseteq BlockOrder(b)
        /\ \A r \in BlockOrder(b) \ sub.inputs : FaninOf(design, r) \subseteq BlockOrder(b)
    BY <1>1, <2>2, BlockOrderIs
  <2>5. /\ \A q \in BlockOrder(b) : ReadBy(b, q) \subseteq seg[q]
        /\ \A r \in BlockOrder(b) \ sub.inputs : \A q \in FaninOf(design, r) : seg[r] \subseteq seg[q]
    <3>1. Swept(b, {})
      BY <1>3
    <3>2. QED
      BY <2>3, <2>4, <3>1 DEF Swept
  <2>6. PICK stop \in SUBSET Pins : stop = sub.inputs
    BY <1>1 DEF Divided
  <2>7. PICK start \in SUBSET Pins : start = GroupNeeds(g)
    BY <1>1, <2>1, GroupIs
  <2>8. PICK S \in SUBSET Pins : S = {q \in BlockOrder(b) : g \in seg[q]}
    BY <2>4
  <2>9. start \subseteq S
    BY <2>2, <2>4, <2>5, <2>7, <2>8 DEF ReadBy
  <2>10. \A r \in S \ stop : FaninOf(design, r) \subseteq S
    BY <2>4, <2>5, <2>6, <2>8
  <2>11. Cone(design, start, stop) \subseteq S
    BY <1>1, <2>9, <2>10, ConeIsLeast
  <2>12. p \in Cone(design, start, stop)
    BY <2>6, <2>7 DEF Users
  <2>13. g \in segments[b][p]
    BY <2>3, <2>8, <2>11, <2>12
  <2>14. QED
    BY <1>3, <2>13 DEF SetOf
<1>5. ASSUME Charged, p \notin sub.inputs, NEW g \in SetOf(p) PROVE g \in Users(p)
  <2>1. PICK b \in 1 .. n : g \in segments[b][p]
    BY <1>3 DEF SetOf
  <2>2. Swept(b, {})
    BY <1>3
  <2>3. QED
    BY <1>5, <2>1, <2>2 DEF Swept
<1>6. QED
  BY <1>4, <1>5

\* The edges are the sets that two groups or more share, each with the number
\* of pins it is the set of.
Clustered ==
  step \in {"edges", "done"} =>
    clusters = [S \in Shared(CountedPins(last)) |->
                  Cardinality({p \in CountedPins(last) : SetOf(p) = S})]

Edged ==
  step = "done" =>
    /\ \A e \in edges : \E S \in DOMAIN clusters : e[1] = S /\ e[2] = clusters[S] /\ e[3] \in Samples(S)
    /\ \A S \in DOMAIN clusters : \E e \in edges : e[1] = S

RepInductive == Inductive /\ Cut /\ Fed /\ Divided /\ Sweeps /\ Clustered /\ Edged

LEMMA SameClusters ==
  ASSUME Clustered, Edged, UNCHANGED <<sub, last, segments, clusters, edges>>,
         step' = "edges" => step = "edges", step' = "done" => step = "done"
  PROVE  Clustered' /\ Edged'
<1>1. \A p : SetOf(p)' = SetOf(p)
  BY DEF SetOf
<1>2. CountedPins(last)' = CountedPins(last)
  BY DEF CountedPins
<1>3. Shared(CountedPins(last))' = Shared(CountedPins(last))
  BY <1>1, <1>2 DEF Shared
<1>4. \A S : Samples(S)' = Samples(S)
  BY DEF Samples, NumGroups
<1>5. Clustered'
  BY <1>1, <1>2, <1>3 DEF Clustered
<1>6. Edged'
  BY <1>4 DEF Edged
<1>7. QED
  BY <1>5, <1>6

LEMMA RepKept == RepInductive /\ [NextRC]_<<vars, rcvars>> => Divided' /\ Sweeps' /\ Clustered' /\ Edged'
<1> SUFFICES ASSUME RepInductive, [NextRC]_<<vars, rcvars>>
             PROVE  Divided' /\ Sweeps' /\ Clustered' /\ Edged'
  OBVIOUS
<1>1. Dividing /\ TypeOK /\ Clustered /\ Edged
  BY DEF RepInductive, Dividing, Inductive
<1>2. CASE StageNext
  <2>1. Divided' /\ Sweeps'
    BY <1>1, <1>2, StageNextDivides DEF Dividing
  <2>2. UNCHANGED <<step, sub, last, segments, clusters, edges>>
    BY <1>2 DEF StageNext, rcvars
  <2>3. QED
    BY <1>1, <2>1, <2>2, SameClusters
<1>3. ASSUME NEW k \in DOMAIN stageds, NEW pins \in SUBSET stageds[k].pins,
             NEW endpoints \in SUBSET stageds[k].endpoints, Divide(k, pins, endpoints)
      PROVE  Divided' /\ Sweeps' /\ Clustered' /\ Edged'
  <2>1. Divided' /\ Sweeps'
    BY <1>1, <1>3, DivideDivides
  <2>2. step' = "sweep"
    BY <1>3 DEF Divide
  <2>3. QED
    BY <2>1, <2>2 DEF Clustered, Edged
<1>4. CASE NextBlock
  <2>1. Divided' /\ Sweeps'
    BY <1>1, <1>4, NextBlockSweeps
  <2>2. step' = "sweep"
    BY <1>4 DEF NextBlock
  <2>3. QED
    BY <2>1, <2>2 DEF Clustered, Edged
<1>5. ASSUME NEW p \in Pins, Sweep(p) PROVE Divided' /\ Sweeps' /\ Clustered' /\ Edged'
  <2>1. Divided' /\ Sweeps'
    BY <1>1, <1>5, SweepSweeps
  <2>2. step' = "sweep"
    BY <1>5 DEF Sweep
  <2>3. QED
    BY <2>1, <2>2 DEF Clustered, Edged
<1>6. ASSUME NEW p \in Pins, Cluster(p) PROVE Divided' /\ Sweeps' /\ Clustered' /\ Edged'
  <2>1. /\ step = "sweep" /\ step' = "edges" /\ ahead = {} /\ block = NumBlocks /\ last' = p
        /\ UNCHANGED <<pc, design, stageds, sub, block, ahead, segments>>
        /\ clusters' = [S \in Shared(CountedPins(p)) |-> Cardinality({q \in CountedPins(p) : SetOf(q) = S})]
    BY <1>6 DEF Cluster, vars
  <2>2. Divided' /\ Sweeps'
    BY <1>1, <2>1, SameSweeps
  <2>3. \A q : SetOf(q)' = SetOf(q)
    BY <2>1 DEF SetOf
  <2>4. CountedPins(last)' = CountedPins(p)
    BY <2>1 DEF CountedPins
  <2>5. Shared(CountedPins(last))' = Shared(CountedPins(p))
    BY <2>3, <2>4 DEF Shared
  <2>6. QED
    BY <2>1, <2>2, <2>3, <2>4, <2>5 DEF Clustered, Edged
<1>7. CASE ToEdges
  <2>1. /\ step = "edges" /\ step' = "done"
        /\ UNCHANGED <<pc, design, stageds, sub, block, ahead, segments, last, clusters>>
    BY <1>7 DEF ToEdges, vars
  <2>2. PICK pick : /\ \A S \in DOMAIN clusters : pick[S] \in Samples(S)
                    /\ edges' = {<<S, clusters[S], pick[S]>> : S \in DOMAIN clusters}
    BY <1>7 DEF ToEdges
  <2>3. Divided' /\ Sweeps'
    BY <1>1, <2>1, SameSweeps DEF Dividing, Sweeps
  <2>4. \A p : SetOf(p)' = SetOf(p)
    BY <2>1 DEF SetOf
  <2>5. CountedPins(last)' = CountedPins(last)
    BY <2>1 DEF CountedPins
  <2>6. Shared(CountedPins(last))' = Shared(CountedPins(last))
    BY <2>4, <2>5 DEF Shared
  <2>7. \A S : Samples(S)' = Samples(S)
    BY <2>1 DEF Samples, NumGroups
  <2>8. Clustered'
    BY <1>1, <2>1, <2>4, <2>5, <2>6 DEF Clustered
  <2>9. Edged'
    <3>1. \A S \in DOMAIN clusters : <<S, clusters[S], pick[S]>> \in edges'
      BY <2>2
    <3>2. ASSUME NEW e \in edges'
          PROVE  \E S \in DOMAIN clusters : e[1] = S /\ e[2] = clusters[S] /\ e[3] \in Samples(S)
      <4>1. PICK S \in DOMAIN clusters : e = <<S, clusters[S], pick[S]>>
        BY <2>2, <3>2
      <4>2. QED
        BY <2>2, <4>1
    <3>3. \A S \in DOMAIN clusters : \E e \in edges' : e[1] = S
      BY <3>1
    <3>4. QED
      BY <2>1, <2>7, <3>2, <3>3 DEF Edged
  <2>10. QED
    BY <2>3, <2>8, <2>9
<1>8. CASE UNCHANGED <<vars, rcvars>>
  <2>1. UNCHANGED <<pc, design, stageds, step, sub, last, block, ahead, segments, clusters, edges>>
    BY <1>8 DEF vars, rcvars
  <2>2. Clustered' /\ Edged'
    BY <1>1, <2>1, SameClusters
  <2>3. CASE step = "idle"
    BY <1>1, <2>1, <2>2, <2>3 DEF Dividing, Divided, Sweeps
  <2>4. CASE step # "idle"
    <3>1. Divided' /\ Sweeps'
      BY <1>1, <2>1, <2>4, SameSweeps DEF Dividing, Sweeps
    <3>2. QED
      BY <2>2, <3>1
  <2>5. QED
    BY <2>3, <2>4
<1>9. QED
  BY <1>2, <1>3, <1>4, <1>5, <1>6, <1>7, <1>8 DEF NextRC

\* While the groups of a stage are divided the stages are what they were.
LEMMA SpecStages == SpecRC => Spec
<1>1. InitRC => Init
  BY DEF InitRC
<1>2. [NextRC]_<<vars, rcvars>> => [Next]_vars
  BY DEF NextRC, StageNext, Divide, NextBlock, Sweep, Cluster, ToEdges
<1>3. QED
  BY <1>1, <1>2, PTL DEF SpecRC, Spec

\* Every step of the sweep, and of the stages before it, keeps what it has found.
THEOREM RepInductiveHolds == SpecRC => []RepInductive
<1>1. InitRC => Fed /\ Divided /\ Sweeps /\ Clustered /\ Edged
  BY InitFed, DividingInit DEF InitRC, Clustered, Edged
<1>2. Inductive /\ Cut /\ Fed /\ [Next]_vars => Fed'
  BY FedKept
<1>3. [NextRC]_<<vars, rcvars>> => [Next]_vars
  BY DEF NextRC, StageNext, Divide, NextBlock, Sweep, Cluster, ToEdges
<1>4. RepInductive /\ [NextRC]_<<vars, rcvars>> => Divided' /\ Sweeps' /\ Clustered' /\ Edged'
  BY RepKept
<1>5. RepInductive <=> (Inductive /\ Cut) /\ Fed /\ Divided /\ Sweeps /\ Clustered /\ Edged
  BY DEF RepInductive
<1>6. SpecRC => [](Inductive /\ Cut)
  BY SpecStages, CutHolds, PTL
<1>7. QED
  BY <1>1, <1>2, <1>3, <1>4, <1>5, <1>6, PTL DEF SpecRC

\* Where the promise is exact the edges weigh what groups share (repcut.rs:57-226).
LEMMA EdgesExact ==
  ASSUME RepInductive
  PROVE  EdgesWeighed
<1> SUFFICES ASSUME step = "done", sub.inputs = {}
             PROVE  /\ \A e \in edges :
                        /\ Cardinality(e[3]) = IF Cardinality(e[1]) > EdgeLimit THEN EdgeLimit ELSE Cardinality(e[1])
                        /\ e[3] \subseteq e[1]
                        /\ e[2] = Cardinality({p \in CountedPins(last) : Users(p) = e[1]})
                    /\ \A p \in CountedPins(last) : Cardinality(Users(p)) >= 2 => \E e \in edges : e[1] = Users(p)
  BY DEF EdgesWeighed
<1>1. Dividing /\ block = NumBlocks /\ ahead = {} /\ Charged /\ NumGroups \in Nat
  <2>1. Dividing /\ Divided
    BY DEF RepInductive, Dividing, Inductive
  <2>2. NumGroups \in Nat
    BY <2>1, CountIs
  <2>3. QED
    BY <2>1, <2>2 DEF Dividing, Sweeps, Charged
<1>2. PICK P \in SUBSET Pins : P = CountedPins(last)
  BY DEF CountedPins
<1>3. \A p \in P : SetOf(p) = Users(p) /\ Users(p) \in SUBSET (1 .. NumGroups)
  BY <1>1, SweptIsExact DEF Users
<1>4. clusters = [S \in Shared(P) |-> Cardinality({p \in P : SetOf(p) = S})]
  BY <1>2 DEF RepInductive, Clustered
<1>5. \A S : S \in Shared(P) <=> Cardinality(S) >= 2 /\ \E p \in P : S = SetOf(p)
  BY DEF Shared
<1>6. /\ \A e \in edges : \E S \in Shared(P) : e[1] = S /\ e[2] = clusters[S] /\ e[3] \in Samples(S)
      /\ \A S \in Shared(P) : \E e \in edges : e[1] = S
  BY <1>4 DEF RepInductive, Edged
<1>7. \A S : {p \in P : SetOf(p) = S} = {p \in P : Users(p) = S}
  BY <1>3
<1>8. ASSUME NEW e \in edges
      PROVE  /\ Cardinality(e[3]) = IF Cardinality(e[1]) > EdgeLimit THEN EdgeLimit ELSE Cardinality(e[1])
             /\ e[3] \subseteq e[1]
             /\ e[2] = Cardinality({p \in P : Users(p) = e[1]})
  <2>1. PICK S \in Shared(P) : e[1] = S /\ e[2] = clusters[S] /\ e[3] \in Samples(S)
    BY <1>6
  <2>2. S \in SUBSET (1 .. NumGroups)
    BY <1>3, <1>5, <2>1
  <2>3. PICK d : d = e[3]
    OBVIOUS
  <2>4. d \subseteq S /\ Cardinality(d) = IF Cardinality(S) > EdgeLimit THEN EdgeLimit ELSE Cardinality(S)
    BY <1>1, <2>1, <2>2, <2>3, SamplesFull
  <2>5. clusters[S] = Cardinality({p \in P : Users(p) = S})
    BY <1>4, <1>7, <2>1
  <2>6. QED
    BY <2>1, <2>3, <2>4, <2>5
<1>9. ASSUME NEW p \in P, Cardinality(Users(p)) >= 2 PROVE \E e \in edges : e[1] = Users(p)
  <2>1. Users(p) \in Shared(P)
    BY <1>3, <1>5, <1>9
  <2>2. QED
    BY <1>6, <2>1
<1>10. QED
  BY <1>2, <1>8, <1>9

\* The hypergraph weighs what groups share: a pin a stage computes is charged
\* to exactly the groups whose logic it is part of, and an edge weighs the pins
\* that exactly its groups share, whichever groups of a stage are divided and in
\* whatever order their logic is swept (repcut.rs:57-226).
THEOREM HypergraphIsExact == SpecRC => []HypergraphExact
<1>1. RepInductive => HypergraphExact
  <2> SUFFICES ASSUME RepInductive PROVE SegmentsExact /\ EdgesWeighed
    BY DEF HypergraphExact
  <2>1. SegmentsExact
    <3> SUFFICES ASSUME step = "edges", NEW p \in Pins
                 PROVE  /\ Users(p) \subseteq SetOf(p)
                        /\ p \notin sub.inputs /\ design.macros = {} => SetOf(p) = Users(p)
      BY DEF SegmentsExact
    <3>1. Dividing /\ block = NumBlocks /\ ahead = {}
      BY DEF RepInductive, Dividing, Inductive, Sweeps
    <3>2. design.macros = {} => Charged
      BY DEF Charged
    <3>3. QED
      BY <3>1, <3>2, SweptIsExact
  <2>2. EdgesWeighed
    BY EdgesExact
  <2>3. QED
    BY <2>1, <2>2
<1>2. QED
  BY <1>1, RepInductiveHolds, PTL

=============================================================================
