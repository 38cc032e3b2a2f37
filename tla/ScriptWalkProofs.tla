-------------------------- MODULE ScriptWalkProofs --------------------------
(***************************************************************************)
(* Theorems about ScriptWalk, for every set of partitions a block may have *)
(* and any number of them: both readers come through the script, and the   *)
(* kernel takes everything at its place unless a partition has a macro     *)
(* phase in front of its first stage behind rounds of its global read.     *)
(***************************************************************************)
EXTENDS ScriptWalk, Induction, FiniteSetTheorems, SequenceTheorems, TLAPS

-----------------------------------------------------------------------------
(* The phases that are due.                                                *)

Partitions == [stages : Nat \ {0}, phases : Seq(Nat), rounds : Nat]

\* Due, of the partition x when h of its phases are behind.
DueAt(x, h, s) ==
  Cardinality({i \in h + 1 .. Len(x.phases) : \A j \in h + 1 .. i : x.phases[j] = s})

\* d phases come after s stages, and the one behind them does not.
Counts(x, h, s, d) ==
  /\ d \in Nat
  /\ h + d <= Len(x.phases)
  /\ \A j \in h + 1 .. h + d : x.phases[j] = s
  /\ h + d < Len(x.phases) => x.phases[h + d + 1] # s

LEMMA CountExists ==
  ASSUME NEW x \in Partitions, NEW h \in 0 .. Len(x.phases), NEW s \in Nat
  PROVE  \E d : Counts(x, h, s, d)
<1> DEFINE F == Len(x.phases)
           T == {i \in h .. F : i < F => x.phases[i + 1] # s}
<1>1. F \in Nat /\ x.phases \in Seq(Nat)
  BY DEF Partitions
<1>2. T \in SUBSET Nat /\ F \in T
  BY <1>1
<1>3. PICK n \in T : \A m \in T : n <= m
  <2> HIDE DEF T
  <2> QED BY <1>2, LeastNumber
<1>4. \A j \in h + 1 .. n : x.phases[j] = s
  <2> SUFFICES ASSUME NEW j \in h + 1 .. n PROVE x.phases[j] = s
    OBVIOUS
  <2>1. j - 1 \in h .. F /\ j - 1 < F /\ ~(n <= j - 1) /\ (j - 1) + 1 = j
    BY <1>1, <1>3
  <2>2. j - 1 \notin T
    BY <2>1, <1>3
  <2>3. QED
    BY <2>1, <2>2
<1>5. Counts(x, h, s, n - h)
  BY <1>1, <1>3, <1>4 DEF Counts
<1>6. QED
  BY <1>5

LEMMA CountIsDue ==
  ASSUME NEW x \in Partitions, NEW h \in 0 .. Len(x.phases), NEW s \in Nat,
         NEW d, Counts(x, h, s, d)
  PROVE  DueAt(x, h, s) = d
<1>1. Len(x.phases) \in Nat /\ d \in Nat
  BY DEF Partitions, Counts
<1>2. {i \in h + 1 .. Len(x.phases) : \A j \in h + 1 .. i : x.phases[j] = s} = h + 1 .. h + d
  BY <1>1 DEF Counts
<1>3. Cardinality(h + 1 .. h + d) = d
  BY <1>1, FS_Interval
<1>4. QED
  BY <1>2, <1>3 DEF DueAt

LEMMA DueCounts ==
  ASSUME NEW x \in Partitions, NEW h \in 0 .. Len(x.phases), NEW s \in Nat
  PROVE  Counts(x, h, s, DueAt(x, h, s))
BY CountExists, CountIsDue

\* Past i of the phases that are due, that many fewer are.
LEMMA DuePast ==
  ASSUME NEW x \in Partitions, NEW h \in 0 .. Len(x.phases), NEW s \in Nat,
         NEW i \in 0 .. DueAt(x, h, s)
  PROVE  /\ h + i \in 0 .. Len(x.phases)
         /\ DueAt(x, h + i, s) = DueAt(x, h, s) - i
<1> DEFINE d == DueAt(x, h, s)
<1>1. Counts(x, h, s, d) /\ Len(x.phases) \in Nat
  BY DueCounts DEF Partitions
<1>2. h + i \in 0 .. Len(x.phases) /\ Counts(x, h + i, s, d - i)
  BY <1>1 DEF Counts
<1>3. QED
  BY <1>2, CountIsDue

-----------------------------------------------------------------------------
(* The trail of a script: where whoever goes through it one section at a   *)
(* time stands in front of each section and behind the last.  A reader is  *)
(* right if it stands where the trail does.                                *)

Kinds == {"meta", "read", "phase", "stage", "sram", "clken"}

Sections == [kind : Kinds, at : Nat, len : Nat]

Stands == [at : Nat, walk : {"header", "reads", "clken", "end"},
           p : Nat, bs : Nat, ph : Nat, gr : Nat]

Stand(a, w, q, m, h, g) == [at |-> a, walk |-> w, p |-> q, bs |-> m, ph |-> h, gr |-> g]

Start == Stand(0, "header", 1, 0, 0, 0)

\* What is where one can stand within the block b.
Within(b, c) ==
  /\ c.walk = "header" => c.bs = 0 /\ c.ph = 0 /\ c.gr = 0
  /\ (c.walk = "header" /\ b # << >>) \/ c.walk \in {"reads", "clken"} => c.p \in 1 .. Len(b)
  /\ (c.walk = "header" /\ b = << >>) \/ c.walk = "end" => c.p = 1
  /\ c.walk = "reads" =>
       /\ c.bs <= b[c.p].stages
       /\ c.ph <= Len(b[c.p].phases)
       /\ c.gr <= b[c.p].rounds
       /\ c.bs > 0 \/ c.ph > 0 => c.gr = b[c.p].rounds

DueOf(b, c) == DueAt(b[c.p], c.ph, c.bs)

PastHeader(b, c, s, d) ==
  /\ c.walk = "header"
  /\ s.kind = "meta" /\ s.len = MetaWords
  /\ d = Stand(c.at + MetaWords, IF b = << >> THEN "end" ELSE "reads", c.p, c.bs, c.ph, c.gr)

PastRound(b, c, s, d) ==
  /\ c.walk = "reads" /\ c.gr < b[c.p].rounds
  /\ s.kind = "read" /\ s.len = RoundWords
  /\ d = Stand(c.at + RoundWords, "reads", c.p, c.bs, c.ph, c.gr + 1)

PastPhase(b, c, s, d) ==
  /\ c.walk = "reads" /\ c.gr = b[c.p].rounds /\ DueOf(b, c) > 0
  /\ s.kind = "phase" /\ s.len = PhaseWords
  /\ d = Stand(c.at + PhaseWords, "reads", c.p, c.bs, c.ph + 1, c.gr)

PastStage(b, c, s, d) ==
  /\ c.walk = "reads" /\ c.gr = b[c.p].rounds /\ DueOf(b, c) = 0 /\ c.bs < b[c.p].stages
  /\ s.kind = "stage" /\ s.len = StageWords
  /\ d = Stand(c.at + StageWords, "reads", c.p, c.bs + 1, c.ph, c.gr)

PastSram(b, c, s, d) ==
  /\ c.walk = "reads" /\ c.gr = b[c.p].rounds
  /\ c.bs = b[c.p].stages /\ c.ph = Len(b[c.p].phases)
  /\ s.kind = "sram" /\ s.len = StageWords
  /\ d = Stand(c.at + StageWords, "clken", c.p, c.bs, c.ph, c.gr)

PastClken(b, c, s, d) ==
  /\ c.walk = "clken"
  /\ s.kind = "clken" /\ s.len = StageWords
  /\ d = IF c.p = Len(b) THEN Stand(c.at + StageWords, "end", 1, 0, 0, 0)
           ELSE Stand(c.at + StageWords, "header", c.p + 1, 0, 0, 0)

\* From c past the section s to d.
Past(b, c, s, d) ==
  /\ s.at = c.at
  /\ \/ PastHeader(b, c, s, d) \/ PastRound(b, c, s, d) \/ PastPhase(b, c, s, d)
     \/ PastStage(b, c, s, d) \/ PastSram(b, c, s, d) \/ PastClken(b, c, s, d)

\* st is the trail of the script t of the block b.
Trail(b, t, st) ==
  /\ t \in Seq(Sections)
  /\ st \in [1 .. Len(t) + 1 -> Stands]
  /\ st[1] = Start
  /\ \A n \in 1 .. Len(t) + 1 : Within(b, st[n]) /\ st[n].at <= st[Len(t) + 1].at
  /\ \A n \in 1 .. Len(t) : Past(b, st[n], t[n], st[n + 1])

SizeOf(t) == IF t = << >> THEN 0 ELSE Last(t).at + Last(t).len

LEMMA StandIs ==
  ASSUME NEW a, NEW w, NEW q, NEW m, NEW h, NEW g
  PROVE  LET c == Stand(a, w, q, m, h, g)
         IN /\ c.at = a /\ c.walk = w /\ c.p = q /\ c.bs = m /\ c.ph = h /\ c.gr = g
            /\ a \in Nat /\ w \in {"header", "reads", "clken", "end"} /\ q \in Nat
               /\ m \in Nat /\ h \in Nat /\ g \in Nat => c \in Stands
BY DEF Stand, Stands

LEMMA StandsAre ==
  ASSUME NEW c \in Stands
  PROVE  /\ c.at \in Nat /\ c.walk \in {"header", "reads", "clken", "end"} /\ c.p \in Nat
         /\ c.bs \in Nat /\ c.ph \in Nat /\ c.gr \in Nat
         /\ c = Stand(c.at, c.walk, c.p, c.bs, c.ph, c.gr)
BY DEF Stand, Stands

LEMMA PartIs ==
  ASSUME NEW b \in Seq(Partitions), NEW q \in 1 .. Len(b)
  PROVE  /\ b[q] \in Partitions
         /\ b[q].stages \in Nat \ {0} /\ b[q].rounds \in Nat
         /\ b[q].phases \in Seq(Nat) /\ Len(b[q].phases) \in Nat
<1>1. b[q] \in Partitions
  OBVIOUS
<1>2. QED
  BY <1>1 DEF Partitions

LEMMA WordsAreNat ==
  /\ MetaWords \in Nat /\ RoundWords \in Nat /\ PhaseWords \in Nat /\ StageWords \in Nat
  /\ Padding \in Nat /\ RoundWords <= Padding
BY DEF MetaWords, RoundWords, PhaseWords, StageWords, Padding

LEMMA Further ==
  ASSUME NEW a \in Nat
  PROVE  /\ a + MetaWords \in Nat /\ a + RoundWords \in Nat
         /\ a + PhaseWords \in Nat /\ a + StageWords \in Nat
<1>1. \A w \in Nat : a + w \in Nat
  OBVIOUS
<1>2. QED
  BY <1>1, WordsAreNat

LEMMA InRange ==
  ASSUME NEW x \in Nat, NEW y \in Nat
  PROVE  /\ x <= y => x \in 0 .. y
         /\ x < y => x + 1 \in 0 .. y
OBVIOUS

LEMMA PastLen ==
  ASSUME NEW b, NEW c, NEW s, NEW d, Past(b, c, s, d)
  PROVE  d.at = c.at + s.len
<1>1. CASE PastClken(b, c, s, d)
  BY <1>1, StandIs DEF PastClken
<1>2. CASE ~PastClken(b, c, s, d)
  BY <1>2, StandIs DEF Past, PastHeader, PastRound, PastPhase, PastStage, PastSram
<1>3. QED
  BY <1>1, <1>2

LEMMA TrailSize ==
  ASSUME NEW b, NEW t, NEW st, Trail(b, t, st)
  PROVE  SizeOf(t) = st[Len(t) + 1].at
<1>1. CASE t = << >>
  <2>1. Len(t) + 1 = 1 /\ st[1] = Start /\ SizeOf(t) = 0
    BY <1>1 DEF Trail, SizeOf
  <2>2. QED
    BY <2>1, StandIs DEF Start
<1>2. CASE t # << >>
  <2>1. Len(t) \in 1 .. Len(t) /\ Last(t) = t[Len(t)] /\ t[Len(t)] \in Sections
    BY <1>2 DEF Trail, Last
  <2>2. st[Len(t)] \in Stands /\ Past(b, st[Len(t)], t[Len(t)], st[Len(t) + 1])
    BY <2>1 DEF Trail
  <2>3. QED
    BY <1>2, <2>1, <2>2, PastLen DEF SizeOf, Past
<1>3. QED
  BY <1>1, <1>2

LEMMA ReadsWithin ==
  ASSUME NEW b \in Seq(Partitions), NEW a \in Nat, NEW q \in 1 .. Len(b),
         NEW m \in 0 .. b[q].stages, NEW h \in 0 .. Len(b[q].phases), NEW g \in 0 .. b[q].rounds,
         m > 0 \/ h > 0 => g = b[q].rounds
  PROVE  Stand(a, "reads", q, m, h, g) \in Stands /\ Within(b, Stand(a, "reads", q, m, h, g))
<1> DEFINE c == Stand(a, "reads", q, m, h, g)
<1>1. /\ c.walk = "reads" /\ c.p = q /\ c.bs = m /\ c.ph = h /\ c.gr = g
      /\ c \in Stands
  <2>1. m \in Nat /\ h \in Nat /\ g \in Nat /\ q \in Nat
    BY PartIs
  <2>2. QED
    BY <2>1, StandIs
<1> HIDE DEF c
<1>2. Within(b, c)
  BY <1>1, PartIs DEF Within
<1>3. QED
  BY <1>1, <1>2 DEF c

\* Where one stands behind a section is in range.
LEMMA PastWithin ==
  ASSUME NEW b \in Seq(Partitions), NEW c \in Stands, NEW s, NEW d,
         Within(b, c), Past(b, c, s, d)
  PROVE  d \in Stands /\ Within(b, d)
<1>1. CASE PastHeader(b, c, s, d)
  <2>1. c.walk = "header" /\ d = Stand(c.at + MetaWords, IF b = << >> THEN "end" ELSE "reads", c.p, 0, 0, 0)
    BY <1>1 DEF PastHeader, Within
  <2>2. CASE b = << >>
    BY <2>1, <2>2, StandIs, StandsAre, WordsAreNat DEF Within
  <2>3. CASE b # << >>
    <3>1. c.p \in 1 .. Len(b)
      BY <2>1, <2>3 DEF Within
    <3>2. QED
      BY <2>1, <2>3, <3>1, PartIs, StandIs, StandsAre, WordsAreNat DEF Within
  <2>4. QED
    BY <2>2, <2>3
<1>2. CASE c.walk = "reads"
  <2>1. /\ c.p \in 1 .. Len(b) /\ c.bs <= b[c.p].stages /\ c.ph <= Len(b[c.p].phases)
        /\ c.gr <= b[c.p].rounds
        /\ c.bs > 0 \/ c.ph > 0 => c.gr = b[c.p].rounds
    BY <1>2 DEF Within
  <2>7. /\ c.at \in Nat /\ c.bs \in Nat /\ c.ph \in Nat /\ c.gr \in Nat /\ c.p \in Nat
        /\ b[c.p].stages \in Nat /\ b[c.p].rounds \in Nat /\ Len(b[c.p].phases) \in Nat
    BY <2>1, PartIs, StandsAre
  <2>2. CASE PastRound(b, c, s, d)
    <3>1. c.at + RoundWords \in Nat /\ c.gr + 1 \in 0 .. b[c.p].rounds /\ c.bs = 0 /\ c.ph = 0
      <4>1. c.gr < b[c.p].rounds /\ c.gr \in Nat /\ c.bs \in Nat /\ c.ph \in Nat /\ c.at \in Nat
        BY <2>2, StandsAre DEF PastRound
      <4>2. b[c.p].rounds \in Nat
        BY <2>1, PartIs
      <4>3. c.bs = 0 /\ c.ph = 0
        <5>1. ~ (c.bs > 0 \/ c.ph > 0)
          BY <4>1, <4>2, <2>1
        <5>2. QED
          BY <5>1, <4>1
      <4>4. QED
        <5>1. c.at + RoundWords \in Nat
          BY <4>1, Further
        <5>2. c.gr + 1 \in 0 .. b[c.p].rounds
          BY <4>1, <4>2, InRange
        <5>3. QED
          BY <5>1, <5>2, <4>3
    <3>0. 0 \in 0 .. b[c.p].stages /\ 0 \in 0 .. Len(b[c.p].phases)
      BY <2>1, PartIs
    <3>2. d = Stand(c.at + RoundWords, "reads", c.p, 0, 0, c.gr + 1)
      BY <2>2, <3>1 DEF PastRound
    <3>3. QED
      BY <2>1, <3>1, <3>2, <3>0, ReadsWithin
  <2>3. CASE PastPhase(b, c, s, d)
    <3>1. c.ph + 1 <= Len(b[c.p].phases)
      <4>1. b[c.p] \in Partitions /\ c.ph \in 0 .. Len(b[c.p].phases) /\ c.bs \in Nat
        BY <2>1, PartIs, StandsAre
      <4>2. Counts(b[c.p], c.ph, c.bs, DueOf(b, c))
        BY <4>1, DueCounts DEF DueOf
      <4>3. QED
        BY <4>1, <4>2, <2>1, PartIs, <2>3 DEF PastPhase, Counts
    <3>2. QED
      <4>0. c.gr = b[c.p].rounds
        BY <2>3 DEF PastPhase
      <4>1. c.at + PhaseWords \in Nat /\ c.ph + 1 \in 0 .. Len(b[c.p].phases) /\ c.bs \in 0 .. b[c.p].stages
            /\ c.gr = b[c.p].rounds /\ c.gr \in 0 .. b[c.p].rounds
        <5>1. c.at + PhaseWords \in Nat
          BY <2>7, Further
        <5>2. c.ph + 1 \in 0 .. Len(b[c.p].phases)
          BY <3>1, <2>7
        <5>3. c.bs \in 0 .. b[c.p].stages /\ c.gr \in 0 .. b[c.p].rounds
          BY <2>1, <2>7, InRange
        <5>4. QED
          BY <5>1, <5>2, <5>3, <4>0
      <4>2. d = Stand(c.at + PhaseWords, "reads", c.p, c.bs, c.ph + 1, c.gr)
        BY <2>3 DEF PastPhase
      <4>3. QED
        BY <2>1, <4>1, <4>2, ReadsWithin
  <2>4. CASE PastStage(b, c, s, d)
    <3>1. c.at + StageWords \in Nat /\ c.bs + 1 \in 0 .. b[c.p].stages /\ c.ph \in 0 .. Len(b[c.p].phases)
          /\ c.gr = b[c.p].rounds /\ c.gr \in 0 .. b[c.p].rounds
      <4>1. c.gr = b[c.p].rounds /\ c.bs < b[c.p].stages
        BY <2>4 DEF PastStage
      <4>2. QED
        <5>1. c.at + StageWords \in Nat
          BY <2>7, Further
        <5>2. c.bs + 1 \in 0 .. b[c.p].stages
          BY <4>1, <2>7, InRange
        <5>3. c.ph \in 0 .. Len(b[c.p].phases) /\ c.gr \in 0 .. b[c.p].rounds
          BY <2>1, <2>7, InRange
        <5>4. QED
          BY <5>1, <5>2, <5>3, <4>1
    <3>2. d = Stand(c.at + StageWords, "reads", c.p, c.bs + 1, c.ph, c.gr)
      BY <2>4, <3>1 DEF PastStage
    <3>3. QED
      BY <2>1, <3>1, <3>2, ReadsWithin
  <2>5. CASE PastSram(b, c, s, d)
    <3>1. d = Stand(c.at + StageWords, "clken", c.p, c.bs, c.ph, c.gr)
      BY <2>5 DEF PastSram
    <3>2. c.at + StageWords \in Nat
      BY <2>7, Further
    <3>3. d \in Stands /\ d.walk = "clken" /\ d.p = c.p
      BY <2>7, <3>1, <3>2, StandIs
    <3>4. QED
      BY <2>1, <3>3 DEF Within
  <2>6. QED
    BY <1>2, <2>2, <2>3, <2>4, <2>5 DEF Past, PastHeader, PastClken
<1>3. CASE PastClken(b, c, s, d)
  <2>1. c.p \in 1 .. Len(b) /\ b # << >>
    BY <1>3 DEF PastClken, Within
  <2>2. QED
    <3>0. c.at \in Nat /\ c.p \in Nat
      BY StandsAre
    <3>1. c.at + StageWords \in Nat /\ Len(b) \in Nat /\ c.p \in Nat
      <4>1. Len(b) \in Nat
        OBVIOUS
      <4>2. QED
        BY <3>0, <4>1, Further
    <3>2. CASE c.p = Len(b)
      <4>1. d = Stand(c.at + StageWords, "end", 1, 0, 0, 0)
        BY <1>3, <3>2 DEF PastClken
      <4>2. d \in Stands /\ d.walk = "end" /\ d.p = 1
        BY <4>1, <3>1, StandIs
      <4>3. QED
        BY <4>2 DEF Within
    <3>3. CASE c.p # Len(b)
      <4>1. d = Stand(c.at + StageWords, "header", c.p + 1, 0, 0, 0)
        BY <1>3, <3>3 DEF PastClken
      <4>2. c.p + 1 \in 1 .. Len(b) /\ c.p + 1 \in Nat
        BY <2>1, <3>1, <3>3
      <4>3. d \in Stands /\ d.walk = "header" /\ d.p = c.p + 1 /\ d.bs = 0 /\ d.ph = 0 /\ d.gr = 0
        BY <4>1, <4>2, <3>1, StandIs
      <4>4. QED
        BY <2>1, <4>2, <4>3 DEF Within
    <3>4. QED
      BY <3>2, <3>3
<1>4. QED
  BY <1>1, <1>2, <1>3 DEF Past, PastRound, PastPhase, PastStage, PastSram

\* A trail goes on behind a section appended to the script.
LEMMA TrailExtends ==
  ASSUME NEW b \in Seq(Partitions), NEW t, NEW st, Trail(b, t, st),
         NEW s \in Sections, NEW d, Past(b, st[Len(t) + 1], s, d)
  PROVE  LET next == [n \in 1 .. Len(t) + 2 |-> IF n = Len(t) + 2 THEN d ELSE st[n]]
         IN Trail(b, Append(t, s), next) /\ next[Len(Append(t, s)) + 1] = d
<1> DEFINE next == [n \in 1 .. Len(t) + 2 |-> IF n = Len(t) + 2 THEN d ELSE st[n]]
           u == Append(t, s)
<1>1. /\ t \in Seq(Sections) /\ u \in Seq(Sections) /\ Len(u) = Len(t) + 1 /\ Len(t) \in Nat
      /\ \A n \in 1 .. Len(t) : u[n] = t[n]
      /\ u[Len(t) + 1] = s
  BY DEF Trail
<1>2. /\ st[Len(t) + 1] \in Stands /\ Within(b, st[Len(t) + 1])
      /\ d \in Stands /\ Within(b, d) /\ d.at = st[Len(t) + 1].at + s.len
      /\ s.len \in Nat /\ st[Len(t) + 1].at \in Nat
  <2>1. st[Len(t) + 1] \in Stands /\ Within(b, st[Len(t) + 1])
    BY <1>1 DEF Trail
  <2>2. QED
    BY <2>1, PastWithin, PastLen, StandsAre DEF Sections
<1>3. next \in [1 .. Len(u) + 1 -> Stands] /\ next[1] = Start /\ next[Len(u) + 1] = d
  BY <1>1, <1>2 DEF Trail
<1>4. ASSUME NEW n \in 1 .. Len(u) + 1 PROVE Within(b, next[n]) /\ next[n].at <= d.at
  <2>1. CASE n = Len(t) + 2
    BY <2>1, <1>2, <1>1, <1>3 DEF Stands
  <2>2. CASE n # Len(t) + 2
    <3>1. n \in 1 .. Len(t) + 1 /\ next[n] = st[n]
      BY <2>2, <1>1
    <3>2. st[n] \in Stands /\ Within(b, st[n]) /\ st[n].at <= st[Len(t) + 1].at /\ st[n].at \in Nat
      BY <3>1 DEF Trail, Stands
    <3>3. QED
      BY <3>1, <3>2, <1>2
  <2>3. QED
    BY <2>1, <2>2
<1>5. ASSUME NEW n \in 1 .. Len(u) PROVE Past(b, next[n], u[n], next[n + 1])
  <2>1. CASE n = Len(t) + 1
    <3>1. next[n] = st[Len(t) + 1] /\ u[n] = s /\ next[n + 1] = d
      BY <2>1, <1>1
    <3>2. QED
      BY <3>1
  <2>2. CASE n # Len(t) + 1
    <3>1. n \in 1 .. Len(t) /\ next[n] = st[n] /\ u[n] = t[n] /\ next[n + 1] = st[n + 1]
      BY <2>2, <1>1
    <3>2. Past(b, st[n], t[n], st[n + 1])
      BY <3>1 DEF Trail
    <3>3. QED
      BY <3>1, <3>2
  <2>3. QED
    BY <2>1, <2>2
<1>6. QED
  <2> HIDE DEF next, u
  <2>1. Trail(b, u, next)
    BY <1>1, <1>3, <1>4, <1>5 DEF Trail
  <2>2. QED
    BY <2>1, <1>3 DEF next, u

-----------------------------------------------------------------------------
(* Runs of sections of a kind along a trail.                               *)

\* In front of a section one stands in range and at its address.
LEMMA TrailStep ==
  ASSUME NEW b, NEW t, NEW st, Trail(b, t, st), NEW n \in 1 .. Len(t) + 1
  PROVE  /\ Len(t) \in Nat
         /\ st[n] \in Stands /\ Within(b, st[n]) /\ st[n].at <= st[Len(t) + 1].at
         /\ st[n].walk # "end" /\ st[Len(t) + 1].walk = "end" => n \in 1 .. Len(t)
         /\ n \in 1 .. Len(t) => /\ n + 1 \in 1 .. Len(t) + 1
                                 /\ t[n] \in Sections /\ t[n].at = st[n].at
                                 /\ Past(b, st[n], t[n], st[n + 1])
<1>1. Len(t) \in Nat /\ st[n] \in Stands /\ Within(b, st[n]) /\ st[n].at <= st[Len(t) + 1].at
  BY DEF Trail
<1>2. ASSUME n \in 1 .. Len(t)
      PROVE  /\ n + 1 \in 1 .. Len(t) + 1
             /\ t[n] \in Sections /\ t[n].at = st[n].at
             /\ Past(b, st[n], t[n], st[n + 1])
  BY <1>2, <1>1 DEF Trail, Past
<1>3. n # Len(t) + 1 => n \in 1 .. Len(t)
  BY <1>1
<1>4. QED
  BY <1>1, <1>2, <1>3

LEMMA Times ==
  \A i \in Int : /\ PhaseWords * i \in Int /\ RoundWords * i \in Int
                 /\ PhaseWords * (i + 1) = PhaseWords * i + PhaseWords
                 /\ RoundWords * (i + 1) = RoundWords * i + RoundWords
                 /\ PhaseWords * 0 = 0 /\ RoundWords * 0 = 0
                 /\ i >= 0 => PhaseWords * i >= 0 /\ RoundWords * i >= 0
BY DEF PhaseWords, RoundWords

LEMMA PlusAssociates == \A a, u, v \in Int : a + u + v = a + (u + v)
OBVIOUS

\* What the next section is, in the cases where the stand alone says it.
LEMMA NextIs ==
  ASSUME NEW b \in Seq(Partitions), NEW c \in Stands, NEW s, NEW d,
         Within(b, c), Past(b, c, s, d)
  PROVE  /\ c.walk = "header" => PastHeader(b, c, s, d)
         /\ c.walk = "clken" => PastClken(b, c, s, d)
         /\ c.walk = "reads" =>
              /\ c.gr < b[c.p].rounds => PastRound(b, c, s, d)
              /\ c.gr = b[c.p].rounds /\ DueOf(b, c) > 0 => PastPhase(b, c, s, d)
              /\ c.gr = b[c.p].rounds /\ DueOf(b, c) = 0 =>
                   PastStage(b, c, s, d) \/ PastSram(b, c, s, d)
              /\ DueOf(b, c) \in 0 .. Len(b[c.p].phases) - c.ph
<1>1. ASSUME c.walk = "reads" PROVE DueOf(b, c) \in 0 .. Len(b[c.p].phases) - c.ph
  <2>1. c.p \in 1 .. Len(b) /\ c.ph <= Len(b[c.p].phases) /\ c.bs \in Nat /\ c.ph \in Nat
    BY <1>1, StandsAre DEF Within
  <2>2. b[c.p] \in Partitions /\ c.ph \in 0 .. Len(b[c.p].phases) /\ Len(b[c.p].phases) \in Nat
    BY <2>1, PartIs
  <2>3. Counts(b[c.p], c.ph, c.bs, DueOf(b, c))
    BY <2>1, <2>2, DueCounts DEF DueOf
  <2>4. QED
    BY <2>1, <2>2, <2>3 DEF Counts
<1>2. ASSUME c.walk = "reads", c.gr < b[c.p].rounds PROVE PastRound(b, c, s, d)
  <2>1. c.p \in 1 .. Len(b) /\ c.gr \in Nat /\ b[c.p].rounds \in Nat
    BY <1>2, PartIs, StandsAre DEF Within
  <2>2. QED
    BY <2>1, <1>2 DEF Past, PastHeader, PastPhase, PastStage, PastSram, PastClken
<1>3. ASSUME c.walk = "reads", c.gr = b[c.p].rounds, DueOf(b, c) > 0 PROVE PastPhase(b, c, s, d)
  <2>1. c.p \in 1 .. Len(b) /\ c.ph \in Nat /\ b[c.p].rounds \in Nat /\ Len(b[c.p].phases) \in Nat
    BY <1>3, PartIs, StandsAre DEF Within
  <2>2. c.ph # Len(b[c.p].phases)
    BY <2>1, <1>1, <1>3
  <2>3. QED
    BY <2>1, <2>2, <1>3, <1>1 DEF Past, PastHeader, PastRound, PastStage, PastSram, PastClken
<1>4. ASSUME c.walk = "reads", c.gr = b[c.p].rounds, DueOf(b, c) = 0
      PROVE  PastStage(b, c, s, d) \/ PastSram(b, c, s, d)
  <2>1. c.p \in 1 .. Len(b) /\ b[c.p].rounds \in Nat
    BY <1>4, PartIs, StandsAre DEF Within
  <2>2. QED
    BY <2>1, <1>4 DEF Past, PastHeader, PastRound, PastPhase, PastClken
<1>5. /\ c.walk = "header" => PastHeader(b, c, s, d)
      /\ c.walk = "clken" => PastClken(b, c, s, d)
  BY DEF Past, PastHeader, PastRound, PastPhase, PastStage, PastSram, PastClken
<1>6. QED
  BY <1>1, <1>2, <1>3, <1>4, <1>5

\* The phases that are due follow one another.
LEMMA PhasesRun ==
  ASSUME NEW b \in Seq(Partitions), NEW t, NEW st, Trail(b, t, st), st[Len(t) + 1].walk = "end",
         NEW n \in 1 .. Len(t), st[n].walk = "reads", st[n].gr = b[st[n].p].rounds
  PROVE  \A i \in 0 .. DueOf(b, st[n]) :
           /\ n + i \in 1 .. Len(t)
           /\ st[n + i] = Stand(st[n].at + PhaseWords * i, "reads",
                                st[n].p, st[n].bs, st[n].ph + i, st[n].gr)
           /\ DueOf(b, st[n + i]) = DueOf(b, st[n]) - i
           /\ i < DueOf(b, st[n]) => t[n + i].kind = "phase"
<1> DEFINE c == st[n]
           due == DueOf(b, c)
           C(i) == Stand(c.at + PhaseWords * i, "reads", c.p, c.bs, c.ph + i, c.gr)
           T == {i \in Nat : i <= due => n + i \in 1 .. Len(t) /\ st[n + i] = C(i)}
<1>1. /\ c \in Stands /\ Within(b, c) /\ Len(t) \in Nat
      /\ c.at \in Nat /\ c.bs \in Nat /\ c.ph \in Nat
      /\ c.p \in 1 .. Len(b) /\ c.ph <= Len(b[c.p].phases)
      /\ n \in 1 .. Len(t) + 1
  <2>1. n \in 1 .. Len(t) + 1
    BY DEF Trail
  <2>2. QED
    BY <2>1, TrailStep, StandsAre DEF Within
<1>2. /\ b[c.p] \in Partitions /\ Len(b[c.p].phases) \in Nat
      /\ c.ph \in 0 .. Len(b[c.p].phases)
  BY <1>1, PartIs
<1>3. due = DueAt(b[c.p], c.ph, c.bs) /\ due \in Nat
  BY <1>1, <1>2, DueCounts DEF DueOf, Counts
<1>4. ASSUME NEW i \in 0 .. due, st[n + i] = C(i)
      PROVE  DueOf(b, st[n + i]) = due - i
  <2>1. i \in 0 .. DueAt(b[c.p], c.ph, c.bs)
    BY <1>3
  <2>2. DueAt(b[c.p], c.ph + i, c.bs) = DueAt(b[c.p], c.ph, c.bs) - i
    BY <1>1, <1>2, <2>1, DuePast
  <2>3. C(i).p = c.p /\ C(i).ph = c.ph + i /\ C(i).bs = c.bs
    BY StandIs
  <2>4. QED
    BY <1>3, <1>4, <2>2, <2>3 DEF DueOf
<1>5. ASSUME NEW i \in 0 .. due, i < due, n + i \in 1 .. Len(t), st[n + i] = C(i)
      PROVE  n + i + 1 \in 1 .. Len(t) /\ st[n + i + 1] = C(i + 1) /\ t[n + i].kind = "phase"
  <2>1. n + i \in 1 .. Len(t) + 1 /\ i \in Int
    BY <1>5, <1>1, <1>3
  <2>2. /\ st[n + i] \in Stands /\ Within(b, st[n + i])
        /\ Past(b, st[n + i], t[n + i], st[n + i + 1])
    BY <2>1, <1>5, TrailStep
  <2>3. /\ C(i).walk = "reads" /\ C(i).p = c.p /\ C(i).bs = c.bs /\ C(i).ph = c.ph + i
        /\ C(i).gr = c.gr /\ C(i).at = c.at + PhaseWords * i
    BY StandIs
  <2>4. DueOf(b, st[n + i]) > 0
    BY <1>4, <1>5, <1>3
  <2>5. PastPhase(b, st[n + i], t[n + i], st[n + i + 1])
    BY <2>2, <2>3, <2>4, <1>5, NextIs
  <2>6. st[n + i + 1] = C(i + 1)
    <3>1. st[n + i + 1] = Stand(c.at + PhaseWords * i + PhaseWords, "reads", c.p, c.bs, c.ph + i + 1, c.gr)
      BY <2>5, <2>3, <1>5 DEF PastPhase
    <3>2. c.at + PhaseWords * i + PhaseWords = c.at + PhaseWords * (i + 1) /\ c.ph + i + 1 = c.ph + (i + 1)
      <4>1. c.at \in Int /\ c.ph \in Int /\ i \in Int /\ PhaseWords \in Int /\ 1 \in Int
        BY <2>1, <1>1, WordsAreNat
      <4>2. PhaseWords * (i + 1) = PhaseWords * i + PhaseWords
        BY <4>1, Times, Zenon
      <4>3. c.at + PhaseWords * i + PhaseWords = c.at + (PhaseWords * i + PhaseWords)
        <5> DEFINE x == PhaseWords * i
        <5>1. x \in Int
          BY <4>1, Times, Zenon
        <5> HIDE DEF x
        <5>2. c.at + x + PhaseWords = c.at + (x + PhaseWords)
          BY <4>1, <5>1
        <5>3. QED
          BY <5>2 DEF x
      <4>4. c.ph + i + 1 = c.ph + (i + 1)
        BY <4>1, PlusAssociates, Zenon
      <4>5. QED
        BY <4>2, <4>3, <4>4, Zenon
    <3>3. QED
      BY <3>1, <3>2
  <2>7. C(i + 1).walk = "reads"
    BY StandIs
  <2>8. n + i + 1 \in 1 .. Len(t) + 1
    BY <2>1, <1>5, <1>1
  <2>9. QED
    <3>1. st[n + i + 1].walk # "end"
      BY <2>6, <2>7
    <3>2. n + i + 1 \in 1 .. Len(t)
      BY <3>1, <2>8, TrailStep
    <3>3. QED
      BY <3>2, <2>5, <2>6 DEF PastPhase
<1>6. T = Nat
  <2>1. 0 \in T
    <3>1. n + 0 = n /\ c.at + PhaseWords * 0 = c.at /\ c.ph + 0 = c.ph
      BY <1>1 DEF PhaseWords
    <3>2. c = Stand(c.at, c.walk, c.p, c.bs, c.ph, c.gr)
      BY <1>1, StandsAre
    <3>3. QED
      BY <3>1, <3>2
  <2>2. ASSUME NEW i \in T PROVE i + 1 \in T
    <3>1. SUFFICES ASSUME i + 1 <= due PROVE n + (i + 1) \in 1 .. Len(t) /\ st[n + (i + 1)] = C(i + 1)
      OBVIOUS
    <3>2. i \in Nat /\ i \in 0 .. due /\ i < due /\ n + (i + 1) = n + i + 1
      BY <3>1, <1>3, <1>1
    <3>3. n + i \in 1 .. Len(t) /\ st[n + i] = C(i)
      BY <3>2
    <3>4. QED
      BY <3>2, <3>3, <1>5
  <2>3. T \in SUBSET Nat
    OBVIOUS
  <2> HIDE DEF T
  <2>4. QED
    BY <2>1, <2>2, <2>3, SetInduction
<1>7. QED
  <2> SUFFICES ASSUME NEW i \in 0 .. due
               PROVE  /\ n + i \in 1 .. Len(t)
                      /\ st[n + i] = C(i)
                      /\ DueOf(b, st[n + i]) = due - i
                      /\ i < due => t[n + i].kind = "phase"
    OBVIOUS
  <2>1. i \in T /\ i <= due
    BY <1>6, <1>3
  <2>2. n + i \in 1 .. Len(t) /\ st[n + i] = C(i)
    BY <2>1
  <2>3. QED
    BY <2>2, <1>4, <1>5

\* So do the rounds of a global read.
LEMMA RoundsRun ==
  ASSUME NEW b \in Seq(Partitions), NEW t, NEW st, Trail(b, t, st), st[Len(t) + 1].walk = "end",
         NEW n \in 1 .. Len(t), st[n].walk = "reads"
  PROVE  \A i \in 0 .. b[st[n].p].rounds - st[n].gr :
           /\ n + i \in 1 .. Len(t)
           /\ st[n + i] = Stand(st[n].at + RoundWords * i, "reads",
                                st[n].p, st[n].bs, st[n].ph, st[n].gr + i)
<1> DEFINE c == st[n]
           left == b[c.p].rounds - c.gr
           C(i) == Stand(c.at + RoundWords * i, "reads", c.p, c.bs, c.ph, c.gr + i)
           T == {i \in Nat : i <= left => n + i \in 1 .. Len(t) /\ st[n + i] = C(i)}
<1>1. /\ c \in Stands /\ Within(b, c) /\ Len(t) \in Nat
      /\ c.at \in Nat /\ c.gr \in Nat /\ c.p \in 1 .. Len(b) /\ c.gr <= b[c.p].rounds
  <2>1. n \in 1 .. Len(t) + 1
    BY DEF Trail
  <2>2. QED
    BY <2>1, TrailStep, StandsAre DEF Within
<1>2. left \in Nat /\ b[c.p].rounds \in Nat
  BY <1>1, PartIs
<1>3. ASSUME NEW i \in Nat, i < left, n + i \in 1 .. Len(t), st[n + i] = C(i)
      PROVE  n + i + 1 \in 1 .. Len(t) /\ st[n + i + 1] = C(i + 1)
  <2>1. n + i \in 1 .. Len(t) + 1 /\ n + i + 1 \in 1 .. Len(t) + 1
    BY <1>3, <1>1
  <2>2. /\ st[n + i] \in Stands /\ Within(b, st[n + i])
        /\ Past(b, st[n + i], t[n + i], st[n + i + 1])
    BY <2>1, <1>3, TrailStep
  <2>3. /\ C(i).walk = "reads" /\ C(i).p = c.p /\ C(i).bs = c.bs /\ C(i).ph = c.ph
        /\ C(i).gr = c.gr + i /\ C(i).at = c.at + RoundWords * i
    BY StandIs
  <2>4. c.gr + i < b[c.p].rounds
    <3>1. c.gr \in Int /\ i \in Int /\ b[c.p].rounds \in Int /\ i < b[c.p].rounds - c.gr
      BY <1>1, <1>2, <1>3
    <3>2. \A x, y, z \in Int : x < y - z => z + x < y
      OBVIOUS
    <3>3. QED
      BY <3>1, <3>2, Zenon
  <2>5. PastRound(b, st[n + i], t[n + i], st[n + i + 1])
    BY <2>2, <2>3, <2>4, <1>3, NextIs
  <2>6. st[n + i + 1] = C(i + 1)
    <3>1. st[n + i + 1] = Stand(c.at + RoundWords * i + RoundWords, "reads", c.p, c.bs, c.ph, c.gr + i + 1)
      BY <2>5, <2>3, <1>3 DEF PastRound
    <3>2. c.at + RoundWords * i + RoundWords = c.at + RoundWords * (i + 1) /\ c.gr + i + 1 = c.gr + (i + 1)
      <4>1. c.at \in Int /\ c.gr \in Int /\ i \in Int /\ RoundWords \in Int /\ 1 \in Int
        BY <1>1, <1>3, WordsAreNat
      <4>2. RoundWords * (i + 1) = RoundWords * i + RoundWords
        BY <4>1, Times, Zenon
      <4>3. c.at + RoundWords * i + RoundWords = c.at + (RoundWords * i + RoundWords)
        <5> DEFINE x == RoundWords * i
        <5>1. x \in Int
          BY <4>1, Times, Zenon
        <5> HIDE DEF x
        <5>2. c.at + x + RoundWords = c.at + (x + RoundWords)
          BY <4>1, <5>1
        <5>3. QED
          BY <5>2 DEF x
      <4>4. c.gr + i + 1 = c.gr + (i + 1)
        BY <4>1, PlusAssociates, Zenon
      <4>5. QED
        BY <4>2, <4>3, <4>4, Zenon
    <3>3. QED
      BY <3>1, <3>2
  <2>7. st[n + i + 1].walk # "end"
    BY <2>6, StandIs
  <2>8. QED
    BY <2>1, <2>6, <2>7, TrailStep
<1>4. T = Nat
  <2>1. 0 \in T
    <3>1. n + 0 = n /\ c.at + RoundWords * 0 = c.at /\ c.gr + 0 = c.gr
      BY <1>1 DEF RoundWords
    <3>2. c = Stand(c.at, c.walk, c.p, c.bs, c.ph, c.gr)
      BY <1>1, StandsAre
    <3>3. QED
      BY <3>1, <3>2
  <2>2. ASSUME NEW i \in T PROVE i + 1 \in T
    <3>1. SUFFICES ASSUME i + 1 <= left PROVE n + (i + 1) \in 1 .. Len(t) /\ st[n + (i + 1)] = C(i + 1)
      OBVIOUS
    <3>2. i \in Nat /\ i < left /\ n + (i + 1) = n + i + 1
      BY <3>1, <1>2, <1>1
    <3>3. n + i \in 1 .. Len(t) /\ st[n + i] = C(i)
      <4>1. i <= left
        BY <3>2, <1>2
      <4>2. QED
        BY <4>1
    <3>4. QED
      BY <3>2, <3>3, <1>3
  <2>3. T \in SUBSET Nat
    OBVIOUS
  <2> HIDE DEF T
  <2>4. QED
    BY <2>1, <2>2, <2>3, SetInduction
<1>5. QED
  <2> SUFFICES ASSUME NEW i \in 0 .. left PROVE n + i \in 1 .. Len(t) /\ st[n + i] = C(i)
    OBVIOUS
  <2>1. i \in T /\ i <= left
    <3>1. i \in Nat /\ i <= left
      BY <1>2
    <3> HIDE DEF T
    <3>2. QED
      BY <3>1, <1>4
  <2>2. QED
    BY <2>1

-----------------------------------------------------------------------------
(* The inductive invariant: the script has a trail.  While it is laid out, *)
(* the end of the trail is where it goes on; then, the reader stands on    *)
(* the trail behind what it has used.  The kernel is in front of the       *)
(* phases that follow a stage while its script_pi and its prefetch are     *)
(* behind them.                                                            *)

\* No partition of the kernel has a macro phase in front of its first stage
\* behind rounds of its global read, where the kernel would miss it.
RoundsInFront ==
  "kernel" \in Readers =>
    \A x \in Plan["kernel"] : x.rounds = 0 \/ x.phases = << >> \/ x.phases[1] > 0

\* What was used, and, where ok, that it is the script from its start.
Used(t, s, ok) ==
  /\ s \in Seq(Kinds \X Int)
  /\ Len(s) <= Len(t)
  /\ ok => \A n \in 1 .. Len(s) : s[n] = <<t[n].kind, t[n].at>>

OracleStands(c) ==
  /\ walk \in {"header", "reads", "clken", "end"}
  /\ c = Stand(pi, walk, p, bs, ph, gr)

KernelStands(c) ==
  /\ walk \in {"header", "end", "clken"} => c = Stand(pi, walk, p, bs, ph, gr)
  /\ walk \in {"reads", "stage", "sram"} => c = Stand(pi, "reads", p, bs, ph, gr)
  /\ walk = "after" =>
       bs \in Nat /\ c = Stand(pi - PhaseWords * Due(bs + 1), "reads", p, bs + 1, ph, gr)
  /\ walk \in {"stage", "after", "sram"} => gr = Part.rounds
  /\ walk \in {"stage", "sram"} => Due(bs) = 0 /\ (walk = "stage" <=> bs < Part.stages)
  /\ walk \in {"stage", "after", "sram", "clken"} => fetch = pi
  /\ walk = "reads" =>
       /\ bs = 0 /\ ph = 0
       /\ fetch = pi + RoundWords * (Part.rounds - gr) + PhaseWords * Due(0)

Laying(st) ==
  /\ walk \in {"emit", "lay"}
  /\ st[Len(tape) + 1] = Stand(Size, IF walk = "emit" THEN "header" ELSE "reads", p, bs, ph, gr)
  /\ pi = 0 /\ fetch = 0 /\ seen = << >>

Walking(st) ==
  /\ walk \in Places \ {"emit", "lay"}
  /\ st[Len(tape) + 1].walk = "end"
  /\ Used(tape, seen, reader = "oracle" \/ RoundsInFront)
  /\ fetch \in Nat
  /\ reader = "oracle" => OracleStands(st[Len(seen) + 1])
  /\ reader = "kernel" => KernelStands(st[Len(seen) + 1])

Inductive ==
  /\ reader \in Readers
  /\ blk \in Seq(Plan[reader])
  /\ \E st : Trail(blk, tape, st) /\ (Laying(st) \/ Walking(st))

-----------------------------------------------------------------------------
(* What is used one by one, and as a run of phases.                        *)

LEMMA UsedOne ==
  ASSUME NEW t \in Seq(Sections), NEW s, NEW ok, Used(t, s, ok), Len(s) + 1 \in 1 .. Len(t),
         NEW k \in Kinds, NEW a \in Int,
         ok => k = t[Len(s) + 1].kind /\ a = t[Len(s) + 1].at
  PROVE  Used(t, Append(s, <<k, a>>), ok) /\ Len(Append(s, <<k, a>>)) = Len(s) + 1
<1> DEFINE u == Append(s, <<k, a>>)
<1>1. s \in Seq(Kinds \X Int) /\ <<k, a>> \in Kinds \X Int /\ Len(s) \in Nat
  BY DEF Used
<1>2. /\ u \in Seq(Kinds \X Int) /\ Len(u) = Len(s) + 1
      /\ u[Len(s) + 1] = <<k, a>>
      /\ \A n \in 1 .. Len(s) : u[n] = s[n]
  BY <1>1
<1> HIDE DEF u
<1>3. ASSUME ok, NEW n \in 1 .. Len(u) PROVE u[n] = <<t[n].kind, t[n].at>>
  <2>1. CASE n = Len(s) + 1
    BY <2>1, <1>2, <1>3
  <2>2. CASE n # Len(s) + 1
    <3>1. n \in 1 .. Len(s)
      BY <2>2, <1>1, <1>2
    <3>2. QED
      BY <3>1, <1>2, <1>3 DEF Used
  <2>3. QED
    BY <2>1, <2>2
<1>4. QED
  BY <1>1, <1>2, <1>3 DEF Used, u

LEMMA UsedRun ==
  ASSUME NEW t \in Seq(Sections), NEW s, NEW ok, Used(t, s, ok),
         NEW d \in Nat, Len(s) + d <= Len(t),
         NEW f \in [1 .. d -> Kinds \X Int],
         ok => \A i \in 1 .. d : f[i] = <<t[Len(s) + i].kind, t[Len(s) + i].at>>
  PROVE  Used(t, s \o f, ok) /\ Len(s \o f) = Len(s) + d
<1> DEFINE u == s \o f
<1>1. s \in Seq(Kinds \X Int) /\ Len(s) \in Nat /\ f \in Seq(Kinds \X Int) /\ Len(f) = d
  <2>1. f \in Seq(Kinds \X Int)
    OBVIOUS
  <2>2. QED
    BY <2>1 DEF Used
<1>2. /\ u \in Seq(Kinds \X Int) /\ Len(u) = Len(s) + d
      /\ \A n \in 1 .. Len(s) : u[n] = s[n]
      /\ \A i \in 1 .. d : u[Len(s) + i] = f[i]
  <2>1. /\ u \in Seq(Kinds \X Int) /\ Len(u) = Len(s) + Len(f)
        /\ \A i \in 1 .. Len(s) + Len(f) : u[i] = IF i <= Len(s) THEN s[i] ELSE f[i - Len(s)]
    BY <1>1, ConcatProperties
  <2> HIDE DEF u
  <2>2. ASSUME NEW n \in 1 .. Len(s) PROVE u[n] = s[n]
    <3>1. n \in 1 .. Len(s) + Len(f) /\ n <= Len(s)
      BY <1>1
    <3>2. u[n] = IF n <= Len(s) THEN s[n] ELSE f[n - Len(s)]
      BY <2>1, <3>1, Zenon
    <3>3. QED
      BY <3>1, <3>2, Zenon
  <2>3. ASSUME NEW i \in 1 .. d PROVE u[Len(s) + i] = f[i]
    <3> DEFINE j == Len(s) + i
    <3>1. j \in 1 .. Len(s) + Len(f) /\ ~(j <= Len(s)) /\ j - Len(s) = i
      BY <1>1
    <3> HIDE DEF j
    <3>2. u[j] = IF j <= Len(s) THEN s[j] ELSE f[j - Len(s)]
      BY <2>1, <3>1, Zenon
    <3>3. u[j] = f[i]
      BY <3>1, <3>2, Zenon
    <3>4. QED
      BY <3>3 DEF j
  <2>4. QED
    BY <1>1, <2>1, <2>2, <2>3
<1> HIDE DEF u
<1>3. ASSUME ok, NEW n \in 1 .. Len(u) PROVE u[n] = <<t[n].kind, t[n].at>>
  <2>1. CASE n \in 1 .. Len(s)
    BY <2>1, <1>2, <1>3 DEF Used
  <2>2. CASE n \notin 1 .. Len(s)
    <3>1. n - Len(s) \in 1 .. d /\ Len(s) + (n - Len(s)) = n
      BY <2>2, <1>1, <1>2
    <3>2. QED
      BY <3>1, <1>2, <1>3
  <2>3. QED
    BY <2>1, <2>2
<1>4. QED
  BY <1>1, <1>2, <1>3 DEF Used, u

LEMMA TwoSections ==
  ASSUME NEW a, NEW b
  PROVE  <<a>> \o <<b>> = <<a, b>>
<1>1. /\ <<a>> \in Seq({a, b}) /\ <<b>> \in Seq({a, b}) /\ <<a, b>> \in Seq({a, b})
      /\ Len(<<a>>) = 1 /\ Len(<<b>>) = 1 /\ Len(<<a, b>>) = 2
  OBVIOUS
<1>2. /\ <<a>> \o <<b>> \in Seq({a, b}) /\ Len(<<a>> \o <<b>>) = 2
      /\ \A i \in 1 .. 2 : (<<a>> \o <<b>>)[i] = IF i <= 1 THEN <<a>>[i] ELSE <<b>>[i - 1]
  BY <1>1, ConcatProperties
<1>3. \A i \in 1 .. 2 : (<<a>> \o <<b>>)[i] = <<a, b>>[i]
  BY <1>2
<1>4. QED
  BY <1>1, <1>2, <1>3, SeqEqual

LEMMA NothingUsed ==
  ASSUME NEW s \in Seq(Kinds \X Int), NEW f \in [1 .. 0 -> Kinds \X Int], NEW e \in Kinds \X Int
  PROVE  s \o f \o <<e>> = Append(s, e)
<1>1. f \in Seq(Kinds \X Int) /\ Len(f) = 0
  OBVIOUS
<1>2. f = << >>
  BY <1>1, EmptySeq
<1>3. s \o f = s
  BY <1>1, <1>2, ConcatEmptySeq
<1>4. s \o <<e>> = Append(s, e)
  BY AppendIsConcat
<1>5. QED
  BY <1>3, <1>4

-----------------------------------------------------------------------------
(* The script is laid out along a trail.                                   *)

LEMMA BlockHolds ==
  ASSUME Inductive
  PROVE  blk \in Seq(Partitions) /\ (reader = "kernel" \/ reader = "oracle")
<1>1. Plan[reader] \subseteq Partitions /\ (reader = "kernel" \/ reader = "oracle")
  BY PlanAssumption DEF Inductive, Partitions
<1>2. QED
  BY <1>1 DEF Inductive

LEMMA InitInductive == Init => Inductive
<1> SUFFICES ASSUME Init PROVE Inductive
  OBVIOUS
<1>1. blk \in Seq(Plan[reader])
  <2>1. blk \in UNION {[1 .. m -> Plan[reader]] : m \in 0 .. MaxParts}
    BY DEF Init, BoundedSeq, SeqOf
  <2>2. PICK m \in 0 .. MaxParts : blk \in [1 .. m -> Plan[reader]]
    BY <2>1
  <2>3. m \in Nat
    BY PlanAssumption
  <2>4. QED
    BY <2>2, <2>3
<1> DEFINE st == [n \in 1 .. 1 |-> Start]
<1>2. /\ Start \in Stands /\ Start.walk = "header" /\ Start.p = 1 /\ Start.at = 0
      /\ Start.bs = 0 /\ Start.ph = 0 /\ Start.gr = 0
  BY StandIs DEF Start
<1>3. Within(blk, Start)
  BY <1>1, <1>2 DEF Within
<1>4. Trail(blk, tape, st)
  <2>1. tape = << >> /\ Len(tape) = 0
    BY DEF Init
  <2>2. QED
    BY <1>2, <1>3, <2>1 DEF Trail
<1>5. Laying(st)
  <2>1. st[Len(tape) + 1] = Stand(0, "header", 1, 0, 0, 0) /\ Size = 0
    BY DEF Init, Start, Size
  <2>2. QED
    BY <2>1 DEF Init, Laying
<1>6. QED
  BY <1>1, <1>4, <1>5 DEF Inductive, Init

\* With one section more on the tape, the trail ends in d.
LEMMA EmitOne ==
  ASSUME blk \in Seq(Partitions), NEW st, Trail(blk, tape, st),
         st[Len(tape) + 1].at = Size,
         NEW k \in Kinds, NEW l \in Nat, NEW d,
         Past(blk, st[Len(tape) + 1], Section(k, l), d)
  PROVE  \E next : /\ Trail(blk, Append(tape, Section(k, l)), next)
                   /\ next[Len(Append(tape, Section(k, l))) + 1] = d
                   /\ SizeOf(Append(tape, Section(k, l))) = d.at
<1>1. Section(k, l) \in Sections
  <2>1. Len(tape) + 1 \in 1 .. Len(tape) + 1
    BY DEF Trail
  <2>2. st[Len(tape) + 1] \in Stands
    BY <2>1, TrailStep
  <2>3. Size \in Nat
    BY <2>2, StandsAre
  <2>4. QED
    BY <2>3 DEF Section, Sections
<1> DEFINE s == Section(k, l)
           t == Append(tape, s)
           next == [n \in 1 .. Len(tape) + 2 |-> IF n = Len(tape) + 2 THEN d ELSE st[n]]
<1>2. s \in Sections /\ Past(blk, st[Len(tape) + 1], s, d)
  BY <1>1
<1> HIDE DEF s
<1>3. LET after == [n \in 1 .. Len(tape) + 2 |-> IF n = Len(tape) + 2 THEN d ELSE st[n]]
      IN  Trail(blk, Append(tape, s), after) /\ after[Len(Append(tape, s)) + 1] = d
  BY <1>2, TrailExtends
<1>4. Trail(blk, t, next) /\ next[Len(t) + 1] = d
  BY <1>3
<1> HIDE DEF next, t
<1>5. SizeOf(t) = d.at
  BY <1>4, TrailSize
<1>6. QED
  BY <1>4, <1>5 DEF s, t

\* A script that is through is read from its start.
LEMMA LaidOut ==
  ASSUME NEW next, Trail(blk, tape', next), next[Len(tape') + 1].walk = "end",
         walk' = "header", pi' = 0, fetch' = 0, seen' = << >>,
         p' = 1, bs' = 0, ph' = 0, gr' = 0
  PROVE  Walking(next)'
<1>1. next[Len(seen') + 1] = Stand(pi', walk', p', bs', ph', gr')
  BY DEF Trail, Start
<1>2. Used(tape', seen', reader' = "oracle" \/ RoundsInFront)
  BY DEF Used, Trail
<1>3. OracleStands(next[Len(seen) + 1])' /\ KernelStands(next[Len(seen) + 1])'
  BY <1>1 DEF OracleStands, KernelStands
<1>4. QED
  BY <1>2, <1>3 DEF Walking, Places

LEMMA HeaderEmitted == Inductive /\ EmitHeader => Inductive'
<1> SUFFICES ASSUME Inductive, EmitHeader PROVE Inductive'
  OBVIOUS
<1>1. blk \in Seq(Partitions)
  BY BlockHolds
<1>2. PICK st : Trail(blk, tape, st) /\ Laying(st)
  BY DEF Inductive, EmitHeader, Walking
<1> DEFINE c == st[Len(tape) + 1]
           d == Stand(Size + MetaWords, IF blk = << >> THEN "end" ELSE "reads", p, bs, ph, gr)
<1>3. c = Stand(Size, "header", p, bs, ph, gr)
  BY <1>2 DEF EmitHeader, Laying
<1>4. /\ c.at = Size /\ c.walk = "header" /\ c.p = p /\ c.bs = bs /\ c.ph = ph /\ c.gr = gr
      /\ d.at = Size + MetaWords /\ d.walk = IF blk = << >> THEN "end" ELSE "reads"
  BY <1>3, StandIs
<1>5. Past(blk, c, Section("meta", MetaWords), d)
  BY <1>4 DEF Past, PastHeader, Section
<1>6. /\ tape' = Append(tape, Section("meta", MetaWords))
      /\ UNCHANGED <<reader, blk, pi, fetch, seen, p, bs, ph, gr>>
  BY DEF EmitHeader, Emit
<1> HIDE DEF c, d
<1>7. PICK next : Trail(blk, tape', next) /\ next[Len(tape') + 1] = d /\ Size' = d.at
  <2>0. Size' = SizeOf(tape')
    BY DEF Size, SizeOf
  <2>1. "meta" \in Kinds /\ MetaWords \in Nat /\ Past(blk, st[Len(tape) + 1], Section("meta", MetaWords), d)
    BY <1>5, WordsAreNat DEF Kinds, c
  <2>2. QED
    BY <1>1, <1>2, <1>4, <1>6, <2>0, <2>1, EmitOne DEF c
<1>8. CASE blk = << >>
  <2>1. Len(tape) + 1 \in 1 .. Len(tape) + 1
    BY <1>2 DEF Trail
  <2>2. Within(blk, c)
    BY <1>2, <2>1, TrailStep DEF c
  <2>3. p = 1 /\ bs = 0 /\ ph = 0 /\ gr = 0
    BY <1>4, <1>8, <2>2 DEF Within
  <2>4. pi' = 0 /\ fetch' = 0 /\ seen' = << >> /\ walk' = "header"
    BY <1>2, <1>6, <1>8 DEF Laying, EmitHeader
  <2>5. Walking(next)'
    BY <1>4, <1>6, <1>7, <1>8, <2>3, <2>4, LaidOut
  <2>6. QED
    BY <1>6, <1>7, <2>5 DEF Inductive
<1>9. CASE blk # << >>
  <2>1. walk' = "lay"
    BY <1>9 DEF EmitHeader
  <2>2. next[Len(tape') + 1] = Stand(Size', "reads", p', bs', ph', gr')
    BY <1>4, <1>6, <1>7, <1>9 DEF d
  <2>3. Laying(next)'
    BY <1>2, <1>6, <2>1, <2>2 DEF Laying
  <2>4. QED
    BY <1>6, <1>7, <2>3 DEF Inductive
<1>10. QED
  BY <1>8, <1>9

\* A round, a phase or a stage: d is where the tape goes on.
LEMMA BodyEmitted ==
  ASSUME Inductive, walk = "lay", walk' = walk,
         NEW k \in Kinds, NEW l \in Nat, Emit(k, l), p' = p,
         \A c : c = Stand(Size, "reads", p, bs, ph, gr) =>
           Past(blk, c, Section(k, l), Stand(Size + l, "reads", p, bs', ph', gr'))
  PROVE  Inductive'
<1>1. blk \in Seq(Partitions)
  BY BlockHolds
<1>2. PICK st : Trail(blk, tape, st) /\ Laying(st)
  BY DEF Inductive, Walking
<1> DEFINE d == Stand(Size + l, "reads", p, bs', ph', gr')
<1>3. Past(blk, st[Len(tape) + 1], Section(k, l), d)
  BY <1>2 DEF Laying
<1>4. tape' = Append(tape, Section(k, l)) /\ UNCHANGED <<reader, blk, pi, fetch, seen>>
  BY DEF Emit
<1>5. d.at = Size + l
  BY StandIs
<1> HIDE DEF d
<1>6. PICK next : Trail(blk, tape', next) /\ next[Len(tape') + 1] = d /\ Size' = d.at
  <2>1. Size' = SizeOf(tape')
    BY DEF Size, SizeOf
  <2>2. st[Len(tape) + 1].at = Size
    BY <1>2, StandIs DEF Laying
  <2>3. QED
    BY <1>1, <1>2, <1>3, <1>4, <2>1, <2>2, EmitOne
<1>7. Laying(next)'
  BY <1>2, <1>4, <1>5, <1>6 DEF Laying, d
<1>8. QED
  BY <1>4, <1>6, <1>7 DEF Inductive

LEMMA RoundEmitted == Inductive /\ EmitRound => Inductive'
<1> SUFFICES ASSUME Inductive, EmitRound PROVE Inductive'
  OBVIOUS
<1>1. ASSUME NEW c, c = Stand(Size, "reads", p, bs, ph, gr)
      PROVE  Past(blk, c, Section("read", RoundWords), Stand(Size + RoundWords, "reads", p, bs', ph', gr'))
  <2>1. c.at = Size /\ c.walk = "reads" /\ c.p = p /\ c.bs = bs /\ c.ph = ph /\ c.gr = gr
    BY <1>1, StandIs
  <2>2. QED
    BY <2>1 DEF Past, PastRound, Section, EmitRound, Part
<1>2. QED
  BY <1>1, WordsAreNat, BodyEmitted DEF EmitRound, Kinds

LEMMA PhaseEmitted == Inductive /\ EmitPhase => Inductive'
<1> SUFFICES ASSUME Inductive, EmitPhase PROVE Inductive'
  OBVIOUS
<1>1. ASSUME NEW c, c = Stand(Size, "reads", p, bs, ph, gr)
      PROVE  Past(blk, c, Section("phase", PhaseWords), Stand(Size + PhaseWords, "reads", p, bs', ph', gr'))
  <2>1. c.at = Size /\ c.walk = "reads" /\ c.p = p /\ c.bs = bs /\ c.ph = ph /\ c.gr = gr
    BY <1>1, StandIs
  <2>2. DueOf(blk, c) = Due(bs)
    BY <2>1 DEF DueOf, DueAt, Due, Part
  <2>3. QED
    BY <2>1, <2>2 DEF Past, PastPhase, Section, EmitPhase, Part
<1>2. QED
  BY <1>1, WordsAreNat, BodyEmitted DEF EmitPhase, Kinds

LEMMA StageEmitted == Inductive /\ EmitStage => Inductive'
<1> SUFFICES ASSUME Inductive, EmitStage PROVE Inductive'
  OBVIOUS
<1>1. ASSUME NEW c, c = Stand(Size, "reads", p, bs, ph, gr)
      PROVE  Past(blk, c, Section("stage", StageWords), Stand(Size + StageWords, "reads", p, bs', ph', gr'))
  <2>1. c.at = Size /\ c.walk = "reads" /\ c.p = p /\ c.bs = bs /\ c.ph = ph /\ c.gr = gr
    BY <1>1, StandIs
  <2>2. DueOf(blk, c) = Due(bs)
    BY <2>1 DEF DueOf, DueAt, Due, Part
  <2>3. QED
    BY <2>1, <2>2 DEF Past, PastStage, Section, EmitStage, Part
<1>2. QED
  BY <1>1, WordsAreNat, BodyEmitted DEF EmitStage, Kinds

LEMMA TailEmitted == Inductive /\ EmitTail => Inductive'
<1> SUFFICES ASSUME Inductive, EmitTail PROVE Inductive'
  OBVIOUS
<1>1. blk \in Seq(Partitions)
  BY BlockHolds
<1>2. PICK st : Trail(blk, tape, st) /\ Laying(st)
  BY DEF Inductive, EmitTail, Walking
<1> DEFINE c == st[Len(tape) + 1]
           d == Stand(Size + StageWords, "clken", p, bs, ph, gr)
           e == IF p = Len(blk) THEN Stand(Size + StageWords + StageWords, "end", 1, 0, 0, 0)
                  ELSE Stand(Size + StageWords + StageWords, "header", p + 1, 0, 0, 0)
           s1 == Section("sram", StageWords)
           s2 == [kind |-> "clken", at |-> Size + StageWords, len |-> StageWords]
           t1 == Append(tape, s1)
           t2 == Append(t1, s2)
           st1 == [n \in 1 .. Len(tape) + 2 |-> IF n = Len(tape) + 2 THEN d ELSE st[n]]
           st2 == [n \in 1 .. Len(t1) + 2 |-> IF n = Len(t1) + 2 THEN e ELSE st1[n]]
<1>3. /\ c = Stand(Size, "reads", p, bs, ph, gr)
      /\ c.at = Size /\ c.walk = "reads" /\ c.p = p /\ c.bs = bs /\ c.ph = ph /\ c.gr = gr
      /\ d.at = Size + StageWords /\ d.walk = "clken" /\ d.p = p
      /\ e.at = Size + StageWords + StageWords
      /\ e.walk = IF p = Len(blk) THEN "end" ELSE "header"
  <2>1. c = Stand(Size, "reads", p, bs, ph, gr)
    BY <1>2 DEF EmitTail, Laying
  <2>2. QED
    BY <2>1, StandIs
<1>4. /\ c \in Stands /\ Within(blk, c) /\ Len(tape) \in Nat /\ tape \in Seq(Sections)
      /\ Size \in Nat /\ StageWords \in Nat
  <2>1. Len(tape) + 1 \in 1 .. Len(tape) + 1 /\ tape \in Seq(Sections)
    BY <1>2 DEF Trail
  <2>2. QED
    BY <1>2, <1>3, <2>1, TrailStep, StandsAre, WordsAreNat
<1>5. Past(blk, c, s1, d)
  <2>1. p \in 1 .. Len(blk) /\ blk[p].stages > 0 /\ bs = blk[p].stages /\ ph = Len(blk[p].phases)
    BY <1>1, <1>3, <1>4, PartIs DEF Within, EmitTail, Part
  <2>2. gr = blk[p].rounds
    BY <1>3, <1>4, <2>1 DEF Within
  <2>3. QED
    BY <1>3, <2>1, <2>2 DEF Past, PastSram, Section
<1>6. Past(blk, d, s2, e)
  BY <1>3 DEF Past, PastClken
<1>7. s1 \in Sections /\ s2 \in Sections
  BY <1>4 DEF Section, Sections, Kinds
<1>8. tape' = t2
  <2>1. /\ t1 \in Seq(Sections) /\ t1 = tape \o <<s1>> /\ t2 = t1 \o <<s2>>
        /\ <<s1>> \in Seq(Sections) /\ <<s2>> \in Seq(Sections)
    BY <1>4, <1>7, AppendIsConcat
  <2>2. t2 = tape \o (<<s1>> \o <<s2>>)
    BY <1>4, <2>1, ConcatAssociative
  <2>3. <<s1>> \o <<s2>> = <<s1, s2>>
    BY TwoSections
  <2>4. QED
    BY <2>2, <2>3 DEF EmitTail
<1> HIDE DEF c, d, e, s1, s2
<1>9. Trail(blk, t1, st1) /\ st1[Len(t1) + 1] = d
  <2>1. LET next == [n \in 1 .. Len(tape) + 2 |-> IF n = Len(tape) + 2 THEN d ELSE st[n]]
        IN  Trail(blk, Append(tape, s1), next) /\ next[Len(Append(tape, s1)) + 1] = d
    BY <1>1, <1>2, <1>5, <1>7, TrailExtends DEF c
  <2>2. QED
    BY <2>1
<1> HIDE DEF t1, st1
<1>10. Trail(blk, t2, st2) /\ st2[Len(t2) + 1] = e
  <2>1. LET next == [n \in 1 .. Len(t1) + 2 |-> IF n = Len(t1) + 2 THEN e ELSE st1[n]]
        IN  Trail(blk, Append(t1, s2), next) /\ next[Len(Append(t1, s2)) + 1] = e
    BY <1>1, <1>6, <1>7, <1>9, TrailExtends
  <2>2. QED
    BY <2>1
<1> HIDE DEF t2, st2
<1>16. PICK last : Trail(blk, tape', last) /\ last[Len(tape') + 1] = e
  BY <1>8, <1>10
<1>11. /\ bs' = 0 /\ ph' = 0 /\ gr' = 0
       /\ UNCHANGED <<reader, blk, pi, fetch, seen>>
       /\ p' = IF p = Len(blk) THEN 1 ELSE p + 1
       /\ walk' = IF p = Len(blk) THEN "header" ELSE "emit"
  BY DEF EmitTail, NextPartition
<1>12. pi' = 0 /\ fetch' = 0 /\ seen' = << >>
  BY <1>2, <1>11 DEF Laying
<1>13. CASE p = Len(blk)
  <2>1. Walking(last)'
    BY <1>3, <1>8, <1>16, <1>11, <1>12, <1>13, LaidOut
  <2>2. QED
    BY <1>8, <1>16, <1>11, <2>1 DEF Inductive
<1>14. CASE p # Len(blk)
  <2>1. Size' = SizeOf(tape')
    BY DEF Size, SizeOf
  <2>2. SizeOf(tape') = e.at
    BY <1>16, TrailSize
  <2>3. e = Stand(e.at, "header", p', bs', ph', gr')
    BY <1>3, <1>11, <1>14 DEF e
  <2>4. Laying(last)'
    BY <1>8, <1>16, <1>11, <1>12, <1>14, <2>1, <2>2, <2>3 DEF Laying
  <2>5. QED
    BY <1>8, <1>16, <1>11, <2>4 DEF Inductive
<1>15. QED
  BY <1>13, <1>14

-----------------------------------------------------------------------------
(* Both readers stay on the trail.                                         *)

\* In front of the next section.
LEMMA AtSection ==
  ASSUME NEW st, Trail(blk, tape, st), Walking(st), st[Len(seen) + 1].walk # "end"
  PROVE  LET n == Len(seen) + 1
             c == st[n]
         IN  /\ n \in 1 .. Len(tape) /\ n \in 1 .. Len(tape) + 1 /\ Len(seen) \in Nat
             /\ c \in Stands /\ Within(blk, c)
             /\ tape \in Seq(Sections) /\ tape[n].at = c.at
             /\ Past(blk, c, tape[n], st[n + 1])
<1>1. Len(seen) \in Nat /\ Len(seen) <= Len(tape) /\ tape \in Seq(Sections) /\ Len(tape) \in Nat
  BY DEF Walking, Used, Trail
<1>2. Len(seen) + 1 \in 1 .. Len(tape) + 1
  BY <1>1
<1>3. Len(seen) + 1 \in 1 .. Len(tape)
  BY <1>2, TrailStep DEF Walking
<1>4. QED
  BY <1>1, <1>2, <1>3, TrailStep

LEMMA OracleOn ==
  ASSUME Inductive, reader = "oracle", NEW st, Trail(blk, tape, st), Walking(st),
         NEW k \in Kinds, NEW l \in Nat, Step(k, l),
         walk' \in {"header", "reads", "clken", "end"},
         Len(seen) + 1 \in 1 .. Len(tape),
         tape[Len(seen) + 1].kind = k, tape[Len(seen) + 1].at = pi, pi \in Nat,
         st[Len(seen) + 2] = Stand(pi', walk', p', bs', ph', gr')
  PROVE  Inductive'
<1>1. seen' = Append(seen, <<k, pi>>) /\ UNCHANGED <<reader, blk, tape, fetch>>
  BY DEF Step, Use, Keep
<1>2. Len(seen) \in Nat /\ tape \in Seq(Sections) /\ pi \in Int
  BY DEF Walking, Used, Trail
<1>3. Used(tape, Append(seen, <<k, pi>>), TRUE) /\ Len(Append(seen, <<k, pi>>)) = Len(seen) + 1
  <2>1. Used(tape, seen, TRUE)
    BY DEF Walking
  <2>2. QED
    BY <1>2, <2>1, UsedOne
<1>4. Len(seen') + 1 = Len(seen) + 2
  BY <1>1, <1>2, <1>3
<1>5. Used(tape', seen', reader' = "oracle" \/ RoundsInFront)
  BY <1>1, <1>3
<1>6. OracleStands(st[Len(seen) + 1])'
  BY <1>4 DEF OracleStands
<1>7. st[Len(tape') + 1].walk = "end" /\ fetch' \in Nat /\ walk' \in Places \ {"emit", "lay"}
      /\ reader' = "oracle"
  BY <1>1 DEF Walking, Places
<1>8. Walking(st)'
  BY <1>5, <1>6, <1>7 DEF Walking
<1>9. QED
  BY <1>1, <1>8 DEF Inductive

\* Where the oracle stands, before it has come to the end.
LEMMA OracleAt ==
  ASSUME Inductive, reader = "oracle", walk \in {"header", "reads", "clken"}
  PROVE  \E st : LET n == Len(seen) + 1
                     c == st[n]
                 IN  /\ Trail(blk, tape, st) /\ Walking(st)
                     /\ n \in 1 .. Len(tape) /\ Past(blk, c, tape[n], st[Len(seen) + 2])
                     /\ c \in Stands /\ Within(blk, c)
                     /\ c.at = pi /\ c.walk = walk /\ c.p = p /\ c.bs = bs /\ c.ph = ph /\ c.gr = gr
                     /\ tape[n].at = pi /\ pi \in Nat
<1>1. PICK st : Trail(blk, tape, st) /\ Walking(st)
  BY DEF Inductive, Laying
<1> DEFINE n == Len(seen) + 1
           c == st[n]
<1>2. c = Stand(pi, walk, p, bs, ph, gr)
  BY <1>1 DEF Walking, OracleStands
<1>3. c.at = pi /\ c.walk = walk /\ c.p = p /\ c.bs = bs /\ c.ph = ph /\ c.gr = gr
  BY <1>2, StandIs
<1>4. /\ n \in 1 .. Len(tape) /\ Len(seen) \in Nat /\ c \in Stands /\ Within(blk, c)
      /\ tape[n].at = c.at /\ Past(blk, c, tape[n], st[n + 1])
  <2>1. st[Len(seen) + 1].walk # "end"
    BY <1>3
  <2>2. QED
    BY <1>1, <2>1, AtSection
<1>5. n + 1 = Len(seen) + 2
  BY <1>4
<1>6. pi \in Nat
  BY <1>3, <1>4, StandsAre
<1>7. QED
  BY <1>1, <1>3, <1>4, <1>5, <1>6

LEMMA OracleSteps == Inductive /\ reader = "oracle" /\ OracleNext => Inductive'
<1> SUFFICES ASSUME Inductive, reader = "oracle", OracleNext PROVE Inductive'
  OBVIOUS
<1>1. blk \in Seq(Partitions)
  BY BlockHolds
<1>2. walk \in {"header", "reads", "clken"}
  BY DEF OracleNext, OracleHeader, OracleRound, OraclePhase, OracleStage, OracleSram, OracleClken
<1> DEFINE n == Len(seen) + 1
<1>3. PICK st : /\ Trail(blk, tape, st) /\ Walking(st)
                /\ n \in 1 .. Len(tape) /\ Past(blk, st[n], tape[n], st[Len(seen) + 2])
                /\ st[n] \in Stands /\ Within(blk, st[n])
                /\ st[n].at = pi /\ st[n].walk = walk /\ st[n].p = p
                /\ st[n].bs = bs /\ st[n].ph = ph /\ st[n].gr = gr
                /\ tape[n].at = pi /\ pi \in Nat
  BY <1>2, OracleAt
<1> DEFINE c == st[n]
           d == st[Len(seen) + 2]
           s == tape[n]
<1>4. /\ c.walk = "header" => PastHeader(blk, c, s, d)
      /\ c.walk = "clken" => PastClken(blk, c, s, d)
      /\ c.walk = "reads" =>
           /\ c.gr < blk[c.p].rounds => PastRound(blk, c, s, d)
           /\ c.gr = blk[c.p].rounds /\ DueOf(blk, c) > 0 => PastPhase(blk, c, s, d)
           /\ c.gr = blk[c.p].rounds /\ DueOf(blk, c) = 0 =>
                PastStage(blk, c, s, d) \/ PastSram(blk, c, s, d)
           /\ DueOf(blk, c) \in 0 .. Len(blk[c.p].phases) - c.ph
  BY <1>1, <1>3, NextIs
<1>5. DueOf(blk, c) = Due(bs)
  BY <1>3 DEF DueOf, DueAt, Due, Part
<1>6. c.walk = "reads" =>
        /\ c.p \in 1 .. Len(blk) /\ c.bs <= blk[c.p].stages /\ c.ph <= Len(blk[c.p].phases)
        /\ c.bs \in Nat /\ c.ph \in Nat /\ Len(blk[c.p].phases) \in Nat /\ blk[c.p].stages \in Nat
  <2>1. SUFFICES ASSUME c.walk = "reads"
        PROVE /\ c.p \in 1 .. Len(blk) /\ c.bs <= blk[c.p].stages /\ c.ph <= Len(blk[c.p].phases)
              /\ c.bs \in Nat /\ c.ph \in Nat /\ Len(blk[c.p].phases) \in Nat /\ blk[c.p].stages \in Nat
    OBVIOUS
  <2>2. /\ c.p \in 1 .. Len(blk) /\ c.bs <= blk[c.p].stages /\ c.ph <= Len(blk[c.p].phases)
        /\ c.bs \in Nat /\ c.ph \in Nat
    BY <1>3, <2>1, StandsAre DEF Within
  <2>3. QED
    BY <1>1, <2>2, PartIs
<1>7. /\ c.at = pi /\ c.walk = walk /\ c.p = p /\ c.bs = bs /\ c.ph = ph /\ c.gr = gr
      /\ n \in 1 .. Len(tape) /\ s.at = pi /\ pi \in Nat
      /\ Trail(blk, tape, st) /\ Walking(st)
  BY <1>3
<1>8. \A k \in Kinds : \A l \in Nat :
        /\ Step(k, l) /\ s.kind = k
        /\ walk' \in {"header", "reads", "clken", "end"}
        /\ d = Stand(pi', walk', p', bs', ph', gr')
        => Inductive'
  BY <1>7, OracleOn
<1>9. Kinds = {"meta", "read", "phase", "stage", "sram", "clken"}
  BY DEF Kinds
<1> HIDE DEF n, c, d, s
<1>10. CASE OracleHeader
  <2>1. PastHeader(blk, c, s, d) /\ Step("meta", MetaWords)
    BY <1>4, <1>7, <1>10 DEF OracleHeader
  <2>2. d = Stand(pi', walk', p', bs', ph', gr') /\ walk' \in {"reads", "end"}
    BY <1>7, <1>10, <2>1 DEF OracleHeader, PastHeader, Step
  <2>3. QED
    BY <1>8, <1>9, <2>1, <2>2, WordsAreNat DEF PastHeader
<1>11. CASE OracleRound
  <2>1. PastRound(blk, c, s, d) /\ Step("read", RoundWords)
    BY <1>4, <1>7, <1>11 DEF OracleRound, Part
  <2>2. d = Stand(pi', walk', p', bs', ph', gr') /\ walk' = "reads"
    BY <1>7, <1>11, <2>1 DEF OracleRound, PastRound, Step
  <2>3. QED
    BY <1>8, <1>9, <2>1, <2>2, WordsAreNat DEF PastRound
<1>12. CASE OraclePhase
  <2>1. PastPhase(blk, c, s, d) /\ Step("phase", PhaseWords)
    <3>1. c.walk = "reads" /\ c.gr = blk[c.p].rounds /\ Step("phase", PhaseWords)
      BY <1>7, <1>12 DEF OraclePhase, Part
    <3>2. CASE DueOf(blk, c) > 0
      BY <1>4, <3>1, <3>2
    <3>3. CASE ~(DueOf(blk, c) > 0)
      <4>1. DueOf(blk, c) = 0
        BY <1>4, <1>6, <3>1, <3>3
      <4>2. ~(c.bs < blk[c.p].stages) /\ c.ph # Len(blk[c.p].phases)
        BY <1>5, <1>6, <1>7, <1>12, <3>1, <3>3 DEF OraclePhase, PhaseIsDue, Part
      <4>3. QED
        BY <1>4, <3>1, <4>1, <4>2 DEF PastStage, PastSram
    <3>4. QED
      BY <3>2, <3>3
  <2>2. d = Stand(pi', walk', p', bs', ph', gr') /\ walk' = "reads"
    BY <1>7, <1>12, <2>1 DEF OraclePhase, PastPhase, Step
  <2>3. QED
    BY <1>8, <1>9, <2>1, <2>2, WordsAreNat DEF PastPhase
<1>13. CASE OracleStage
  <2>1. PastStage(blk, c, s, d) /\ Step("stage", StageWords)
    <3>1. /\ c.walk = "reads" /\ c.gr = blk[c.p].rounds /\ Step("stage", StageWords)
          /\ c.bs < blk[c.p].stages
      BY <1>7, <1>13 DEF OracleStage, Part
    <3>2. ~(DueOf(blk, c) > 0)
      BY <1>5, <1>13 DEF OracleStage, PhaseIsDue
    <3>3. DueOf(blk, c) = 0
      BY <1>4, <1>6, <3>1, <3>2
    <3>4. c.bs # blk[c.p].stages
      BY <1>6, <3>1
    <3>5. QED
      BY <1>4, <3>1, <3>3, <3>4 DEF PastSram
  <2>2. d = Stand(pi', walk', p', bs', ph', gr') /\ walk' = "reads"
    BY <1>7, <1>13, <2>1 DEF OracleStage, PastStage, Step
  <2>3. QED
    BY <1>8, <1>9, <2>1, <2>2, WordsAreNat DEF PastStage
<1>14. CASE OracleSram
  <2>1. PastSram(blk, c, s, d) /\ Step("sram", StageWords)
    <3>1. /\ c.walk = "reads" /\ c.gr = blk[c.p].rounds /\ Step("sram", StageWords)
          /\ c.bs = blk[c.p].stages
      BY <1>7, <1>14 DEF OracleSram, Part
    <3>2. ~(c.bs < blk[c.p].stages)
      BY <1>6, <3>1
    <3>3. ~(c.ph < Len(blk[c.p].phases))
      BY <1>7, <1>14, <3>2 DEF OracleSram, PhaseIsDue, Part
    <3>4. DueOf(blk, c) = 0
      BY <1>4, <1>6, <3>1, <3>3
    <3>5. QED
      BY <1>4, <3>1, <3>2, <3>4 DEF PastStage
  <2>2. d = Stand(pi', walk', p', bs', ph', gr') /\ walk' = "clken"
    BY <1>7, <1>14, <2>1 DEF OracleSram, PastSram, Step
  <2>3. QED
    BY <1>8, <1>9, <2>1, <2>2, WordsAreNat DEF PastSram
<1>15. CASE OracleClken
  <2>1. PastClken(blk, c, s, d) /\ Step("clken", StageWords)
    BY <1>4, <1>7, <1>15 DEF OracleClken
  <2>2. /\ d = Stand(pi', walk', p', bs', ph', gr')
        /\ walk' \in {"header", "end"}
    BY <1>7, <1>15, <2>1 DEF OracleClken, PastClken, Step, NextPartition
  <2>3. QED
    BY <1>8, <1>9, <2>1, <2>2, WordsAreNat DEF PastClken
<1>16. QED
  BY <1>10, <1>11, <1>12, <1>13, <1>14, <1>15 DEF OracleNext

\* f has the phases due at c, where ok at their addresses.
PhasesAt(b, c, f, ok) ==
  /\ f \in [1 .. DueOf(b, c) -> Kinds \X Int]
  /\ ok => \A i \in 1 .. DueOf(b, c) : f[i] = <<"phase", c.at + PhaseWords * (i - 1)>>

\* A run of phases is used, and none is due behind it.
LEMMA RunOn ==
  ASSUME NEW b \in Seq(Partitions), NEW t, NEW st, Trail(b, t, st), st[Len(t) + 1].walk = "end",
         NEW s, NEW ok, Used(t, s, ok), Len(s) + 1 \in 1 .. Len(t),
         st[Len(s) + 1].walk = "reads", st[Len(s) + 1].gr = b[st[Len(s) + 1].p].rounds,
         NEW f, PhasesAt(b, st[Len(s) + 1], f, ok)
  PROVE  LET u == s \o f
             c == st[Len(s) + 1]
         IN  /\ Used(t, u, ok)
             /\ DueOf(b, c) \in Nat
             /\ st[Len(u) + 1] = Stand(c.at + PhaseWords * DueOf(b, c), "reads",
                                       c.p, c.bs, c.ph + DueOf(b, c), c.gr)
             /\ DueOf(b, st[Len(u) + 1]) = 0
<1> DEFINE n == Len(s) + 1
           c == st[n]
           due == DueOf(b, c)
           u == s \o f
<1>1. \A i \in 0 .. due :
        /\ n + i \in 1 .. Len(t)
        /\ st[n + i] = Stand(c.at + PhaseWords * i, "reads", c.p, c.bs, c.ph + i, c.gr)
        /\ DueOf(b, st[n + i]) = due - i
        /\ i < due => t[n + i].kind = "phase"
  <2>1. st[n].walk = "reads" /\ st[n].gr = b[st[n].p].rounds /\ n \in 1 .. Len(t)
    OBVIOUS
  <2> HIDE DEF n
  <2>2. \A i \in 0 .. DueOf(b, st[n]) :
           /\ n + i \in 1 .. Len(t)
           /\ st[n + i] = Stand(st[n].at + PhaseWords * i, "reads",
                                st[n].p, st[n].bs, st[n].ph + i, st[n].gr)
           /\ DueOf(b, st[n + i]) = DueOf(b, st[n]) - i
           /\ i < DueOf(b, st[n]) => t[n + i].kind = "phase"
    BY <2>1, PhasesRun
  <2>3. QED
    BY <2>2
<1>2. due \in Nat /\ Len(s) \in Nat /\ Len(t) \in Nat /\ c.at \in Nat /\ t \in Seq(Sections)
  <2>1. Len(s) \in Nat /\ Len(t) \in Nat /\ t \in Seq(Sections) /\ n \in 1 .. Len(t) + 1
    BY DEF Used, Trail
  <2>2. c \in Stands /\ Within(b, c) /\ Past(b, c, t[n], st[n + 1])
    BY <2>1, TrailStep
  <2>3. DueOf(b, c) \in 0 .. Len(b[c.p].phases) - c.ph
    BY <2>2, NextIs
  <2>4. due \in Nat
    BY <2>3
  <2>5. QED
    BY <2>1, <2>2, <2>4, StandsAre
<1>3. ASSUME NEW i \in 1 .. due
      PROVE  t[Len(s) + i].kind = "phase" /\ t[Len(s) + i].at = c.at + PhaseWords * (i - 1)
  <2>1. i - 1 \in 0 .. due /\ i - 1 < due /\ n + (i - 1) = Len(s) + i
    <3>1. due \in Nat /\ Len(s) \in Nat
      BY <1>2
    <3> HIDE DEF due
    <3>2. QED
      BY <3>1
  <2>2. /\ Len(s) + i \in 1 .. Len(t)
        /\ st[Len(s) + i] = Stand(c.at + PhaseWords * (i - 1), "reads", c.p, c.bs, c.ph + (i - 1), c.gr)
        /\ t[Len(s) + i].kind = "phase"
    BY <1>1, <2>1
  <2>3. t[Len(s) + i].at = st[Len(s) + i].at
    BY <2>2 DEF Trail, Past
  <2>4. QED
    BY <2>2, <2>3, StandIs
<1>4. Used(t, u, ok) /\ Len(u) = Len(s) + due
  <2>1. ok => \A i \in 1 .. due : f[i] = <<t[Len(s) + i].kind, t[Len(s) + i].at>>
    BY <1>3 DEF PhasesAt
  <2>2. Len(s) + due <= Len(t)
    <3>1. due \in 0 .. due
      BY <1>2
    <3>2. n + due \in 1 .. Len(t)
      BY <1>1, <3>1
    <3>3. QED
      BY <1>2, <3>2
  <2>3. due \in Nat /\ f \in [1 .. due -> Kinds \X Int] /\ t \in Seq(Sections)
    BY <1>2 DEF PhasesAt
  <2> HIDE DEF due
  <2>4. QED
    BY <2>1, <2>2, <2>3, UsedRun
<1>5. /\ st[n + due] = Stand(c.at + PhaseWords * due, "reads", c.p, c.bs, c.ph + due, c.gr)
      /\ DueOf(b, st[n + due]) = 0
      /\ n + due = Len(u) + 1
  <2>1. due \in 0 .. due /\ due - due = 0
    BY <1>2
  <2>2. n + due = Len(u) + 1
    BY <1>2, <1>4
  <2>3. QED
    BY <1>1, <2>1, <2>2
<1>6. QED
  BY <1>2, <1>4, <1>5

LEMMA KernelOn ==
  ASSUME Inductive, reader = "kernel", NEW st, Trail(blk, tape, st), Walking(st),
         UNCHANGED <<reader, blk, tape>>,
         walk' \in {"header", "reads", "stage", "after", "sram", "clken", "end"},
         fetch' \in Nat,
         Used(tape, seen', RoundsInFront),
         KernelStands(st[Len(seen) + 1])'
  PROVE  Inductive'
<1>1. Used(tape', seen', reader' = "oracle" \/ RoundsInFront)
  BY DEF Used
<1>2. Walking(st)'
  BY <1>1 DEF Walking, Places
<1>3. QED
  BY <1>2 DEF Inductive

\* One section is used.
LEMMA KernelUses ==
  ASSUME reader = "kernel", NEW st, Trail(blk, tape, st), Walking(st),
         NEW k \in Kinds, NEW a \in Int, Use(k, a), Len(seen) + 1 \in 1 .. Len(tape),
         k = tape[Len(seen) + 1].kind, a = tape[Len(seen) + 1].at
  PROVE  Used(tape, seen', RoundsInFront) /\ Len(seen') + 1 = Len(seen) + 2
<1>1. Used(tape, seen, RoundsInFront) /\ tape \in Seq(Sections) /\ Len(seen) \in Nat
  BY DEF Walking, Used, Trail
<1>2. Used(tape, Append(seen, <<k, a>>), RoundsInFront) /\ Len(Append(seen, <<k, a>>)) = Len(seen) + 1
  BY <1>1, UsedOne
<1>3. QED
  BY <1>1, <1>2 DEF Use

\* Where the kernel stands, before it has come to the end.
LEMMA KernelAt ==
  ASSUME Inductive, reader = "kernel",
         walk \in {"header", "reads", "stage", "after", "sram", "clken"}
  PROVE  \E st : LET n == Len(seen) + 1
                     c == st[n]
                 IN  /\ Trail(blk, tape, st) /\ Walking(st)
                     /\ n \in 1 .. Len(tape) /\ Past(blk, c, tape[n], st[Len(seen) + 2])
                     /\ c \in Stands /\ Within(blk, c) /\ KernelStands(c)
                     /\ tape[n].at = c.at /\ tape \in Seq(Sections) /\ Len(seen) \in Nat
<1>1. PICK st : Trail(blk, tape, st) /\ Walking(st)
  BY DEF Inductive, Laying
<1> DEFINE n == Len(seen) + 1
           c == st[n]
<1>2. KernelStands(c)
  BY <1>1 DEF Walking
<1>3. c.walk \in {"header", "reads", "clken"}
  BY <1>2, StandIs DEF KernelStands
<1>4. /\ n \in 1 .. Len(tape) /\ Len(seen) \in Nat /\ c \in Stands /\ Within(blk, c)
      /\ tape[n].at = c.at /\ Past(blk, c, tape[n], st[n + 1]) /\ tape \in Seq(Sections)
  <2>1. st[Len(seen) + 1].walk # "end"
    BY <1>3
  <2>2. QED
    BY <1>1, <2>1, AtSection
<1>5. n + 1 = Len(seen) + 2
  BY <1>4
<1>6. QED
  BY <1>1, <1>2, <1>4, <1>5

LEMMA DueIsNat ==
  ASSUME NEW b \in Seq(Partitions), NEW c \in Stands, Within(b, c), c.walk = "reads"
  PROVE  /\ DueOf(b, c) \in Nat
         /\ c.p \in 1 .. Len(b)
         /\ b[c.p].rounds \in Nat /\ b[c.p].stages \in Nat \ {0} /\ Len(b[c.p].phases) \in Nat
<1>1. /\ c.p \in 1 .. Len(b) /\ c.ph \in Nat /\ c.bs \in Nat /\ c.ph <= Len(b[c.p].phases)
  BY StandsAre DEF Within
<1>2. /\ b[c.p] \in Partitions /\ b[c.p].rounds \in Nat /\ b[c.p].stages \in Nat \ {0}
      /\ Len(b[c.p].phases) \in Nat
  BY <1>1, PartIs
<1>3. DueOf(b, c) \in Nat
  <2>1. c.ph \in 0 .. Len(b[c.p].phases)
    BY <1>1, <1>2
  <2>2. Counts(b[c.p], c.ph, c.bs, DueOf(b, c))
    BY <1>1, <1>2, <2>1, DueCounts DEF DueOf
  <2>3. QED
    BY <2>2 DEF Counts
<1>4. QED
  BY <1>1, <1>2, <1>3

\* From the address of a header or a stage to that of the data behind phases.
LEMMA FarAhead ==
  ASSUME NEW a \in Nat, NEW r \in Nat, NEW d \in Nat
  PROVE  /\ PhaseWords * d \in Nat /\ RoundWords * r \in Nat
         /\ a + RoundWords * r + PhaseWords * d \in Nat
BY DEF PhaseWords, RoundWords

LEMMA HeaderRead == Inductive /\ reader = "kernel" /\ KernelHeader => Inductive'
<1> SUFFICES ASSUME Inductive, reader = "kernel", KernelHeader PROVE Inductive'
  OBVIOUS
<1>1. blk \in Seq(Partitions) /\ walk = "header"
  BY BlockHolds DEF KernelHeader
<1> DEFINE n == Len(seen) + 1
<1>2. PICK st : /\ Trail(blk, tape, st) /\ Walking(st)
                /\ n \in 1 .. Len(tape) /\ Past(blk, st[n], tape[n], st[Len(seen) + 2])
                /\ st[n] \in Stands /\ Within(blk, st[n]) /\ KernelStands(st[n])
                /\ tape[n].at = st[n].at /\ tape \in Seq(Sections) /\ Len(seen) \in Nat
  BY <1>1, KernelAt
<1> DEFINE c == st[n]
           d == st[Len(seen) + 2]
<1>3. /\ c = Stand(pi, "header", p, bs, ph, gr)
      /\ c.at = pi /\ c.walk = "header" /\ c.p = p /\ c.bs = bs /\ c.ph = ph /\ c.gr = gr
  <2>1. c = Stand(pi, "header", p, bs, ph, gr)
    BY <1>1, <1>2 DEF KernelStands
  <2>2. QED
    BY <2>1, StandIs
<1>4. bs = 0 /\ ph = 0 /\ gr = 0 /\ pi \in Nat
  BY <1>2, <1>3, StandsAre DEF Within
<1>5. PastHeader(blk, c, tape[n], d)
  BY <1>1, <1>2, <1>3, NextIs
<1>6. /\ Use("meta", pi) /\ pi' = pi + MetaWords
      /\ UNCHANGED <<reader, blk, tape, p, bs, ph, gr>>
  BY DEF KernelHeader, Keep
<1>7. Used(tape, seen', RoundsInFront) /\ Len(seen') + 1 = Len(seen) + 2
  <2>1. "meta" \in Kinds /\ pi \in Int /\ "meta" = tape[n].kind /\ pi = tape[n].at
    BY <1>2, <1>3, <1>4, <1>5 DEF Kinds, PastHeader
  <2>2. QED
    BY <1>2, <1>6, <2>1, KernelUses
<1>8. d = Stand(pi', IF blk = << >> THEN "end" ELSE "reads", p', bs', ph', gr')
  BY <1>3, <1>5, <1>6 DEF PastHeader
<1>9. d \in Stands /\ Within(blk, d)
  BY <1>1, <1>2, PastWithin
<1>10. pi' \in Nat
  BY <1>4, <1>6, WordsAreNat
<1> HIDE DEF n, c, d
<1>11. CASE blk = << >>
  <2>1. walk' = "end" /\ fetch' = fetch
    BY <1>11 DEF KernelHeader
  <2>2. KernelStands(st[Len(seen) + 1])'
    BY <1>7, <1>8, <1>11, <2>1 DEF KernelStands, d
  <2>3. fetch' \in Nat
    BY <1>2, <2>1 DEF Walking
  <2>4. QED
    BY <1>2, <1>6, <1>7, <2>1, <2>2, <2>3, KernelOn
<1>12. CASE blk # << >>
  <2>1. /\ walk' = "reads"
        /\ fetch' = pi' + RoundWords * Part.rounds + PhaseWords * Due(0)
    BY <1>12 DEF KernelHeader
  <2>2. d.walk = "reads" /\ d.p = p /\ d.bs = 0 /\ d.ph = ph
    BY <1>4, <1>6, <1>8, <1>12, StandIs
  <2>3. DueOf(blk, d) = Due(0)
    BY <2>2 DEF DueOf, DueAt, Due, Part
  <2>4. Due(0) \in Nat /\ Part.rounds \in Nat
    BY <1>1, <1>9, <2>2, <2>3, DueIsNat DEF Part
  <2>5. Due(0)' = Due(0) /\ Part' = Part /\ Part.rounds - gr' = Part.rounds
    BY <1>4, <1>6, <2>4 DEF Due, Part
  <2>6. fetch' \in Nat
    BY <1>10, <2>1, <2>4, FarAhead
  <2>7. fetch' = pi' + RoundWords * (Part'.rounds - gr') + PhaseWords * Due(0)'
    BY <2>1, <2>5
  <2>8. st[Len(seen') + 1] = Stand(pi', "reads", p', bs', ph', gr')
    BY <1>7, <1>8, <1>12 DEF d
  <2>9. KernelStands(st[Len(seen) + 1])'
    BY <1>4, <1>6, <2>1, <2>7, <2>8 DEF KernelStands
  <2>10. QED
    BY <1>2, <1>6, <1>7, <2>1, <2>6, <2>9, KernelOn
<1>13. QED
  BY <1>11, <1>12

LEMMA RoundRead == Inductive /\ reader = "kernel" /\ KernelRound => Inductive'
<1> SUFFICES ASSUME Inductive, reader = "kernel", KernelRound PROVE Inductive'
  OBVIOUS
<1>1. blk \in Seq(Partitions) /\ walk = "reads"
  BY BlockHolds DEF KernelRound
<1> DEFINE n == Len(seen) + 1
<1>2. PICK st : /\ Trail(blk, tape, st) /\ Walking(st)
                /\ n \in 1 .. Len(tape) /\ Past(blk, st[n], tape[n], st[Len(seen) + 2])
                /\ st[n] \in Stands /\ Within(blk, st[n]) /\ KernelStands(st[n])
                /\ tape[n].at = st[n].at /\ tape \in Seq(Sections) /\ Len(seen) \in Nat
  BY <1>1, KernelAt
<1> DEFINE c == st[n]
           d == st[Len(seen) + 2]
<1>3. /\ c = Stand(pi, "reads", p, bs, ph, gr)
      /\ c.at = pi /\ c.walk = "reads" /\ c.p = p /\ c.bs = bs /\ c.ph = ph /\ c.gr = gr
  <2>1. c = Stand(pi, "reads", p, bs, ph, gr)
    BY <1>1, <1>2 DEF KernelStands
  <2>2. QED
    BY <2>1, StandIs
<1>4. /\ bs = 0 /\ ph = 0
      /\ fetch = pi + RoundWords * (Part.rounds - gr) + PhaseWords * Due(0)
  BY <1>1, <1>2 DEF KernelStands
<1>5. PastRound(blk, c, tape[n], d)
  <2>1. c.gr < blk[c.p].rounds
    BY <1>3 DEF KernelRound, Part
  <2>2. QED
    BY <1>1, <1>2, <1>3, <2>1, NextIs
<1>6. /\ Use("read", pi) /\ pi' = pi + RoundWords /\ gr' = gr + 1
      /\ UNCHANGED <<reader, blk, tape, walk, p, bs, ph, fetch>>
  BY DEF KernelRound, Keep
<1>7. pi \in Nat /\ gr \in Nat
  BY <1>2, <1>3, StandsAre
<1>8. Used(tape, seen', RoundsInFront) /\ Len(seen') + 1 = Len(seen) + 2
  <2>1. "read" \in Kinds /\ pi \in Int /\ "read" = tape[n].kind /\ pi = tape[n].at
    BY <1>2, <1>3, <1>5, <1>7 DEF Kinds, PastRound
  <2>2. QED
    BY <1>2, <1>6, <2>1, KernelUses
<1>9. d = Stand(pi', "reads", p', bs', ph', gr')
  BY <1>3, <1>5, <1>6 DEF PastRound
<1>10. Part.rounds \in Nat /\ Due(0) \in Nat
  <2>1. DueOf(blk, c) = Due(0)
    BY <1>3, <1>4 DEF DueOf, DueAt, Due, Part
  <2>2. QED
    BY <1>1, <1>2, <1>3, <2>1, DueIsNat DEF Part
<1>11. fetch' = pi' + RoundWords * (Part.rounds - gr') + PhaseWords * Due(0)
  <2> DEFINE i == Part.rounds - gr'
             x == PhaseWords * Due(0)
  <2>1. i \in Int /\ Part.rounds - gr = i + 1 /\ x \in Nat
    <3>1. i \in Int /\ Part.rounds - gr = i + 1
      BY <1>6, <1>7, <1>10
    <3>2. x \in Nat
      BY <1>7, <1>10, FarAhead
    <3>3. QED
      BY <3>1, <3>2
  <2> HIDE DEF i, x
  <2>2. fetch = pi + RoundWords * (i + 1) + x
    BY <1>4, <2>1 DEF x
  <2>3. fetch = (pi + RoundWords) + RoundWords * i + x
    BY <1>7, <2>1, <2>2 DEF RoundWords
  <2>4. QED
    BY <1>6, <2>3 DEF i, x
<1> HIDE DEF n, c, d
<1>12. KernelStands(st[Len(seen) + 1])'
  <2>1. Due(0)' = Due(0) /\ Part' = Part
    BY <1>6 DEF Due, Part
  <2>2. st[Len(seen') + 1] = Stand(pi', "reads", p', bs', ph', gr')
    BY <1>8, <1>9 DEF d
  <2>3. QED
    BY <1>1, <1>4, <1>6, <1>11, <2>1, <2>2 DEF KernelStands
<1>13. fetch' \in Nat
  BY <1>2, <1>6 DEF Walking
<1>14. QED
  BY <1>1, <1>2, <1>6, <1>8, <1>12, <1>13, KernelOn

LEMMA BeforeRead == Inductive /\ reader = "kernel" /\ KernelBefore => Inductive'
<1> SUFFICES ASSUME Inductive, reader = "kernel", KernelBefore PROVE Inductive'
  OBVIOUS
<1>1. blk \in Seq(Partitions) /\ walk = "reads"
  BY BlockHolds DEF KernelBefore
<1> DEFINE n == Len(seen) + 1
<1>2. PICK st : /\ Trail(blk, tape, st) /\ Walking(st)
                /\ n \in 1 .. Len(tape) /\ Past(blk, st[n], tape[n], st[Len(seen) + 2])
                /\ st[n] \in Stands /\ Within(blk, st[n]) /\ KernelStands(st[n])
                /\ tape[n].at = st[n].at /\ tape \in Seq(Sections) /\ Len(seen) \in Nat
  BY <1>1, KernelAt
<1> DEFINE c == st[n]
           d == st[Len(seen) + 2]
<1>3. /\ c = Stand(pi, "reads", p, bs, ph, gr)
      /\ c.at = pi /\ c.walk = "reads" /\ c.p = p /\ c.bs = bs /\ c.ph = ph /\ c.gr = gr
  <2>1. c = Stand(pi, "reads", p, bs, ph, gr)
    BY <1>1, <1>2 DEF KernelStands
  <2>2. QED
    BY <2>1, StandIs
<1>4. /\ bs = 0 /\ ph = 0 /\ gr = Part.rounds
      /\ fetch = pi + RoundWords * (Part.rounds - gr) + PhaseWords * Due(0)
  BY <1>1, <1>2 DEF KernelStands, KernelBefore
<1>5. DueOf(blk, c) = Due(0)
  BY <1>3, <1>4 DEF DueOf, DueAt, Due, Part
<1>6. /\ Due(0) \in Nat /\ Part.rounds \in Nat /\ Part.stages > 0 /\ pi \in Nat
      /\ p \in 1 .. Len(blk)
  <2>1. /\ DueOf(blk, c) \in Nat /\ c.p \in 1 .. Len(blk)
        /\ blk[c.p].rounds \in Nat /\ blk[c.p].stages \in Nat \ {0}
    BY <1>1, <1>2, <1>3, DueIsNat
  <2>2. QED
    <3>1. pi \in Nat
      BY <1>2, <1>3, StandsAre
    <3>2. Part = blk[c.p] /\ p = c.p
      BY <1>3 DEF Part
    <3>3. Due(0) \in Nat /\ p \in 1 .. Len(blk)
      BY <1>5, <2>1, <3>2
    <3>4. Part.rounds \in Nat /\ Part.stages \in Nat \ {0}
      BY <2>1, <3>2
    <3>5. QED
      BY <3>1, <3>3, <3>4
<1> DEFINE ph_pi == pi + RoundWords * Part.rounds
           f == [i \in 1 .. Due(0) |-> <<"phase", ph_pi + PhaseWords * (i - 1)>>]
<1>7. /\ seen' = seen \o f
      /\ ph' = ph + Due(0) /\ pi' = pi + PhaseWords * Due(0)
      /\ walk' = "stage"
      /\ UNCHANGED <<reader, blk, tape, p, bs, gr, fetch>>
  BY DEF KernelBefore, Keep
<1>8. f \in [1 .. DueOf(blk, c) -> Kinds \X Int]
  <2>1. ph_pi \in Int /\ "phase" \in Kinds
    <3>1. RoundWords * Part.rounds \in Nat
      BY <1>6, FarAhead
    <3>2. QED
      BY <1>6, <3>1 DEF Kinds
  <2> HIDE DEF ph_pi
  <2>2. ASSUME NEW i \in 1 .. Due(0) PROVE <<"phase", ph_pi + PhaseWords * (i - 1)>> \in Kinds \X Int
    <3>1. i - 1 \in Nat
      BY <1>6
    <3>2. PhaseWords * (i - 1) \in Nat
      BY <1>6, <3>1, FarAhead
    <3>3. QED
      BY <2>1, <3>2
  <2>3. QED
    BY <1>5, <2>2
<1>9. RoundsInFront => \A i \in 1 .. DueOf(blk, c) : f[i] = <<"phase", c.at + PhaseWords * (i - 1)>>
  <2> SUFFICES ASSUME RoundsInFront, NEW i \in 1 .. Due(0)
               PROVE  f[i] = <<"phase", pi + PhaseWords * (i - 1)>>
    BY <1>3, <1>5
  <2>1. Part \in Plan["kernel"] /\ "kernel" \in Readers /\ Part \in Partitions
    BY <1>1, <1>6, PartIs DEF Inductive, Part
  <2>2. Part.rounds = 0 \/ Part.phases = << >> \/ Part.phases[1] > 0
    BY <2>1 DEF RoundsInFront
  <2>3. Due(0) > 0 /\ Due(0) = DueAt(Part, 0, 0)
    BY <1>4, <1>6 DEF Due, DueAt
  <2>4. Part.phases # << >> /\ Part.phases[1] = 0
    <3>1. 0 \in 0 .. Len(Part.phases) /\ Part.phases \in Seq(Nat)
      BY <2>1 DEF Partitions
    <3>2. Counts(Part, 0, 0, Due(0))
      BY <2>1, <2>3, <3>1, DueCounts
    <3>3. Len(Part.phases) > 0 /\ 1 \in 0 + 1 .. 0 + Due(0)
      BY <1>6, <2>3, <3>1, <3>2 DEF Counts
    <3>4. QED
      BY <3>2, <3>3 DEF Counts
  <2>5. Part.rounds = 0
    BY <2>2, <2>4
  <2>6. ph_pi = pi
    BY <1>6, <2>5, Times
  <2>7. QED
    BY <2>6
<1>10. /\ Used(tape, seen', RoundsInFront)
       /\ st[Len(seen') + 1] = Stand(pi', "reads", p', bs', ph', gr')
       /\ DueOf(blk, st[Len(seen') + 1]) = 0
  <2>1. st[Len(tape) + 1].walk = "end" /\ Used(tape, seen, RoundsInFront)
    BY <1>2 DEF Walking, Used
  <2>2. c.gr = blk[c.p].rounds
    BY <1>3, <1>4 DEF Part
  <2> HIDE DEF f
  <2>3. c.walk = "reads" /\ c.gr = blk[c.p].rounds /\ PhasesAt(blk, c, f, RoundsInFront)
    BY <1>3, <1>8, <1>9, <2>2 DEF PhasesAt
  <2>4. /\ Used(tape, seen \o f, RoundsInFront)
        /\ st[Len(seen \o f) + 1] = Stand(c.at + PhaseWords * DueOf(blk, c), "reads",
                                      c.p, c.bs, c.ph + DueOf(blk, c), c.gr)
        /\ DueOf(blk, st[Len(seen \o f) + 1]) = 0
    BY <1>1, <1>2, <2>1, <2>3, RunOn
  <2>5. QED
    BY <1>3, <1>5, <1>7, <2>4
<1> HIDE DEF n, c, d, f
<1>11. KernelStands(st[Len(seen) + 1])'
  <2>1. Due(bs)' = 0
    <3> DEFINE e == st[Len(seen') + 1]
    <3>1. e.p = p' /\ e.ph = ph' /\ e.bs = bs'
      BY <1>10, StandIs
    <3> HIDE DEF e
    <3>2. Due(bs)' = DueOf(blk', e)
      BY <3>1 DEF Due, DueOf, DueAt, Part
    <3>3. QED
      BY <1>7, <1>10, <3>2 DEF e
  <2>2. fetch' = pi'
    <3>1. Part.rounds - gr = 0 /\ RoundWords * 0 = 0 /\ PhaseWords * Due(0) \in Nat
      <4>1. PhaseWords * Due(0) \in Nat
        BY <1>6, FarAhead
      <4>2. Part.rounds - gr = 0 /\ RoundWords * 0 = 0
        BY <1>4, <1>6 DEF RoundWords
      <4>3. QED
        BY <4>1, <4>2
    <3>2. QED
      BY <1>4, <1>6, <1>7, <3>1
  <2>3. Part' = Part
    BY <1>7 DEF Part
  <2>4. QED
    BY <1>4, <1>6, <1>7, <1>10, <2>1, <2>2, <2>3 DEF KernelStands
<1>12. fetch' \in Nat
  BY <1>2, <1>7 DEF Walking
<1>13. QED
  BY <1>2, <1>7, <1>10, <1>11, <1>12, KernelOn

LEMMA StageRead == Inductive /\ reader = "kernel" /\ KernelStage => Inductive'
<1> SUFFICES ASSUME Inductive, reader = "kernel", KernelStage PROVE Inductive'
  OBVIOUS
<1>1. blk \in Seq(Partitions) /\ walk = "stage"
  BY BlockHolds DEF KernelStage
<1> DEFINE n == Len(seen) + 1
<1>2. PICK st : /\ Trail(blk, tape, st) /\ Walking(st)
                /\ n \in 1 .. Len(tape) /\ Past(blk, st[n], tape[n], st[Len(seen) + 2])
                /\ st[n] \in Stands /\ Within(blk, st[n]) /\ KernelStands(st[n])
                /\ tape[n].at = st[n].at /\ tape \in Seq(Sections) /\ Len(seen) \in Nat
  BY <1>1, KernelAt
<1> DEFINE c == st[n]
           d == st[Len(seen) + 2]
<1>3. /\ c = Stand(pi, "reads", p, bs, ph, gr)
      /\ c.at = pi /\ c.walk = "reads" /\ c.p = p /\ c.bs = bs /\ c.ph = ph /\ c.gr = gr
  <2>1. c = Stand(pi, "reads", p, bs, ph, gr)
    BY <1>1, <1>2 DEF KernelStands
  <2>2. QED
    BY <2>1, StandIs
<1>4. gr = Part.rounds /\ Due(bs) = 0 /\ bs < Part.stages /\ fetch = pi
  BY <1>1, <1>2 DEF KernelStands
<1>5. DueOf(blk, c) = Due(bs)
  BY <1>3 DEF DueOf, DueAt, Due, Part
<1>6. p \in 1 .. Len(blk) /\ pi \in Nat /\ bs \in Nat /\ Part.stages \in Nat
  <2>1. c.p \in 1 .. Len(blk) /\ blk[c.p].stages \in Nat
    BY <1>1, <1>2, <1>3, DueIsNat
  <2>2. QED
    BY <1>2, <1>3, <2>1, StandsAre DEF Part
<1>7. PastStage(blk, c, tape[n], d)
  <2>1. PastStage(blk, c, tape[n], d) \/ PastSram(blk, c, tape[n], d)
    BY <1>1, <1>2, <1>3, <1>4, <1>5, NextIs DEF Part
  <2>2. c.bs # blk[c.p].stages
    BY <1>3, <1>4, <1>6 DEF Part
  <2>3. QED
    BY <2>1, <2>2 DEF PastSram
<1>8. /\ Use("stage", pi) /\ pi' = pi + StageWords + PhaseWords * Due(bs + 1)
      /\ fetch' = pi' /\ walk' = "after"
      /\ UNCHANGED <<reader, blk, tape, p, bs, ph, gr>>
  BY <1>4 DEF KernelStage, NextData, Keep
<1>9. Used(tape, seen', RoundsInFront) /\ Len(seen') + 1 = Len(seen) + 2
  <2>1. "stage" \in Kinds /\ pi \in Int /\ "stage" = tape[n].kind /\ pi = tape[n].at
    BY <1>2, <1>3, <1>6, <1>7 DEF Kinds, PastStage
  <2>2. QED
    BY <1>2, <1>8, <2>1, KernelUses
<1>10. d = Stand(pi + StageWords, "reads", p, bs + 1, ph, gr)
  BY <1>3, <1>7 DEF PastStage
<1>11. Due(bs + 1) \in Nat
  <2>1. d.walk = "reads" /\ d.p = p /\ d.bs = bs + 1 /\ d.ph = ph
    BY <1>10, StandIs
  <2>2. d \in Stands /\ Within(blk, d)
    BY <1>1, <1>2, PastWithin
  <2>3. DueOf(blk, d) = Due(bs + 1)
    BY <2>1 DEF DueOf, DueAt, Due, Part
  <2>4. QED
    BY <1>1, <2>1, <2>2, <2>3, DueIsNat
<1> HIDE DEF n, c, d
<1>12. KernelStands(st[Len(seen) + 1])'
  <2>1. Due(bs + 1)' = Due(bs + 1) /\ Part' = Part
    BY <1>8 DEF Due, Part
  <2>2. pi' - PhaseWords * Due(bs + 1) = pi + StageWords
    BY <1>6, <1>8, <1>11, FarAhead, WordsAreNat
  <2>3. st[Len(seen') + 1] = Stand(pi' - PhaseWords * Due(bs + 1)', "reads", p', bs' + 1, ph', gr')
    BY <1>8, <1>9, <1>10, <2>1, <2>2 DEF d
  <2>4. QED
    BY <1>4, <1>6, <1>8, <2>1, <2>3 DEF KernelStands
<1>13. fetch' \in Nat
  <2>1. PhaseWords * Due(bs + 1) \in Nat
    BY <1>6, <1>11, FarAhead
  <2>2. QED
    BY <1>6, <1>8, <2>1, WordsAreNat
<1>14. QED
  BY <1>2, <1>8, <1>9, <1>12, <1>13, KernelOn

LEMMA AfterRead == Inductive /\ reader = "kernel" /\ KernelAfter => Inductive'
<1> SUFFICES ASSUME Inductive, reader = "kernel", KernelAfter PROVE Inductive'
  OBVIOUS
<1>1. blk \in Seq(Partitions) /\ walk = "after"
  BY BlockHolds DEF KernelAfter
<1> DEFINE n == Len(seen) + 1
<1>2. PICK st : /\ Trail(blk, tape, st) /\ Walking(st)
                /\ n \in 1 .. Len(tape) /\ Past(blk, st[n], tape[n], st[Len(seen) + 2])
                /\ st[n] \in Stands /\ Within(blk, st[n]) /\ KernelStands(st[n])
                /\ tape[n].at = st[n].at /\ tape \in Seq(Sections) /\ Len(seen) \in Nat
  BY <1>1, KernelAt
<1> DEFINE c == st[n]
           d == st[Len(seen) + 2]
<1>3. /\ c = Stand(pi - PhaseWords * Due(bs + 1), "reads", p, bs + 1, ph, gr)
      /\ c.at = pi - PhaseWords * Due(bs + 1) /\ c.walk = "reads" /\ c.p = p /\ c.bs = bs + 1 /\ c.ph = ph /\ c.gr = gr
  <2>1. c = Stand(pi - PhaseWords * Due(bs + 1), "reads", p, bs + 1, ph, gr)
    BY <1>1, <1>2 DEF KernelStands
  <2>2. QED
    BY <2>1, StandIs
<1>4. gr = Part.rounds /\ fetch = pi
  BY <1>1, <1>2 DEF KernelStands
<1>5. DueOf(blk, c) = Due(bs + 1)
  BY <1>3 DEF DueOf, DueAt, Due, Part
<1> DEFINE due == Due(bs + 1)
           f == [i \in 1 .. due |-> <<"phase", pi - PhaseWords * (due - i + 1)>>]
<1>6. /\ due \in Nat /\ p \in 1 .. Len(blk) /\ Part.stages \in Nat
      /\ bs + 1 \in Nat /\ bs + 1 <= Part.stages
  <2>1. /\ DueOf(blk, c) \in Nat /\ c.p \in 1 .. Len(blk) /\ blk[c.p].stages \in Nat
    BY <1>1, <1>2, <1>3, DueIsNat
  <2>2. c.bs \in Nat /\ c.bs <= blk[c.p].stages
    BY <1>2, <1>3, StandsAre DEF Within
  <2>3. QED
    BY <1>3, <1>5, <2>1, <2>2 DEF Part
<1>7. pi \in Nat /\ c.at \in Nat
  <2>1. c.at \in Nat /\ fetch \in Nat
    BY <1>2, StandsAre DEF Walking
  <2>2. QED
    BY <1>4, <2>1
<1>8. /\ seen' = seen \o f
      /\ ph' = ph + due /\ bs' = bs + 1
      /\ walk' = IF bs + 1 < Part.stages THEN "stage" ELSE "sram"
      /\ UNCHANGED <<reader, blk, tape, p, gr, pi, fetch>>
  BY DEF KernelAfter, Keep
<1>9. ASSUME NEW i \in 1 .. due
      PROVE  /\ pi - PhaseWords * (due - i + 1) \in Int
             /\ pi - PhaseWords * (due - i + 1) = c.at + PhaseWords * (i - 1)
  <2> DEFINE x == c.at
  <2>1. x = pi - PhaseWords * due /\ x \in Nat
    BY <1>3, <1>7
  <2> HIDE DEF x, due
  <2>2. /\ pi - PhaseWords * (due - i + 1) \in Int
        /\ pi - PhaseWords * (due - i + 1) = x + PhaseWords * (i - 1)
    BY <1>6, <1>7, <2>1 DEF PhaseWords
  <2>3. QED
    BY <2>2 DEF x
<1>10. PhasesAt(blk, c, f, RoundsInFront)
  <2>1. "phase" \in Kinds
    BY DEF Kinds
  <2>2. f \in [1 .. due -> Kinds \X Int]
    BY <1>9, <2>1
  <2>3. \A i \in 1 .. due : f[i] = <<"phase", c.at + PhaseWords * (i - 1)>>
    BY <1>9
  <2>4. QED
    BY <1>5, <2>2, <2>3 DEF PhasesAt
<1>11. /\ Used(tape, seen', RoundsInFront)
       /\ st[Len(seen') + 1] = Stand(pi', "reads", p', bs', ph', gr')
       /\ DueOf(blk, st[Len(seen') + 1]) = 0
  <2>1. st[Len(tape) + 1].walk = "end" /\ Used(tape, seen, RoundsInFront)
    BY <1>2 DEF Walking, Used
  <2>2. c.walk = "reads" /\ c.gr = blk[c.p].rounds
    BY <1>3, <1>4 DEF Part
  <2> HIDE DEF f
  <2>3. /\ Used(tape, seen \o f, RoundsInFront)
        /\ st[Len(seen \o f) + 1] = Stand(c.at + PhaseWords * DueOf(blk, c), "reads",
                                      c.p, c.bs, c.ph + DueOf(blk, c), c.gr)
        /\ DueOf(blk, st[Len(seen \o f) + 1]) = 0
    BY <1>1, <1>2, <1>10, <2>1, <2>2, RunOn
  <2>4. c.at + PhaseWords * due = pi
    <3>1. PhaseWords * due \in Nat
      BY <1>6, <1>7, FarAhead
    <3>2. QED
      BY <1>3, <1>7, <3>1
  <2>5. QED
    BY <1>3, <1>5, <1>8, <2>3, <2>4
<1> HIDE DEF n, c, d, f
<1>12. KernelStands(st[Len(seen) + 1])'
  <2>1. Due(bs)' = 0
    <3> DEFINE e == st[Len(seen') + 1]
    <3>1. e.p = p' /\ e.ph = ph' /\ e.bs = bs'
      BY <1>11, StandIs
    <3> HIDE DEF e
    <3>2. Due(bs)' = DueOf(blk', e)
      BY <3>1 DEF Due, DueOf, DueAt, Part
    <3>3. QED
      BY <1>8, <1>11, <3>2 DEF e
  <2>2. Part' = Part
    BY <1>8 DEF Part
  <2>3. QED
    BY <1>4, <1>8, <1>11, <2>1, <2>2 DEF KernelStands
<1>13. fetch' \in Nat /\ walk' \in {"stage", "sram"}
  BY <1>2, <1>8 DEF Walking
<1>14. QED
  BY <1>2, <1>8, <1>11, <1>12, <1>13, KernelOn

LEMMA SramRead == Inductive /\ reader = "kernel" /\ KernelSram => Inductive'
<1> SUFFICES ASSUME Inductive, reader = "kernel", KernelSram PROVE Inductive'
  OBVIOUS
<1>1. blk \in Seq(Partitions) /\ walk = "sram"
  BY BlockHolds DEF KernelSram
<1> DEFINE n == Len(seen) + 1
<1>2. PICK st : /\ Trail(blk, tape, st) /\ Walking(st)
                /\ n \in 1 .. Len(tape) /\ Past(blk, st[n], tape[n], st[Len(seen) + 2])
                /\ st[n] \in Stands /\ Within(blk, st[n]) /\ KernelStands(st[n])
                /\ tape[n].at = st[n].at /\ tape \in Seq(Sections) /\ Len(seen) \in Nat
  BY <1>1, KernelAt
<1> DEFINE c == st[n]
           d == st[Len(seen) + 2]
<1>3. /\ c = Stand(pi, "reads", p, bs, ph, gr)
      /\ c.at = pi /\ c.walk = "reads" /\ c.p = p /\ c.bs = bs /\ c.ph = ph /\ c.gr = gr
  <2>1. c = Stand(pi, "reads", p, bs, ph, gr)
    BY <1>1, <1>2 DEF KernelStands
  <2>2. QED
    BY <2>1, StandIs
<1>4. gr = Part.rounds /\ Due(bs) = 0 /\ ~(bs < Part.stages) /\ fetch = pi
  BY <1>1, <1>2 DEF KernelStands
<1>5. DueOf(blk, c) = Due(bs)
  BY <1>3 DEF DueOf, DueAt, Due, Part
<1>6. PastSram(blk, c, tape[n], d)
  <2>1. PastStage(blk, c, tape[n], d) \/ PastSram(blk, c, tape[n], d)
    BY <1>1, <1>2, <1>3, <1>4, <1>5, NextIs DEF Part
  <2>2. ~(c.bs < blk[c.p].stages)
    BY <1>3, <1>4 DEF Part
  <2>3. QED
    BY <2>1, <2>2 DEF PastStage
<1>7. pi \in Nat /\ ph = Len(Part.phases) /\ Len(Part.phases) - ph = 0
  <2>1. c.p \in 1 .. Len(blk) /\ Len(blk[c.p].phases) \in Nat /\ c.at \in Nat
    BY <1>1, <1>2, <1>3, DueIsNat, StandsAre
  <2>2. c.ph = Len(blk[c.p].phases)
    BY <1>6 DEF PastSram
  <2>3. QED
    BY <1>3, <2>1, <2>2 DEF Part
<1> DEFINE left == Len(Part.phases) - ph
           f == [i \in 1 .. left |-> <<"phase", pi + PhaseWords * (i - 1)>>]
<1>8. /\ seen' = seen \o f \o << <<"sram", pi>> >>
      /\ pi' = pi + PhaseWords * left + StageWords /\ fetch' = pi'
      /\ ph' = ph + left /\ walk' = "clken"
      /\ UNCHANGED <<reader, blk, tape, p, bs, gr>>
  BY <1>4 DEF KernelSram, Keep
<1>9. f \in [1 .. 0 -> Kinds \X Int]
  <2> HIDE DEF left
  <2>1. left = 0
    BY <1>7 DEF left
  <2>2. DOMAIN f = 1 .. 0 /\ 1 .. 0 = {}
    BY <2>1
  <2>3. QED
    BY <2>1, <2>2
<1>10. /\ ph' = ph /\ pi' = pi + StageWords /\ pi' \in Nat
       /\ Use("sram", pi)
  <2>1. left = 0 /\ ph \in Nat
    BY <1>2, <1>3, <1>7, StandsAre
  <2>2. seen \in Seq(Kinds \X Int) /\ <<"sram", pi>> \in Kinds \X Int
    BY <1>2, <1>7 DEF Walking, Used, Kinds
  <2> HIDE DEF f
  <2>3. seen' = Append(seen, <<"sram", pi>>)
    BY <1>8, <1>9, <2>2, NothingUsed
  <2>4. PhaseWords * left = 0
    BY <2>1 DEF PhaseWords
  <2> HIDE DEF left
  <2>5. QED
    BY <1>7, <1>8, <2>1, <2>3, <2>4, WordsAreNat DEF Use
<1>11. Used(tape, seen', RoundsInFront) /\ Len(seen') + 1 = Len(seen) + 2
  <2>1. "sram" \in Kinds /\ pi \in Int /\ "sram" = tape[n].kind /\ pi = tape[n].at
    BY <1>2, <1>3, <1>6, <1>7 DEF Kinds, PastSram
  <2>2. QED
    BY <1>2, <1>10, <2>1, KernelUses
<1>12. d = Stand(pi', "clken", p', bs', ph', gr')
  BY <1>3, <1>6, <1>8, <1>10 DEF PastSram
<1> HIDE DEF n, c, d, f, left
<1>13. KernelStands(st[Len(seen) + 1])'
  BY <1>8, <1>11, <1>12 DEF KernelStands, d
<1>14. QED
  BY <1>2, <1>8, <1>10, <1>11, <1>13, KernelOn

LEMMA ClkenRead == Inductive /\ reader = "kernel" /\ KernelClken => Inductive'
<1> SUFFICES ASSUME Inductive, reader = "kernel", KernelClken PROVE Inductive'
  OBVIOUS
<1>1. blk \in Seq(Partitions) /\ walk = "clken"
  BY BlockHolds DEF KernelClken
<1> DEFINE n == Len(seen) + 1
<1>2. PICK st : /\ Trail(blk, tape, st) /\ Walking(st)
                /\ n \in 1 .. Len(tape) /\ Past(blk, st[n], tape[n], st[Len(seen) + 2])
                /\ st[n] \in Stands /\ Within(blk, st[n]) /\ KernelStands(st[n])
                /\ tape[n].at = st[n].at /\ tape \in Seq(Sections) /\ Len(seen) \in Nat
  BY <1>1, KernelAt
<1> DEFINE c == st[n]
           d == st[Len(seen) + 2]
<1>3. /\ c = Stand(pi, "clken", p, bs, ph, gr)
      /\ c.at = pi /\ c.walk = "clken" /\ c.p = p /\ c.bs = bs /\ c.ph = ph /\ c.gr = gr
  <2>1. c = Stand(pi, "clken", p, bs, ph, gr)
    BY <1>1, <1>2 DEF KernelStands
  <2>2. QED
    BY <2>1, StandIs
<1>4. fetch = pi /\ pi \in Nat
  <2>1. fetch = pi
    BY <1>1, <1>2 DEF KernelStands
  <2>2. QED
    BY <1>2, <1>3, <2>1, StandsAre
<1>5. PastClken(blk, c, tape[n], d)
  BY <1>1, <1>2, <1>3, NextIs
<1>6. /\ Use("clken", pi) /\ pi' = pi + StageWords
      /\ bs' = 0 /\ ph' = 0 /\ gr' = 0
      /\ p' = IF p = Len(blk) THEN 1 ELSE p + 1
      /\ walk' = IF p = Len(blk) THEN "end" ELSE "header"
      /\ UNCHANGED <<reader, blk, tape, fetch>>
  BY <1>1, <1>4 DEF KernelClken, NextPartition, Keep
<1>7. Used(tape, seen', RoundsInFront) /\ Len(seen') + 1 = Len(seen) + 2
  <2>1. "clken" \in Kinds /\ pi \in Int /\ "clken" = tape[n].kind /\ pi = tape[n].at
    BY <1>2, <1>3, <1>4, <1>5 DEF Kinds, PastClken
  <2>2. QED
    BY <1>2, <1>6, <2>1, KernelUses
<1>8. d = Stand(pi', walk', p', bs', ph', gr')
  BY <1>3, <1>5, <1>6 DEF PastClken
<1> HIDE DEF n, c, d
<1>9. walk' \in {"header", "end"}
  BY <1>6
<1>10. KernelStands(st[Len(seen) + 1])'
  BY <1>7, <1>8, <1>9 DEF KernelStands, d
<1>11. fetch' \in Nat
  BY <1>2, <1>6 DEF Walking
<1>12. QED
  BY <1>2, <1>6, <1>7, <1>9, <1>10, <1>11, KernelOn

LEMMA KernelSteps == Inductive /\ reader = "kernel" /\ KernelNext => Inductive'
BY HeaderRead, RoundRead, BeforeRead, StageRead, AfterRead, SramRead, ClkenRead DEF KernelNext

-----------------------------------------------------------------------------
(* The theorems.                                                           *)

\* A step that changes nothing.
LEMMA StutterStep == Inductive /\ UNCHANGED vars => Inductive'
<1> SUFFICES ASSUME Inductive, UNCHANGED vars PROVE Inductive'
  OBVIOUS
<1>1. UNCHANGED <<reader, blk, tape, walk, p, bs, ph, gr, pi, fetch, seen>>
  BY DEF vars
<1>2. PICK st : Trail(blk, tape, st) /\ (Laying(st) \/ Walking(st))
  BY DEF Inductive
<1>3. Laying(st) => Laying(st)'
  BY <1>1 DEF Laying, Size
<1>4. Walking(st) => Walking(st)'
  BY <1>1 DEF Walking, OracleStands, KernelStands, Due, Part
<1>5. QED
  BY <1>1, <1>2, <1>3, <1>4 DEF Inductive

LEMMA InductiveStep == Inductive /\ [Next]_vars => Inductive'
BY HeaderEmitted, RoundEmitted, PhaseEmitted, StageEmitted, TailEmitted,
   KernelSteps, OracleSteps, StutterStep DEF Next, Finished

\* The script always has a trail on which whoever works on it stands.
THEOREM InductiveHolds == Spec => []Inductive
BY InitInductive, InductiveStep, PTL DEF Spec

\* On the trail the cursors of whoever reads the script or lays it out are in
\* range.
LEMMA InductiveTypes == Inductive => TypeOK
<1> SUFFICES ASSUME Inductive PROVE TypeOK
  OBVIOUS
<1>1. reader \in Readers /\ reader \in {"kernel", "oracle"}
  BY BlockHolds DEF Inductive
<1>2. PICK st : Trail(blk, tape, st) /\ (Laying(st) \/ Walking(st))
  BY DEF Inductive
<1>3. Len(tape) \in Nat
  BY <1>2 DEF Trail
<1>4. ASSUME NEW n \in 1 .. Len(tape) + 1
      PROVE  /\ st[n].p \in 1 .. Len(blk) \cup {1}
             /\ st[n].at \in Nat /\ st[n].bs \in Nat /\ st[n].ph \in Nat /\ st[n].gr \in Nat
  <2>1. st[n] \in Stands /\ Within(blk, st[n])
    BY <1>2, TrailStep
  <2>2. QED
    BY <2>1, StandsAre DEF Within
<1>5. CASE Laying(st)
  <2> DEFINE c == st[Len(tape) + 1]
  <2>1. walk \in Places /\ pi = 0 /\ fetch = 0
    BY <1>5 DEF Laying, Places
  <2>2. c.p = p /\ c.bs = bs /\ c.ph = ph /\ c.gr = gr
    BY <1>5, StandIs DEF Laying
  <2>3. Len(tape) + 1 \in 1 .. Len(tape) + 1
    BY <1>3
  <2>4. p \in 1 .. Len(blk) \cup {1} /\ bs \in Nat /\ ph \in Nat /\ gr \in Nat
    BY <1>4, <2>2, <2>3
  <2>5. QED
    BY <1>1, <2>1, <2>4 DEF TypeOK
<1>6. CASE Walking(st)
  <2> DEFINE c == st[Len(seen) + 1]
  <2>1. Len(seen) + 1 \in 1 .. Len(tape) + 1 /\ walk \in Places /\ fetch \in Nat
    BY <1>3, <1>6 DEF Walking, Used
  <2>2. /\ c.p \in 1 .. Len(blk) \cup {1}
        /\ c.at \in Nat /\ c.bs \in Nat /\ c.ph \in Nat /\ c.gr \in Nat
    BY <1>4, <2>1
  <2>3. c.p = p /\ c.ph = ph /\ c.gr = gr /\ (c.bs = bs \/ bs \in Nat) /\ (c.at = pi \/ fetch = pi)
    <3>1. CASE reader = "oracle"
      BY <1>6, <3>1, StandIs DEF Walking, OracleStands
    <3>2. CASE reader = "kernel"
      <4>1. KernelStands(c)
        BY <1>6, <3>2 DEF Walking
      <4>2. CASE walk = "after"
        <5>1. /\ c = Stand(pi - PhaseWords * Due(bs + 1), "reads", p, bs + 1, ph, gr)
              /\ bs \in Nat /\ fetch = pi
          BY <4>1, <4>2 DEF KernelStands
        <5>2. QED
          BY <5>1, StandIs
      <4>3. CASE walk # "after"
        <5>1. walk \in {"header", "end", "clken"} \/ walk \in {"reads", "stage", "sram"}
          <6>1. walk \in Places \ {"emit", "lay"}
            BY <1>6 DEF Walking
          <6>2. QED
            BY <4>3, <6>1 DEF Places
        <5>2. c = Stand(pi, walk, p, bs, ph, gr) \/ c = Stand(pi, "reads", p, bs, ph, gr)
          BY <4>1, <5>1 DEF KernelStands
        <5>3. QED
          BY <5>2, StandIs
      <4>4. QED
        BY <4>2, <4>3
    <3>3. QED
      BY <1>1, <3>1, <3>2
  <2>4. QED
    BY <1>1, <2>1, <2>2, <2>3 DEF TypeOK
<1>7. QED
  BY <1>2, <1>5, <1>6

\* Both readers use the sections in order, each at its address and as what it
\* is, provided the kernel has no macro phase in front of a partition's first
\* stage behind rounds of its global read.
LEMMA InductiveReads ==
  ASSUME RoundsInFront
  PROVE  Inductive => ReadsInOrder
<1> SUFFICES ASSUME Inductive, walk \notin {"emit", "lay"}
             PROVE  /\ Len(seen) <= Len(tape)
                    /\ \A n \in DOMAIN seen : seen[n] = <<tape[n].kind, tape[n].at>>
  BY DEF ReadsInOrder
<1>1. PICK st : Walking(st)
  BY DEF Inductive, Laying
<1>2. Used(tape, seen, TRUE)
  BY <1>1 DEF Walking, Used
<1>3. DOMAIN seen = 1 .. Len(seen)
  BY <1>2 DEF Used
<1>4. QED
  BY <1>2, <1>3 DEF Used

\* The kernel and the oracle take every section of every partition as what it is, once
\* and in order, unless a phase comes before the first stage and behind a round.
THEOREM ReadsInOrderHolds ==
  ASSUME RoundsInFront
  PROVE  Spec => []ReadsInOrder
BY InductiveHolds, InductiveReads, PTL

\* A reader that has stopped has used the whole script and stands at its end,
\* also where the kernel has missed phases.
LEMMA InductiveConsumes == Inductive => ConsumesAll
<1> SUFFICES ASSUME Inductive, walk = "end" PROVE pi = Size /\ Len(seen) = Len(tape)
  BY InductiveTypes DEF ConsumesAll
<1>1. reader \in {"kernel", "oracle"}
  BY BlockHolds
<1>2. PICK st : Trail(blk, tape, st) /\ Walking(st)
  BY DEF Inductive, Laying
<1> DEFINE c == st[Len(seen) + 1]
<1>3. c = Stand(pi, "end", p, bs, ph, gr)
  BY <1>1, <1>2 DEF Walking, OracleStands, KernelStands
<1>4. c.walk = "end" /\ c.at = pi
  BY <1>3, StandIs
<1>5. Len(seen) \in Nat /\ Len(tape) \in Nat /\ Len(seen) <= Len(tape)
  BY <1>2 DEF Walking, Used, Trail
<1>6. ~(Len(seen) + 1 <= Len(tape))
  <2> SUFFICES ASSUME Len(seen) + 1 <= Len(tape) PROVE FALSE
    OBVIOUS
  <2>1. Len(seen) + 1 \in 1 .. Len(tape)
    BY <1>5
  <2>2. Past(blk, c, tape[Len(seen) + 1], st[Len(seen) + 1 + 1])
    BY <1>2, <2>1 DEF Trail
  <2>3. QED
    BY <1>4, <2>2 DEF Past, PastHeader, PastRound, PastPhase, PastStage, PastSram, PastClken
<1>7. Len(seen) = Len(tape)
  BY <1>5, <1>6
<1>8. Size = SizeOf(tape)
  BY DEF Size, SizeOf
<1>9. QED
  BY <1>2, <1>4, <1>7, <1>8, TrailSize

\* Whoever has come through the script has read each of its words.
THEOREM ConsumesAllHolds == Spec => []ConsumesAll
BY InductiveHolds, InductiveConsumes, PTL

\* A stage, or what is behind the last, lies in the script.
LEMMA WideInside ==
  ASSUME NEW b \in Seq(Partitions), NEW t, NEW st, Trail(b, t, st), st[Len(t) + 1].walk = "end",
         NEW n \in 1 .. Len(t),
         \/ st[n].walk = "clken"
         \/ st[n].walk = "reads" /\ st[n].gr = b[st[n].p].rounds /\ DueOf(b, st[n]) = 0
  PROVE  st[n].at + StageWords <= SizeOf(t)
<1>1. n \in 1 .. Len(t) + 1 /\ n + 1 \in 1 .. Len(t) + 1
  BY DEF Trail
<1>2. st[n] \in Stands /\ Within(b, st[n]) /\ Past(b, st[n], t[n], st[n + 1])
  BY <1>1, TrailStep
<1>3. \/ PastClken(b, st[n], t[n], st[n + 1])
      \/ PastStage(b, st[n], t[n], st[n + 1])
      \/ PastSram(b, st[n], t[n], st[n + 1])
  BY <1>2, NextIs
<1>4. st[n + 1].at = st[n].at + StageWords
  BY <1>2, <1>3, PastLen DEF PastClken, PastStage, PastSram
<1>5. st[n + 1].at <= st[Len(t) + 1].at
  BY <1>1, TrailStep
<1>6. QED
  BY <1>4, <1>5, TrailSize

\* So does what comes behind the phases that are due.
LEMMA WideBehind ==
  ASSUME NEW b \in Seq(Partitions), NEW t, NEW st, Trail(b, t, st), st[Len(t) + 1].walk = "end",
         NEW n \in 1 .. Len(t), st[n].walk = "reads", st[n].gr = b[st[n].p].rounds
  PROVE  st[n].at + PhaseWords * DueOf(b, st[n]) + StageWords <= SizeOf(t)
<1> DEFINE due == DueOf(b, st[n])
           m == n + due
<1>1. due \in Nat
  <2>1. n \in 1 .. Len(t) + 1
    BY DEF Trail
  <2>2. st[n] \in Stands /\ Within(b, st[n])
    BY <2>1, TrailStep
  <2>3. QED
    BY <2>2, DueIsNat
<1>2. due \in 0 .. due /\ due - due = 0
  BY <1>1
<1>3. \A i \in 0 .. due :
           /\ n + i \in 1 .. Len(t)
           /\ st[n + i] = Stand(st[n].at + PhaseWords * i, "reads",
                                st[n].p, st[n].bs, st[n].ph + i, st[n].gr)
           /\ DueOf(b, st[n + i]) = due - i
  BY PhasesRun
<1>4. /\ m \in 1 .. Len(t)
      /\ st[m] = Stand(st[n].at + PhaseWords * due, "reads", st[n].p, st[n].bs, st[n].ph + due, st[n].gr)
      /\ DueOf(b, st[m]) = 0
  BY <1>2, <1>3
<1> HIDE DEF m
<1>5. st[m].walk = "reads" /\ st[m].p = st[n].p /\ st[m].gr = st[n].gr /\ st[m].at = st[n].at + PhaseWords * due
  BY <1>4, StandIs
<1>6. QED
  BY <1>4, <1>5, WideInside

\* What the kernel prefetches lies in the script or in the padding behind it,
\* wherever it stands.
LEMMA InductivePrefetches == Inductive => PrefetchInBounds
<1> SUFFICES ASSUME Inductive, reader = "kernel" PROVE PrefetchInBounds
  BY DEF PrefetchInBounds
<1>1. blk \in Seq(Partitions)
  BY BlockHolds
<1>2. Size = SizeOf(tape)
  BY DEF Size, SizeOf
<1>3. ASSUME walk \in {"reads", "end"} PROVE pi + RoundWords <= Size + Padding
  <2>1. PICK st : Trail(blk, tape, st) /\ Walking(st)
    BY <1>3 DEF Inductive, Laying
  <2>2. st[Len(seen) + 1].at = pi
    BY <1>3, <2>1, StandIs DEF Walking, KernelStands
  <2>3. Len(seen) + 1 \in 1 .. Len(tape) + 1 /\ Len(tape) + 1 \in 1 .. Len(tape) + 1
    BY <2>1 DEF Walking, Used, Trail
  <2>4. pi <= Size /\ pi \in Nat /\ Size \in Nat
    <3>1. /\ st[Len(seen) + 1].at <= st[Len(tape) + 1].at
          /\ st[Len(seen) + 1] \in Stands /\ st[Len(tape) + 1] \in Stands
      BY <2>1, <2>3, TrailStep
    <3>2. Size = st[Len(tape) + 1].at
      BY <1>2, <2>1, TrailSize
    <3>3. QED
      BY <2>2, <3>1, <3>2, StandsAre
  <2>5. QED
    BY <2>4, WordsAreNat
<1>4. ASSUME walk \in {"reads", "stage", "after", "sram", "clken"}
      PROVE  fetch + StageWords <= Size
  <2> DEFINE n == Len(seen) + 1
  <2>1. PICK st : /\ Trail(blk, tape, st) /\ Walking(st)
                  /\ n \in 1 .. Len(tape)
                  /\ st[n] \in Stands /\ Within(blk, st[n]) /\ KernelStands(st[n])
    BY <1>4, KernelAt
  <2> DEFINE c == st[n]
  <2>2. st[Len(tape) + 1].walk = "end"
    BY <2>1 DEF Walking
  <2>3. CASE walk \in {"stage", "sram", "clken"}
    <3>1. c.at = pi /\ fetch = pi /\ c.p = p /\ c.bs = bs /\ c.ph = ph /\ c.gr = gr
      BY <2>1, <2>3, StandIs DEF KernelStands
    <3>2. c.walk = "clken" \/ (c.walk = "reads" /\ c.gr = blk[c.p].rounds /\ DueOf(blk, c) = 0)
      <4>1. walk = "clken" => c.walk = "clken"
        BY <2>1, StandIs DEF KernelStands
      <4>2. walk \in {"stage", "sram"} => c.walk = "reads" /\ gr = Part.rounds /\ Due(bs) = 0
        BY <2>1, StandIs DEF KernelStands
      <4>3. DueOf(blk, c) = Due(bs)
        BY <3>1 DEF DueOf, DueAt, Due, Part
      <4>4. QED
        BY <2>3, <3>1, <4>1, <4>2, <4>3 DEF Part
    <3> HIDE DEF n
    <3>3. c.at + StageWords <= SizeOf(tape)
      BY <1>1, <2>1, <2>2, <3>2, WideInside
    <3>4. QED
      BY <1>2, <3>1, <3>3
  <2>4. CASE walk = "after"
    <3>1. /\ c = Stand(pi - PhaseWords * Due(bs + 1), "reads", p, bs + 1, ph, gr)
          /\ fetch = pi /\ gr = Part.rounds
      BY <2>1, <2>4 DEF KernelStands
    <3>2. /\ c.at = pi - PhaseWords * Due(bs + 1) /\ c.walk = "reads" /\ c.p = p
          /\ c.bs = bs + 1 /\ c.ph = ph /\ c.gr = gr
      BY <3>1, StandIs
    <3>3. DueOf(blk, c) = Due(bs + 1)
      BY <3>2 DEF DueOf, DueAt, Due, Part
    <3>4. c.gr = blk[c.p].rounds
      BY <3>1, <3>2 DEF Part
    <3>5. DueOf(blk, c) \in Nat /\ fetch \in Nat /\ c.at \in Nat
      BY <1>1, <2>1, <3>2, DueIsNat, StandsAre DEF Walking
    <3>6. c.at + PhaseWords * DueOf(blk, c) = fetch
      <4>1. PhaseWords * DueOf(blk, c) \in Nat
        BY <3>5, FarAhead
      <4>2. QED
        BY <3>1, <3>2, <3>3, <3>5, <4>1
    <3> HIDE DEF n
    <3>7. c.at + PhaseWords * DueOf(blk, c) + StageWords <= SizeOf(tape)
      BY <1>1, <2>1, <2>2, <3>2, <3>4, WideBehind
    <3>8. QED
      BY <1>2, <3>6, <3>7
  <2>5. CASE walk = "reads"
    <3>1. /\ c = Stand(pi, "reads", p, bs, ph, gr) /\ bs = 0 /\ ph = 0
          /\ fetch = pi + RoundWords * (Part.rounds - gr) + PhaseWords * Due(0)
      BY <2>1, <2>5 DEF KernelStands
    <3>2. c.at = pi /\ c.walk = "reads" /\ c.p = p /\ c.bs = bs /\ c.ph = ph /\ c.gr = gr
      BY <3>1, StandIs
    <3> DEFINE left == blk[c.p].rounds - c.gr
               m == n + left
    <3>3. left \in 0 .. left /\ blk[c.p].rounds \in Nat /\ c.gr \in Nat /\ c.gr + left = blk[c.p].rounds
      <4>1. c.gr <= blk[c.p].rounds /\ c.gr \in Nat
        BY <2>1, <3>2, StandsAre DEF Within
      <4>2. blk[c.p].rounds \in Nat
        BY <1>1, <2>1, <3>2, DueIsNat
      <4>3. QED
        BY <4>1, <4>2
    <3>4. \A i \in 0 .. left :
           /\ n + i \in 1 .. Len(tape)
           /\ st[n + i] = Stand(c.at + RoundWords * i, "reads", c.p, c.bs, c.ph, c.gr + i)
      <4> HIDE DEF n
      <4>1. QED
        BY <1>1, <2>1, <2>2, <3>2, RoundsRun
    <3>5. /\ m \in 1 .. Len(tape)
          /\ st[m] = Stand(c.at + RoundWords * left, "reads", c.p, c.bs, c.ph, c.gr + left)
      <4> HIDE DEF n, c, left
      <4>1. QED
        BY <3>3, <3>4
    <3> HIDE DEF m
    <3>6. /\ st[m].at = c.at + RoundWords * left /\ st[m].walk = "reads" /\ st[m].p = c.p
          /\ st[m].bs = c.bs /\ st[m].ph = c.ph /\ st[m].gr = c.gr + left
      BY <3>5, StandIs
    <3>7. DueOf(blk, st[m]) = Due(0)
      BY <3>1, <3>2, <3>6 DEF DueOf, DueAt, Due, Part
    <3>8. st[m].at + PhaseWords * DueOf(blk, st[m]) + StageWords <= SizeOf(tape)
      BY <1>1, <2>1, <2>2, <3>3, <3>5, <3>6, WideBehind
    <3>9. fetch = st[m].at + PhaseWords * DueOf(blk, st[m])
      BY <3>1, <3>2, <3>6, <3>7 DEF Part
    <3>10. QED
      BY <1>2, <3>8, <3>9
  <2>6. QED
    BY <1>4, <2>3, <2>4, <2>5
<1>5. QED
  BY <1>3, <1>4 DEF PrefetchInBounds

\* What the kernel fetches in advance is inside the block's script.
THEOREM PrefetchInBoundsHolds == Spec => []PrefetchInBounds
BY InductiveHolds, InductivePrefetches, PTL

=============================================================================
