--------------------------- MODULE BuildOneProofs ---------------------------
(***************************************************************************)
(* What holds of Partition::build_one for every design, whatever the       *)
(* stages have room for.                                                   *)
(***************************************************************************)
EXTENDS BuildOne, Induction, FiniteSetTheorems

-----------------------------------------------------------------------------
(* The graph: cones, levels and how they are found. *)

LEMMA PinsAre ==
  /\ IsFiniteSet(Pins) /\ Cardinality(Pins) \in Nat /\ Pins = 1 .. Cardinality(Pins)
  /\ Pins \in SUBSET (0 .. Cardinality(Pins))
<1>1. IsFiniteSet(Pins) /\ Pins = 1 .. Cardinality(Pins)
  BY ShapeAssumption
<1>2. Cardinality(Pins) \in Nat
  BY <1>1, FS_CardinalityType
<1>3. 1 .. Cardinality(Pins) \subseteq 0 .. Cardinality(Pins)
  BY <1>2
<1>4. QED
  BY <1>1, <1>2, <1>3, Zenon

LEMMA NetIs ==
  ASSUME NEW n \in Nets
  PROVE  /\ n.gates \subseteq Pins /\ n.macros \subseteq Pins /\ n.early \subseteq Pins
         /\ n.gates \cap n.macros = {} /\ n.gates \cap n.early = {} /\ n.macros \cap n.early = {}
         /\ n.targets \subseteq Pins
         /\ \A p \in Pins : /\ n.fanin[p] \subseteq Pins /\ n.state[p] \subseteq Pins
                            /\ \A q \in n.fanin[p] \cup n.state[p] : q < p
                            /\ p \in n.gates => n.fanin[p] # {}
                            /\ p \notin n.gates \cup n.macros => n.fanin[p] = {}
                            /\ p \notin n.macros => n.state[p] = {}
<1>1. /\ n.gates \subseteq Pins /\ n.macros \subseteq Pins /\ n.early \subseteq Pins
      /\ n.gates \cap n.macros = {} /\ (n.gates \cup n.macros) \cap n.early = {}
      /\ n.targets \subseteq Pins
  BY NetAssumption
<1>2. ASSUME NEW p \in Pins
      PROVE  /\ n.fanin[p] \subseteq {q \in Pins : q < p} /\ n.state[p] \subseteq {q \in Pins : q < p}
             /\ p \in n.gates => n.fanin[p] # {}
             /\ p \notin n.gates \cup n.macros => n.fanin[p] = {}
             /\ p \notin n.macros => n.state[p] = {}
  BY NetAssumption
<1>3. QED
  BY <1>1, <1>2

\* What is reached from a pin through X.
Reached(f, n, X) ==
  f = [p \in Pins |-> {p} \cup (IF p \in X THEN UNION {f[q] : q \in n.fanin[p]} ELSE {})]

LEMMA ReachedExists ==
  ASSUME NEW n \in Nets, NEW X
  PROVE  \E f \in [Pins -> SUBSET Pins] : Reached(f, n, X)
<1> DEFINE G == [Pins -> SUBSET Pins]
           Step(f) == [p \in Pins |-> {p} \cup (IF p \in X THEN UNION {f[q] : q \in n.fanin[p]} ELSE {})]
           F == [f \in G |-> Step(f)]
<1>1. ASSUME NEW f \in G PROVE Step(f) \in G
  <2>1. ASSUME NEW p \in Pins PROVE UNION {f[q] : q \in n.fanin[p]} \subseteq Pins
    <3>1. \A q \in n.fanin[p] : q \in Pins
      BY NetIs
    <3>2. QED
      BY <3>1
  <2>2. QED
    BY <2>1
<1>2. F \in [G -> G]
  BY <1>1
<1>3. G # {}
  <2>1. [p \in Pins |-> {}] \in G
    OBVIOUS
  <2>2. QED
    BY <2>1
<1>4. ASSUME NEW f \in G, NEW g \in G, NEW p \in Pins, \A q \in Pins : q < p => f[q] = g[q]
      PROVE  F[f][p] = F[g][p]
  <2>1. \A q \in n.fanin[p] : f[q] = g[q]
    BY <1>4, NetIs
  <2>2. UNION {f[q] : q \in n.fanin[p]} = UNION {g[q] : q \in n.fanin[p]}
    BY <2>1
  <2>3. QED
    BY <2>2
<1>5. Local(F, G, Pins)
  <2> HIDE DEF G, F
  <2> QED BY <1>4 DEF Local
<1>6. Over(G, Pins)
  BY DEF Over
<1>7. \E f \in G : F[f] = f
  <2> HIDE DEF G, F
  <2>1. PICK b \in Nat : Pins \in SUBSET (0 .. b)
    BY PinsAre
  <2>2. QED
    BY <1>2, <1>3, <1>5, <1>6, <2>1, LocalRecursion
<1>8. PICK f \in G : F[f] = f
  BY <1>7
<1>9. f = Step(f)
  BY <1>8
<1>10. QED
  BY <1>9 DEF Reached

LEMMA ConeByReach ==
  ASSUME NEW n \in Nets, NEW through, NEW stop, NEW from
  PROVE  \E f : Reached(f, n, through \ stop) /\ Cone(n, through, stop, from) = UNION {f[p] : p \in from}
<1> DEFINE w == CHOOSE f : Reached(f, n, through \ stop)
<1>1. Reached(w, n, through \ stop)
  BY ReachedExists
<1>2. Cone(n, through, stop, from) = UNION {w[p] : p \in from}
  BY DEF Cone, Reached
<1>3. QED
  BY <1>1, <1>2

\* A cone holds what it starts from and the fan-in of what it goes through, and is
\* the least set that does.
LEMMA ConeIs ==
  ASSUME NEW n \in Nets, NEW through, NEW stop, NEW from \in SUBSET Pins
  PROVE  /\ Cone(n, through, stop, from) \in SUBSET Pins
         /\ from \subseteq Cone(n, through, stop, from)
         /\ \A p \in Cone(n, through, stop, from) :
              p \in through /\ p \notin stop => n.fanin[p] \subseteq Cone(n, through, stop, from)
<1>1. PICK f : Reached(f, n, through \ stop) /\ Cone(n, through, stop, from) = UNION {f[p] : p \in from}
  BY ConeByReach
<1> DEFINE X == through \ stop
<1>2. \A p \in Pins : f[p] = {p} \cup (IF p \in X THEN UNION {f[q] : q \in n.fanin[p]} ELSE {})
  BY <1>1 DEF Reached
<1> HIDE DEF X
<1>3. \A p \in Pins : \A q \in n.fanin[p] : q \in Pins /\ q < p
  BY NetIs
<1> DEFINE Fine(p) == /\ f[p] \subseteq Pins
                      /\ \A q \in f[p] : q \in X => n.fanin[q] \subseteq f[p]
           T == {p \in Pins : Fine(p)}
<1>4. Pins \subseteq T
  <2>1. ASSUME NEW p \in Pins, \A q \in Pins : q < p => q \in T PROVE p \in T
    <3>1. \A q \in n.fanin[p] : Fine(q)
      BY <1>3, <2>1
    <3>2. CASE p \in X
      <4>1. f[p] = {p} \cup UNION {f[q] : q \in n.fanin[p]}
        BY <1>2, <3>2
      <4>2. \A q \in n.fanin[p] : q \in f[q]
        BY <1>2, <1>3
      <4>3. n.fanin[p] \subseteq f[p]
        BY <4>1, <4>2
      <4>4. ASSUME NEW q \in f[p], q \in X PROVE n.fanin[q] \subseteq f[p]
        <5>1. CASE q = p
          BY <4>3, <5>1
        <5>2. CASE q # p
          <6>1. PICK r \in n.fanin[p] : q \in f[r]
            BY <4>1, <5>2
          <6>2. n.fanin[q] \subseteq f[r]
            BY <3>1, <4>4, <6>1
          <6>3. QED
            BY <4>1, <6>2
        <5>3. QED
          BY <5>1, <5>2
      <4>5. f[p] \subseteq Pins
        BY <3>1, <4>1
      <4>6. QED
        BY <4>4, <4>5
    <3>3. CASE p \notin X
      <4>1. f[p] = {p}
        BY <1>2, <3>3
      <4>2. QED
        BY <3>3, <4>1
    <3>4. QED
      BY <3>2, <3>3
  <2>2. QED
    <3> HIDE DEF T
    <3> QED BY <2>1, PinsAre, SmallerInduction
<1>5. \A p \in Pins : Fine(p)
  BY <1>4
<1>6. \A p \in from : p \in f[p] /\ Fine(p)
  BY <1>2, <1>5
<1>7. QED
  BY <1>1, <1>6 DEF X

LEMMA ConeLeast ==
  ASSUME NEW n \in Nets, NEW through, NEW stop, NEW from \in SUBSET Pins, NEW S,
         from \subseteq S,
         \A p \in S : p \in through /\ p \notin stop => n.fanin[p] \subseteq S
  PROVE  Cone(n, through, stop, from) \subseteq S
<1>1. PICK f : Reached(f, n, through \ stop) /\ Cone(n, through, stop, from) = UNION {f[p] : p \in from}
  BY ConeByReach
<1> DEFINE X == through \ stop
<1>2. \A p \in Pins : f[p] = {p} \cup (IF p \in X THEN UNION {f[q] : q \in n.fanin[p]} ELSE {})
  BY <1>1 DEF Reached
<1>3. \A p \in S : p \in X => n.fanin[p] \subseteq S
  OBVIOUS
<1> HIDE DEF X
<1> DEFINE T == {p \in Pins : p \in S => f[p] \subseteq S}
<1>4. Pins \subseteq T
  <2>1. ASSUME NEW p \in Pins, \A q \in Pins : q < p => q \in T PROVE p \in T
    <3>1. \A q \in n.fanin[p] : q \in T
      BY <2>1, NetIs
    <3>2. QED
      BY <1>2, <1>3, <3>1
  <2>2. QED
    <3> HIDE DEF T
    <3> QED BY <2>1, PinsAre, SmallerInduction
<1>5. QED
  BY <1>1, <1>4

\* Going through more from more reaches more.
LEMMA ConeGrows ==
  ASSUME NEW n \in Nets, NEW through, NEW stop, NEW from \in SUBSET Pins,
         NEW through2, NEW stop2, NEW from2 \in SUBSET Pins,
         through \ stop \subseteq through2 \ stop2, from \subseteq from2
  PROVE  Cone(n, through, stop, from) \subseteq Cone(n, through2, stop2, from2)
<1> DEFINE S == Cone(n, through2, stop2, from2)
<1>1. from2 \subseteq S /\ \A p \in S : p \in through2 /\ p \notin stop2 => n.fanin[p] \subseteq S
  BY ConeIs
<1>2. from \subseteq S /\ \A p \in S : p \in through /\ p \notin stop => n.fanin[p] \subseteq S
  BY <1>1
<1>3. Cone(n, through, stop, from) \subseteq S
  <2> HIDE DEF S
  <2> QED BY <1>2, ConeLeast
<1>4. QED
  BY <1>3

\* A cone holds the cones of its pins.
LEMMA ConeOfCone ==
  ASSUME NEW n \in Nets, NEW through, NEW stop, NEW from \in SUBSET Pins,
         NEW p \in Cone(n, through, stop, from)
  PROVE  Cone(n, through, stop, {p}) \subseteq Cone(n, through, stop, from)
<1> DEFINE S == Cone(n, through, stop, from)
<1>1. S \in SUBSET Pins /\ \A q \in S : q \in through /\ q \notin stop => n.fanin[q] \subseteq S
  BY ConeIs
<1>2. {p} \in SUBSET Pins /\ {p} \subseteq S
  BY <1>1
<1>3. Cone(n, through, stop, {p}) \subseteq S
  <2> HIDE DEF S
  <2> QED BY <1>1, <1>2, ConeLeast
<1>4. QED
  BY <1>3

\* What the cone of a set holds is in the cone of one of its pins.
LEMMA ConeOfOne ==
  ASSUME NEW n \in Nets, NEW through, NEW stop, NEW from \in SUBSET Pins,
         NEW p \in Cone(n, through, stop, from)
  PROVE  \E q \in from : p \in Cone(n, through, stop, {q})
<1> DEFINE S == UNION {Cone(n, through, stop, {q}) : q \in from}
<1>1. ASSUME NEW q \in from
      PROVE  /\ q \in Cone(n, through, stop, {q})
             /\ \A r \in Cone(n, through, stop, {q}) :
                  r \in through /\ r \notin stop => n.fanin[r] \subseteq Cone(n, through, stop, {q})
  <2>1. {q} \in SUBSET Pins
    OBVIOUS
  <2>2. QED
    BY <2>1, ConeIs
<1>2. from \subseteq S
  BY <1>1
<1>3. \A r \in S : r \in through /\ r \notin stop => n.fanin[r] \subseteq S
  BY <1>1
<1>4. Cone(n, through, stop, from) \subseteq S
  <2> HIDE DEF S
  <2> QED BY <1>2, <1>3, ConeLeast
<1>5. QED
  BY <1>4

\* What is stopped at goes no further.
LEMMA ConeStops ==
  ASSUME NEW n \in Nets, NEW through, NEW stop, NEW p \in Pins, p \in stop
  PROVE  Cone(n, through, stop, {p}) = {p}
<1>1. Cone(n, through, stop, {p}) \subseteq {p}
  <2>1. {p} \in SUBSET Pins /\ \A q \in {p} : q \in through /\ q \notin stop => n.fanin[q] \subseteq {p}
    OBVIOUS
  <2>2. QED
    BY <2>1, ConeLeast
<1>2. {p} \subseteq Cone(n, through, stop, {p})
  BY ConeIs
<1>3. QED
  BY <1>1, <1>2

LEMMA MaxIs ==
  ASSUME NEW b \in Nat, NEW S, S \subseteq 0 .. b, S # {}
  PROVE  Max(S) \in S /\ \A x \in S : x <= Max(S)
<1>1. PICK n \in S : \A m \in S : m <= n
  BY GreatestNumber
<1>2. \A m \in S : n >= m
  BY <1>1
<1>3. Max(S) \in S /\ \A m \in S : Max(S) >= m
  BY <1>2, Zenon DEF Max
<1>4. QED
  BY <1>3

\* The level of what is not realized.
Leveled(f, n, X) ==
  f = [p \in Pins |-> IF p \in X THEN 1 + Max({f[q] : q \in n.fanin[p]}) ELSE 0]

LEMMA LeveledExists ==
  ASSUME NEW n \in Nets, NEW X \in SUBSET n.gates
  PROVE  \E f : Leveled(f, n, X)
<1> DEFINE G == {f \in [Pins -> Nat] : \A p \in Pins : f[p] <= p}
           Step(f) == [p \in Pins |-> IF p \in X THEN 1 + Max({f[q] : q \in n.fanin[p]}) ELSE 0]
           F == [f \in G |-> Step(f)]
<1>1. ASSUME NEW f \in G PROVE Step(f) \in G
  <2>1. ASSUME NEW p \in Pins, p \in X PROVE 1 + Max({f[q] : q \in n.fanin[p]}) \in 1 .. p
    <3>1. p \in Nat \ {0} /\ p - 1 \in Nat
      BY PinsAre
    <3>2. \A q \in n.fanin[p] : q \in Pins /\ q < p /\ q \in Nat
      BY NetIs, PinsAre
    <3>3. \A q \in n.fanin[p] : f[q] \in 0 .. p - 1
      BY <3>1, <3>2
    <3>4. {f[q] : q \in n.fanin[p]} # {}
      BY <2>1, NetIs
    <3>5. Max({f[q] : q \in n.fanin[p]}) \in {f[q] : q \in n.fanin[p]}
      <4> DEFINE S == {f[q] : q \in n.fanin[p]}
      <4>1. S \subseteq 0 .. p - 1 /\ S # {}
        BY <3>3, <3>4
      <4> HIDE DEF S
      <4>2. Max(S) \in S
        BY <3>1, <4>1, MaxIs
      <4>3. QED
        BY <4>2 DEF S
    <3>6. Max({f[q] : q \in n.fanin[p]}) \in 0 .. p - 1
      BY <3>3, <3>5
    <3>7. QED
      BY <3>1, <3>6
  <2>2. \A p \in Pins : p \in Nat
    BY PinsAre
  <2>3. \A p \in Pins : Step(f)[p] \in Nat /\ Step(f)[p] <= p
    BY <2>1, <2>2
  <2>4. QED
    BY <2>3
<1>2. F \in [G -> G]
  BY <1>1
<1>3. G # {}
  <2>1. [p \in Pins |-> 0] \in G
    BY PinsAre
  <2>2. QED
    BY <2>1
<1>4. ASSUME NEW f \in G, NEW g \in G, NEW p \in Pins, \A q \in Pins : q < p => f[q] = g[q]
      PROVE  F[f][p] = F[g][p]
  <2>1. \A q \in n.fanin[p] : f[q] = g[q]
    BY <1>4, NetIs
  <2>2. {f[q] : q \in n.fanin[p]} = {g[q] : q \in n.fanin[p]}
    BY <2>1
  <2>3. QED
    BY <2>2
<1>5. Local(F, G, Pins)
  <2> HIDE DEF G, F
  <2> QED BY <1>4 DEF Local
<1>6. Over(G, Pins)
  BY DEF Over
<1>7. \E f \in G : F[f] = f
  <2> HIDE DEF G, F
  <2>1. PICK b \in Nat : Pins \in SUBSET (0 .. b)
    BY PinsAre
  <2>2. QED
    BY <1>2, <1>3, <1>5, <1>6, <2>1, LocalRecursion
<1>8. PICK f \in G : F[f] = f
  BY <1>7
<1>9. f = Step(f)
  BY <1>8
<1>10. QED
  BY <1>9 DEF Leveled

LEMMA LeveledIs ==
  ASSUME NEW n \in Nets, NEW X \in SUBSET n.gates, NEW f, Leveled(f, n, X)
  PROVE  /\ f \in [Pins -> Nat] /\ \A p \in Pins : f[p] <= p
         /\ \A p \in Pins : p \notin X => f[p] = 0
         /\ \A p \in X : \A q \in n.fanin[p] : f[q] < f[p]
<1> DEFINE Good(p) == f[p] \in Nat /\ f[p] <= p
           T == {p \in Pins : Good(p)}
<1>1. /\ f = [p \in Pins |-> f[p]]
      /\ \A p \in Pins : f[p] = IF p \in X THEN 1 + Max({f[q] : q \in n.fanin[p]}) ELSE 0
  BY DEF Leveled
<1>2. \A p \in Pins : p \in Nat \ {0} /\ p - 1 \in Nat
  BY PinsAre
<1>3. ASSUME NEW p \in Pins, p \in X, \A q \in n.fanin[p] : Good(q)
      PROVE  /\ Max({f[q] : q \in n.fanin[p]}) \in 0 .. p - 1
             /\ \A q \in n.fanin[p] : f[q] <= Max({f[q2] : q2 \in n.fanin[p]})
  <2> DEFINE S == {f[q] : q \in n.fanin[p]}
  <2>1. \A q \in n.fanin[p] : q \in Pins /\ q < p /\ q \in Nat
    BY <1>2, NetIs
  <2>2. \A q \in n.fanin[p] : f[q] \in 0 .. p - 1
    BY <1>2, <1>3, <2>1
  <2>3. S \subseteq 0 .. p - 1 /\ S # {}
    BY <1>3, <2>2, NetIs
  <2>4. Max(S) \in S /\ \A x \in S : x <= Max(S)
    <3> HIDE DEF S
    <3> QED BY <1>2, <2>3, MaxIs
  <2>5. Max(S) \in 0 .. p - 1
    BY <2>3, <2>4
  <2>6. \A q \in n.fanin[p] : f[q] \in S
    OBVIOUS
  <2>7. \A q \in n.fanin[p] : f[q] <= Max(S)
    <3> HIDE DEF S
    <3> QED BY <2>4, <2>6
  <2>8. QED
    BY <2>5, <2>7
<1>4. Pins \subseteq T
  <2>1. ASSUME NEW p \in Pins, \A q \in Pins : q < p => q \in T PROVE p \in T
    <3>1. \A q \in n.fanin[p] : Good(q)
      BY <2>1, NetIs
    <3>2. CASE p \in X
      <4>1. f[p] = 1 + Max({f[q] : q \in n.fanin[p]})
        BY <1>1, <3>2
      <4>2. Max({f[q] : q \in n.fanin[p]}) \in 0 .. p - 1
        BY <1>3, <3>1, <3>2
      <4>3. QED
        BY <1>2, <4>1, <4>2
    <3>3. CASE p \notin X
      <4>1. f[p] = 0
        BY <1>1, <3>3
      <4>2. QED
        BY <1>2, <4>1
    <3>4. QED
      BY <3>2, <3>3
  <2>2. QED
    <3> HIDE DEF T
    <3> QED BY <2>1, PinsAre, SmallerInduction
<1>5. \A p \in Pins : Good(p)
  BY <1>4
<1>6. f \in [Pins -> Nat]
  BY <1>1, <1>5
<1>7. ASSUME NEW p \in X, NEW q \in n.fanin[p] PROVE f[q] < f[p]
  <2>1. p \in Pins /\ \A r \in n.fanin[p] : Good(r)
    BY <1>5, NetIs
  <2>2. f[p] = 1 + Max({f[r] : r \in n.fanin[p]})
    BY <1>1, <2>1
  <2>3. Max({f[r] : r \in n.fanin[p]}) \in 0 .. p - 1 /\ f[q] <= Max({f[r] : r \in n.fanin[p]})
    BY <1>3, <2>1
  <2>4. f[q] \in Nat /\ p \in Nat
    BY <1>2, <2>1
  <2>5. QED
    BY <2>2, <2>3, <2>4
<1>8. QED
  BY <1>1, <1>5, <1>6, <1>7

LEMMA LevelIs ==
  ASSUME net \in Nets
  PROVE  /\ Level \in [Pins -> Nat]
         /\ \A p \in Pins : p \notin net.gates \/ p \in realized => Level[p] = 0
         /\ \A p \in net.gates \ realized : \A q \in net.fanin[p] : Level[q] < Level[p]
<1> DEFINE w == CHOOSE f : Leveled(f, net, net.gates \ realized)
<1>1. Leveled(w, net, net.gates \ realized)
  BY LeveledExists
<1>2. Level = w
  BY DEF Level, Leveled
<1>3. Leveled(Level, net, net.gates \ realized)
  BY <1>1, <1>2
<1>4. PICK X : X = net.gates \ realized
  OBVIOUS
<1>5. X \in SUBSET net.gates /\ Leveled(Level, net, X)
  BY <1>3, <1>4
<1>6. /\ Level \in [Pins -> Nat]
      /\ \A p \in Pins : p \notin X => Level[p] = 0
      /\ \A p \in X : \A q \in net.fanin[p] : Level[q] < Level[p]
  BY <1>5, LeveledIs
<1>7. QED
  BY <1>4, <1>6

\* What a cone holds is where it starts or feeds what it goes through.
LEMMA ConeEntry ==
  ASSUME NEW n \in Nets, NEW through, NEW stop, NEW from \in SUBSET Pins,
         NEW p \in Cone(n, through, stop, from), p \notin from
  PROVE  \E x \in Cone(n, through, stop, from) :
           x \in through /\ x \notin stop /\ p \in n.fanin[x]
<1> DEFINE D == Cone(n, through, stop, from)
           S == from \cup {q \in D : \E x \in D : x \in through /\ x \notin stop /\ q \in n.fanin[x]}
<1>1. D \in SUBSET Pins /\ from \subseteq D
      /\ \A x \in D : x \in through /\ x \notin stop => n.fanin[x] \subseteq D
  BY ConeIs
<1>2. S \subseteq D /\ \A x \in S : x \in through /\ x \notin stop => n.fanin[x] \subseteq S
  <2> HIDE DEF D
  <2> QED BY <1>1
<1>3. D \subseteq S
  <2> HIDE DEF S
  <2>1. from \subseteq S
    BY DEF S
  <2>2. QED
    BY <1>2, <2>1, ConeLeast
<1>4. QED
  BY <1>3

-----------------------------------------------------------------------------
(* A boomerang stage. *)

\* The pins that are looked up by who computes p: realized, or not a gate.
Input(n, rz, p) == p \in rz \/ p \notin n.gates

InFlight == Cone(net, net.gates, realized, targets)

StageIs(h, w, r) ==
  /\ stages' = Append(stages, [reads |-> r, holds |-> h, wrote |-> w])
  /\ h \subseteq InFlight
  /\ w \subseteq targets /\ w \subseteq h
  /\ realized' = realized \cup h
  /\ targets' = (targets \ w) \cup (keep \cap realized')
  /\ pc' = IF NoProgress(realized', targets') THEN "refused" ELSE "stages"
  /\ \A q \in r : q \in InFlight /\ Input(net, realized, q)
  /\ \A q \in Cone(net, net.gates, realized \cup h, targets) :
       Input(net, realized \cup h, q) => q \in h

LEMMA LevelZero ==
  ASSUME net \in Nets, NEW p \in Pins
  PROVE  /\ Level[p] \in Nat
         /\ Level[p] = 0 <=> Input(net, realized, p)
<1>1. Level \in [Pins -> Nat] /\ (Input(net, realized, p) => Level[p] = 0)
  BY LevelIs DEF Input
<1>2. ASSUME ~Input(net, realized, p) PROVE Level[p] # 0
  <2>1. p \in net.gates \ realized /\ net.fanin[p] # {}
    BY <1>2, NetIs DEF Input
  <2>2. PICK q \in net.fanin[p] : q \in Pins
    BY <2>1, NetIs
  <2>3. Level[q] < Level[p]
    BY <2>1, LevelIs
  <2>4. Level[q] \in Nat /\ Level[p] \in Nat
    BY <1>1, <2>2
  <2>5. QED
    BY <2>3, <2>4
<1>3. QED
  BY <1>1, <1>2

LEMMA TreeInFlight ==
  ASSUME net \in Nets, targets \in SUBSET Pins, NEW m \in InFlight
  PROVE  TreeOf(Level, m) \subseteq InFlight
<1>1. InFlight \in SUBSET Pins
      /\ \A p \in InFlight : p \in net.gates /\ p \notin realized => net.fanin[p] \subseteq InFlight
  BY ConeIs DEF InFlight
<1>2. ASSUME NEW p \in InFlight, p \in {x \in Pins : Level[x] >= 2} PROVE net.fanin[p] \subseteq InFlight
  <2>1. Level[p] # 0
    BY <1>2, LevelZero
  <2>2. ~Input(net, realized, p)
    BY <1>1, <2>1, LevelZero
  <2>3. QED
    BY <1>1, <2>2 DEF Input
<1>3. QED
  <2> DEFINE through == {x \in Pins : Level[x] >= 2}
  <2>1. {m} \in SUBSET Pins /\ {m} \subseteq InFlight
    BY <1>1
  <2>2. \A p \in InFlight : p \in through /\ p \notin {} => net.fanin[p] \subseteq InFlight
    BY <1>2
  <2>3. Cone(net, through, {}, {m}) \subseteq InFlight
    <3> HIDE DEF through
    <3> QED BY <2>1, <2>2, ConeLeast
  <2>4. QED
    BY <2>3 DEF TreeOf

LEMMA Built ==
  ASSUME net \in Nets, realized \in SUBSET Pins, targets \in SUBSET Pins, BuildStage
  PROVE  \E h, w, r : StageIs(h, w, r)
<1>1. PICK nodes \in Chosen(Level) :
        LET trees == UNION {TreeOf(Level, m) : m \in nodes}
            holds == trees \cup Necessary(Level, trees)
        IN \E wrote \in Writable(holds) :
             /\ stages' = Append(stages, [reads |-> ReadsOf(Level, holds),
                                          holds |-> holds, wrote |-> wrote])
             /\ realized' = realized \cup holds
             /\ targets' = (targets \ wrote) \cup Rearmed(realized')
             /\ pc' = IF NoProgress(realized', targets') THEN "refused" ELSE "stages"
  BY DEF BuildStage
<1>2. PICK trees : trees = UNION {TreeOf(Level, m) : m \in nodes}
  OBVIOUS
<1>3. PICK h : h = trees \cup Necessary(Level, trees)
  OBVIOUS
<1>4. PICK w \in Writable(h) :
             /\ stages' = Append(stages, [reads |-> ReadsOf(Level, h), holds |-> h, wrote |-> w])
             /\ realized' = realized \cup h
             /\ targets' = (targets \ w) \cup Rearmed(realized')
             /\ pc' = IF NoProgress(realized', targets') THEN "refused" ELSE "stages"
  BY <1>1, <1>2, <1>3
<1>5. w \subseteq targets /\ w \subseteq h
  BY DEF Writable
<1>6. InFlight \in SUBSET Pins /\ targets \subseteq InFlight
      /\ \A p \in InFlight : p \in net.gates /\ p \notin realized => net.fanin[p] \subseteq InFlight
  BY ConeIs DEF InFlight
<1>7. \A p \in InFlight : Level[p] \in Nat /\ (Level[p] = 0 <=> Input(net, realized, p))
  BY <1>6, LevelZero
<1>8. trees \subseteq InFlight
  <2>1. nodes \subseteq InFlight
    BY DEF Chosen, InFlight
  <2>2. \A m \in nodes : TreeOf(Level, m) \subseteq InFlight
    BY <2>1, TreeInFlight
  <2>3. QED
    BY <1>2, <2>2
<1> DEFINE O == Cone(net, net.gates, realized \cup trees, targets)
<1>9. O \subseteq InFlight
  <2>1. net.gates \ (realized \cup trees) \subseteq net.gates \ realized
    OBVIOUS
  <2>2. QED
    BY <2>1, ConeGrows DEF InFlight
<1> DEFINE open == O \ trees
           deep == {p \in open : Level[p] >= 2}
<1>10. Necessary(Level, trees) =
         {p \in open : (Level[p] = 0 /\ p \in targets) \/ Level[p] = 1}
         \cup ({p \in UNION {net.fanin[x] : x \in deep} : Level[p] = 0} \ trees)
  BY DEF Necessary
<1>11. \A x \in InFlight : Level[x] # 0 => net.fanin[x] \subseteq InFlight
  BY <1>6, <1>7 DEF Input
<1>12. h \subseteq InFlight
  <2>1. \A x \in deep : net.fanin[x] \subseteq InFlight
    BY <1>9, <1>11
  <2> HIDE DEF O
  <2>2. QED
    BY <1>3, <1>8, <1>9, <1>10, <2>1
<1>13. ASSUME NEW q \in ReadsOf(Level, h) PROVE q \in InFlight /\ Input(net, realized, q)
  <2>1. CASE q \in h /\ Level[q] = 0
    BY <1>7, <1>12, <2>1
  <2>2. CASE \E x \in h : Level[x] = 1 /\ q \in net.fanin[x]
    <3>1. PICK x \in h : Level[x] = 1 /\ q \in net.fanin[x]
      BY <2>2
    <3>2. x \in InFlight /\ q \in InFlight
      BY <1>11, <1>12, <3>1
    <3>3. x \in net.gates \ realized
      BY <1>7, <3>1, <3>2 DEF Input
    <3>4. Level[q] < Level[x]
      BY <3>1, <3>3, LevelIs
    <3>5. Level[q] = 0
      BY <1>7, <3>1, <3>2, <3>4
    <3>6. QED
      BY <1>7, <3>2, <3>5
  <2>3. QED
    BY <2>1, <2>2 DEF ReadsOf
<1>14. ASSUME NEW q \in Cone(net, net.gates, realized \cup h, targets),
              Input(net, realized \cup h, q), q \notin h
       PROVE  FALSE
  <2> DEFINE D == Cone(net, net.gates, realized \cup h, targets)
  <2>1. D \subseteq O
    <3>1. net.gates \ (realized \cup h) \subseteq net.gates \ (realized \cup trees)
      BY <1>3
    <3>2. QED
      BY <3>1, ConeGrows
  <2>2. q \in open /\ q \in InFlight
    BY <1>3, <1>9, <1>14, <2>1
  <2>3. Level[q] = 0
    BY <1>7, <1>14, <2>2 DEF Input
  <2>4. q \notin targets
    BY <1>3, <1>10, <1>14, <2>2, <2>3
  <2>5. PICK x \in D : x \in net.gates /\ x \notin realized \cup h /\ q \in net.fanin[x]
    BY <1>14, <2>4, ConeEntry
  <2>6. x \in open /\ x \in InFlight
    BY <1>3, <1>9, <2>1, <2>5
  <2>7. Level[x] \in Nat /\ Level[x] # 0 /\ Level[x] # 1
    <3>1. Level[x] \in Nat /\ Level[x] # 0
      BY <1>7, <2>5, <2>6 DEF Input
    <3>2. Level[x] # 1
      BY <1>3, <1>10, <2>5, <2>6
    <3>3. QED
      BY <3>1, <3>2
  <2>8. x \in deep
    BY <2>6, <2>7
  <2>9. q \in h
    BY <1>3, <1>10, <2>3, <2>5, <2>8
  <2>10. QED
    BY <1>14, <2>9
<1>15. StageIs(h, w, ReadsOf(Level, h))
  BY <1>4, <1>5, <1>12, <1>13, <1>14 DEF StageIs, Rearmed
<1>16. QED
  BY <1>15

-----------------------------------------------------------------------------
(* The waves. *)

Macros(n) == Cone(n, n.gates \cup n.macros, n.early, n.targets) \cap n.macros

Ranks(g, S) ==
  LET depths == {g[m] : m \in S}
      rank(m) == Cardinality({d \in depths : d <= g[m]})
  IN [d \in 1 .. Cardinality(depths) |-> {m \in S : rank(m) = d}]

LEMMA RanksAre ==
  ASSUME NEW g, NEW S, IsFiniteSet(S)
  PROVE  /\ Ranks(g, S) \in Seq(SUBSET S)
         /\ \A d, e \in DOMAIN Ranks(g, S) : d # e => Ranks(g, S)[d] \cap Ranks(g, S)[e] = {}
<1> DEFINE depths == {g[m] : m \in S}
           rank(m) == Cardinality({d \in depths : d <= g[m]})
           K == Cardinality(depths)
<1>1. IsFiniteSet(depths)
  <2> DEFINE h == [m \in S |-> g[m]]
  <2>1. h \in Surjection(S, depths)
    BY DEF Surjection
  <2>2. QED
    BY <2>1, FS_Surjection
<1>2. K \in Nat
  BY <1>1, FS_CardinalityType
<1>3. Ranks(g, S) = [d \in 1 .. K |-> {m \in S : rank(m) = d}]
  BY DEF Ranks
<1> HIDE DEF rank, K, depths
<1>4. Ranks(g, S) \in [1 .. K -> SUBSET S]
  BY <1>3
<1>5. Ranks(g, S) \in Seq(SUBSET S)
  BY <1>2, <1>4
<1>6. QED
  BY <1>3, <1>5

LEMMA WavesAre ==
  ASSUME NEW n \in Nets, NEW late
  PROVE  /\ WavesOf(n, late) \in Seq(SUBSET n.macros)
         /\ \A d, e \in DOMAIN WavesOf(n, late) :
              d # e => WavesOf(n, late)[d] \cap WavesOf(n, late)[e] = {}
<1>1. \E g : WavesOf(n, late) = Ranks(g, Macros(n))
  BY DEF WavesOf, Ranks, Macros
<1>2. PICK g : WavesOf(n, late) = Ranks(g, Macros(n))
  BY <1>1
<1>3. Macros(n) \subseteq n.macros /\ IsFiniteSet(Macros(n))
  <2>1. Macros(n) \subseteq n.macros /\ Macros(n) \subseteq Pins
    BY NetIs DEF Macros
  <2>2. QED
    BY <2>1, PinsAre, FS_Subset
<1>4. Ranks(g, Macros(n)) \in Seq(SUBSET Macros(n))
      /\ \A d, e \in DOMAIN Ranks(g, Macros(n)) :
           d # e => Ranks(g, Macros(n))[d] \cap Ranks(g, Macros(n))[e] = {}
  BY <1>3, RanksAre
<1>5. QED
  BY <1>2, <1>3, <1>4

-----------------------------------------------------------------------------
(* What the variables hold. *)

Pcs == {"wave", "stages", "done", "refused", "panic"}
Stages == [reads : SUBSET Pins, holds : SUBSET Pins, wrote : SUBSET Pins]
Phases == [macros : SUBSET Pins, after : Nat]

\* The design and its waves, which no step changes.
Design ==
  /\ net \in Nets
  /\ waves \in Seq(SUBSET net.macros)
  /\ \A d, e \in DOMAIN waves : d # e => waves[d] \cap waves[e] = {}

Shapes ==
  /\ Design
  /\ pc \in Pcs
  /\ wi \in 1 .. Len(waves) + 1
  /\ phases \in Seq(Phases) /\ Len(phases) = wi - 1
  /\ pending = UNION {waves[d] : d \in wi .. Len(waves)}
  /\ net.early \subseteq realized /\ InWaves(waves) \subseteq realized
  /\ realized \in SUBSET Pins /\ targets \in SUBSET Pins
  /\ keep \in SUBSET Pins /\ blocked \in SUBSET Pins
  /\ stages \in Seq(Stages)
  /\ \A s \in DOMAIN stages : stages[s].wrote \subseteq stages[s].holds

LEMMA WavesInPins ==
  ASSUME Design
  PROVE  /\ Len(waves) \in Nat /\ DOMAIN waves = 1 .. Len(waves)
         /\ \A d \in DOMAIN waves : waves[d] \subseteq net.macros /\ waves[d] \subseteq Pins
         /\ InWaves(waves) \subseteq net.macros /\ InWaves(waves) \subseteq Pins
<1>1. net.macros \subseteq Pins
  BY NetIs DEF Design
<1>2. Len(waves) \in Nat /\ DOMAIN waves = 1 .. Len(waves)
      /\ \A d \in DOMAIN waves : waves[d] \in SUBSET net.macros
  BY DEF Design
<1>3. QED
  BY <1>1, <1>2 DEF InWaves

LEMMA ReqInPins ==
  ASSUME Design
  PROVE  /\ \A d \in DOMAIN waves : Req(net, waves, d) \subseteq Pins
         /\ \A d \in 1 .. Len(waves) + 1 : ReqFrom(d) \subseteq Pins
<1>1. \A m \in Pins : Inputs(net, m) \subseteq Pins
  BY NetIs DEF Design, Inputs
<1>2. \A d \in DOMAIN waves : Req(net, waves, d) \subseteq Pins
  BY <1>1, WavesInPins DEF Req
<1>3. ASSUME NEW d \in 1 .. Len(waves) + 1 PROVE ReqFrom(d) \subseteq Pins
  <2>1. d .. Len(waves) \subseteq DOMAIN waves
    BY WavesInPins
  <2>2. QED
    BY <1>2, <2>1 DEF ReqFrom
<1>4. QED
  BY <1>2, <1>3

\* Outputs that no phase has produced are among the waves'.
LEMMA PendingIs ==
  ASSUME Shapes
  PROVE  /\ pending \subseteq InWaves(waves) /\ pending \subseteq realized
         /\ pending \subseteq net.macros
         /\ wi \notin DOMAIN waves => pending = {} /\ wi = Len(waves) + 1
<1>1. Len(waves) \in Nat /\ DOMAIN waves = 1 .. Len(waves) /\ InWaves(waves) \subseteq net.macros
  BY WavesInPins DEF Shapes
<1>2. pending = UNION {waves[d] : d \in wi .. Len(waves)} /\ wi \in 1 .. Len(waves) + 1
      /\ InWaves(waves) \subseteq realized
  BY DEF Shapes
<1>3. wi .. Len(waves) \subseteq DOMAIN waves
  BY <1>1, <1>2
<1>4. pending \subseteq InWaves(waves)
  BY <1>2, <1>3 DEF InWaves
<1>5. wi \notin DOMAIN waves => wi = Len(waves) + 1
  BY <1>1, <1>2
<1>6. wi = Len(waves) + 1 => wi .. Len(waves) = {}
  BY <1>1
<1>7. QED
  BY <1>1, <1>2, <1>4, <1>5, <1>6

\* A stage is added at the end, and what it writes is written.
LEMMA Appended ==
  ASSUME Shapes, NEW h, NEW w, NEW r, StageIs(h, w, r)
  PROVE  /\ h \in SUBSET Pins /\ w \in SUBSET Pins /\ r \in SUBSET Pins
         /\ stages' \in Seq(Stages) /\ Len(stages') = Len(stages) + 1
         /\ DOMAIN stages' = DOMAIN stages \cup {Len(stages')}
         /\ \A s \in DOMAIN stages : stages'[s] = stages[s]
         /\ stages'[Len(stages')].holds = h /\ stages'[Len(stages')].wrote = w
         /\ stages'[Len(stages')].reads = r
<1>1. InFlight \in SUBSET Pins
  <2>1. net \in Nets /\ targets \in SUBSET Pins
    BY DEF Shapes, Design
  <2>2. QED
    BY <2>1, ConeIs DEF InFlight
<1>2. h \in SUBSET Pins /\ w \in SUBSET Pins /\ r \in SUBSET Pins
  BY <1>1 DEF StageIs
<1>3. PICK g : g = [reads |-> r, holds |-> h, wrote |-> w]
  OBVIOUS
<1>4. g \in Stages /\ g.holds = h /\ g.wrote = w /\ g.reads = r
  BY <1>2, <1>3 DEF Stages
<1>5. stages' = Append(stages, g) /\ stages \in Seq(Stages)
  BY <1>3 DEF StageIs, Shapes
<1>6. stages' \in Seq(Stages) /\ Len(stages') = Len(stages) + 1
      /\ \A s \in 1 .. Len(stages) : stages'[s] = stages[s]
  BY <1>4, <1>5
<1>7. stages'[Len(stages')] = g
  <2>1. stages'[Len(stages) + 1] = g
    BY <1>4, <1>5
  <2>2. QED
    BY <1>6, <2>1
<1>8. DOMAIN stages = 1 .. Len(stages) /\ DOMAIN stages' = 1 .. Len(stages) + 1 /\ Len(stages) \in Nat
  BY <1>5, <1>6
<1>9. DOMAIN stages' = DOMAIN stages \cup {Len(stages')}
  BY <1>6, <1>8
<1>10. \A s \in DOMAIN stages : stages'[s] = stages[s]
  BY <1>6, <1>8
<1>11. /\ stages'[Len(stages')].holds = h /\ stages'[Len(stages')].wrote = w
       /\ stages'[Len(stages')].reads = r
  BY <1>4, <1>7
<1>12. stages' \in Seq(Stages) /\ Len(stages') = Len(stages) + 1
  BY <1>6
<1>13. QED
  BY <1>2, <1>9, <1>10, <1>11, <1>12

LEMMA ShapesInit == Init => Shapes
<1> SUFFICES ASSUME Init PROVE Shapes
  OBVIOUS
<1>1. net \in Nets
  BY DEF Init
<1>2. PICK late : waves = WavesOf(net, late)
  BY DEF Init
<1>3. Design
  BY <1>1, <1>2, WavesAre DEF Design
<1>4. net.early \subseteq Pins /\ net.targets \subseteq Pins
  BY <1>1, NetIs
<1>5. /\ Len(waves) \in Nat /\ DOMAIN waves = 1 .. Len(waves)
      /\ InWaves(waves) \subseteq Pins
      /\ \A d \in DOMAIN waves : Req(net, waves, d) \subseteq Pins
  BY <1>3, WavesInPins, ReqInPins
<1>6. pending = UNION {waves[d] : d \in wi .. Len(waves)}
  BY <1>5 DEF Init, InWaves
<1>7. targets \in SUBSET Pins /\ realized \in SUBSET Pins
  BY <1>4, <1>5 DEF Init
<1>8. phases \in Seq(Phases) /\ Len(phases) = wi - 1 /\ stages \in Seq(Stages) /\ DOMAIN stages = {}
  BY DEF Init
<1>9. wi \in 1 .. Len(waves) + 1 /\ pc \in Pcs /\ keep = {} /\ blocked = {}
  BY <1>5 DEF Init, Pcs
<1>10. net.early \subseteq realized /\ InWaves(waves) \subseteq realized
  BY DEF Init
<1>11. QED
  BY <1>3, <1>6, <1>7, <1>8, <1>9, <1>10 DEF Shapes

LEMMA ShapesStart ==
  ASSUME Shapes, StartWave \/ StartLast
  PROVE  Shapes'
<1>1. CASE StartWave
  <2>1. ReqFrom(wi) \subseteq Pins
    BY ReqInPins DEF Shapes
  <2> DEFINE wanted == targets \cup (ReqFrom(wi) \ realized)
  <2>2. wanted \subseteq Pins
    BY <2>1 DEF Shapes
  <2>3. blocked' = {p \in wanted : ReadsPending(p)} /\ targets' = wanted \ blocked'
        /\ keep' = ReqFrom(wi) \cup (Leaves(blocked') \ pending) /\ pc' = "stages"
    BY <1>1 DEF StartWave
  <2>4. Leaves(blocked') \subseteq Pins
    BY DEF Leaves, Shapes
  <2>5. blocked' \in SUBSET Pins /\ targets' \in SUBSET Pins /\ keep' \in SUBSET Pins /\ pc' \in Pcs
    BY <2>1, <2>2, <2>3, <2>4 DEF Pcs
  <2>6. UNCHANGED <<net, waves, wi, realized, pending, stages, phases>>
    BY <1>1 DEF StartWave
  <2>7. QED
    BY <2>5, <2>6 DEF Shapes, Design, InWaves
<1>2. CASE StartLast
  <2>1. blocked' = {} /\ keep' = {} /\ pc' \in Pcs
        /\ UNCHANGED <<net, waves, wi, realized, pending, targets, stages, phases>>
    BY <1>2 DEF StartLast, Pcs
  <2>2. QED
    BY <2>1 DEF Shapes, Design, InWaves
<1>3. QED
  BY <1>1, <1>2

LEMMA ShapesBuild ==
  ASSUME Shapes, BuildStage
  PROVE  Shapes'
<1>1. PICK h, w, r : StageIs(h, w, r)
  BY Built DEF Shapes, Design
<1>2. UNCHANGED <<net, waves, wi, pending, keep, blocked, phases>>
  BY DEF BuildStage
<1>3. h \in SUBSET Pins /\ stages' \in Seq(Stages)
  BY <1>1, Appended
<1>4. w \subseteq h /\ realized' = realized \cup h
      /\ targets' = (targets \ w) \cup (keep \cap realized') /\ pc' \in Pcs
  BY <1>1 DEF StageIs, Pcs
<1>5. \A s \in DOMAIN stages' : stages'[s].wrote \subseteq stages'[s].holds
  <2>1. DOMAIN stages' = DOMAIN stages \cup {Len(stages')}
        /\ \A s \in DOMAIN stages : stages'[s] = stages[s]
    BY <1>1, Appended
  <2>2. stages'[Len(stages')].holds = h /\ stages'[Len(stages')].wrote = w
    BY <1>1, Appended
  <2>3. \A s \in DOMAIN stages : stages'[s].wrote \subseteq stages'[s].holds
    BY <2>1 DEF Shapes
  <2>4. stages'[Len(stages')].wrote \subseteq stages'[Len(stages')].holds
    BY <1>4, <2>2, Zenon
  <2>5. QED
    BY <2>1, <2>3, <2>4
<1>6. realized' \in SUBSET Pins /\ targets' \in SUBSET Pins
      /\ net.early \subseteq realized' /\ InWaves(waves) \subseteq realized'
  BY <1>3, <1>4 DEF Shapes
<1>7. Design' /\ InWaves(waves)' = InWaves(waves)
  BY <1>2 DEF Shapes, Design, InWaves
<1>8. /\ wi' \in 1 .. Len(waves') + 1
      /\ phases' \in Seq(Phases) /\ Len(phases') = wi' - 1
      /\ pending' = UNION {waves'[d] : d \in wi' .. Len(waves')}
      /\ keep' \in SUBSET Pins /\ blocked' \in SUBSET Pins /\ net' = net
  BY <1>2 DEF Shapes
<1>9. QED
  BY <1>3, <1>4, <1>5, <1>6, <1>7, <1>8 DEF Shapes

LEMMA ShapesEnd ==
  ASSUME Shapes, EndWave
  PROVE  /\ Shapes'
         /\ Len(phases') = wi /\ DOMAIN phases' = 1 .. wi /\ DOMAIN phases = 1 .. wi - 1
         /\ phases'[wi].after = Len(stages) /\ phases'[wi].macros = waves[wi]
         /\ \A k \in DOMAIN phases : phases'[k] = phases[k]
<1>1. wi \in DOMAIN waves /\ Len(waves) \in Nat /\ DOMAIN waves = 1 .. Len(waves)
      /\ \A d \in DOMAIN waves : waves[d] \subseteq Pins
  BY WavesInPins DEF Shapes, EndWave
<1>2. PICK g : g = [macros |-> waves[wi], after |-> Len(stages)]
  OBVIOUS
<1>3. g \in Phases /\ g.macros = waves[wi] /\ g.after = Len(stages)
  <2>1. Len(stages) \in Nat
    BY DEF Shapes
  <2>2. QED
    BY <1>1, <1>2, <2>1 DEF Phases
<1>4. phases' = Append(phases, g) /\ wi' = wi + 1 /\ pc' \in Pcs
      /\ pending' = pending \ waves[wi] /\ targets' = targets \cup Resumed
      /\ UNCHANGED <<net, waves, realized, keep, blocked, stages>>
  BY <1>2 DEF EndWave, Pcs
<1>5. phases \in Seq(Phases) /\ Len(phases) = wi - 1 /\ wi \in Nat
  BY <1>1 DEF Shapes
<1>6. phases' \in Seq(Phases) /\ Len(phases') = wi
      /\ phases'[wi] = g /\ \A k \in 1 .. wi - 1 : phases'[k] = phases[k]
  <2>1. phases' \in Seq(Phases) /\ Len(phases') = Len(phases) + 1
        /\ phases'[Len(phases) + 1] = g
        /\ \A k \in 1 .. Len(phases) : phases'[k] = phases[k]
    BY <1>3, <1>4, <1>5
  <2>2. Len(phases) + 1 = wi
    BY <1>5
  <2>3. QED
    BY <1>5, <2>1, <2>2
<1>7. DOMAIN phases' = 1 .. wi /\ DOMAIN phases = 1 .. wi - 1
  BY <1>5, <1>6
<1>8. targets' \in SUBSET Pins
  BY <1>1, <1>4 DEF Resumed, Shapes
<1>9. pending' = UNION {waves[d] : d \in wi + 1 .. Len(waves)}
  <2>1. pending = UNION {waves[d] : d \in wi .. Len(waves)}
    BY DEF Shapes
  <2>2. wi .. Len(waves) = {wi} \cup (wi + 1 .. Len(waves))
    BY <1>1
  <2>3. pending = waves[wi] \cup UNION {waves[d] : d \in wi + 1 .. Len(waves)}
    BY <2>1, <2>2
  <2>4. \A d \in wi + 1 .. Len(waves) : d \in DOMAIN waves /\ d # wi
    BY <1>1
  <2>5. \A d \in wi + 1 .. Len(waves) : waves[d] \cap waves[wi] = {}
    BY <1>1, <2>4 DEF Shapes, Design
  <2>6. QED
    BY <1>4, <2>3, <2>5
<1>10. wi' \in 1 .. Len(waves) + 1 /\ Len(phases') = wi' - 1
  BY <1>1, <1>4, <1>6
<1>11. Shapes'
  BY <1>4, <1>6, <1>8, <1>9, <1>10 DEF Shapes, Design, InWaves
<1>12. QED
  BY <1>3, <1>6, <1>7, <1>11

LEMMA ShapesRest ==
  ASSUME Shapes, EmptyStage \/ Overflow \/ Finish \/ UNCHANGED vars
  PROVE  Shapes'
<1>1. UNCHANGED <<net, waves, wi, realized, pending, targets, keep, blocked, stages, phases>>
  BY DEF EmptyStage, Overflow, Finish, vars
<1>2. pc' \in Pcs
  BY DEF EmptyStage, Overflow, Finish, vars, Pcs, Shapes
<1>3. QED
  BY <1>1, <1>2 DEF Shapes, Design, InWaves

LEMMA ShapesStep == Shapes /\ [Next]_vars => Shapes'
<1> SUFFICES ASSUME Shapes, [Next]_vars PROVE Shapes'
  OBVIOUS
<1>1. \/ StartWave \/ StartLast \/ BuildStage \/ EndWave
      \/ EmptyStage \/ Overflow \/ Finish \/ UNCHANGED vars
  BY DEF Next, Done
<1>2. QED
  BY <1>1, ShapesStart, ShapesBuild, ShapesEnd, ShapesRest

THEOREM ShapesAlways == Spec => []Shapes
<1>1. QED
  BY ShapesInit, ShapesStep, PTL DEF Spec

-----------------------------------------------------------------------------
(* Every input of an endpoint is written. *)

Written == UNION {stages[s].wrote : s \in DOMAIN stages}

\* What the endpoints take is owed, written, or waits for a phase.  What waits
\* was not built and stays out of reach of what is owed, and what must be kept
\* has been produced, so that no stage builds what waits.
Owed ==
  /\ pc \in {"wave", "stages"} => net.targets \subseteq targets \cup pending \cup blocked \cup Written
  /\ pc = "wave" => net.targets \subseteq targets \cup pending \cup Written
  /\ pc = "stages" => /\ blocked \cap InFlight = {}
                      /\ \A p \in blocked : p \in pending \/ p \notin realized
                      /\ keep \cap pending = {}
                      /\ wi \notin DOMAIN waves => blocked = {}
  /\ pc = "done" => net.targets \subseteq Written

LEMMA OwedInit == Init => Owed
<1> SUFFICES ASSUME Init PROVE Owed
  OBVIOUS
<1>1. net.targets \subseteq targets \cup pending
  BY DEF Init
<1>2. pc = "wave"
  BY DEF Init
<1>3. QED
  BY <1>1, <1>2 DEF Owed

\* What reads a pending output passes that on to all that is computed from it.
LEMMA PassesOn ==
  ASSUME net \in Nets, NEW ts \in SUBSET Pins,
         NEW p \in Cone(net, net.gates, realized, ts), ReadsPending(p)
  PROVE  \E t \in ts : ReadsPending(t)
<1>1. PICK t \in ts : p \in Cone(net, net.gates, realized, {t})
  BY ConeOfOne
<1> DEFINE all == net.gates \cup net.macros
<1>2. {t} \in SUBSET Pins /\ net.gates \ realized \subseteq all \ realized
  OBVIOUS
<1>3. Cone(net, net.gates, realized, {t}) \subseteq Cone(net, all, realized, {t})
  <2> HIDE DEF all
  <2> QED BY <1>2, ConeGrows
<1>4. Cone(net, all, realized, {p}) \subseteq Cone(net, all, realized, {t})
  <2>1. p \in Cone(net, all, realized, {t})
    BY <1>1, <1>3
  <2> HIDE DEF all
  <2>2. QED
    BY <1>2, <2>1, ConeOfCone
<1>5. ReadsPending(t)
  BY <1>4 DEF ReadsPending
<1>6. QED
  BY <1>5

LEMMA OwedStart ==
  ASSUME Shapes, Owed, StartWave
  PROVE  Owed'
<1> DEFINE wanted == targets \cup (ReqFrom(wi) \ realized)
<1>1. /\ pc = "wave" /\ pc' = "stages" /\ wi \in DOMAIN waves
      /\ blocked' = {p \in wanted : ReadsPending(p)} /\ targets' = wanted \ blocked'
      /\ keep' = ReqFrom(wi) \cup (Leaves(blocked') \ pending)
      /\ UNCHANGED <<net, waves, wi, realized, pending, stages, phases>>
  BY DEF StartWave
<1>2. net \in Nets /\ wanted \subseteq Pins /\ Written' = Written
  <2>1. ReqFrom(wi) \subseteq Pins
    BY ReqInPins DEF Shapes
  <2>2. QED
    BY <1>1, <2>1 DEF Shapes, Design, Written
<1>3. net.targets \subseteq targets' \cup pending \cup blocked' \cup Written
  BY <1>1 DEF Owed
<1>4. ASSUME NEW p \in blocked' \cap InFlight' PROVE FALSE
  <2>1. p \in Cone(net, net.gates, realized, targets') /\ ReadsPending(p)
    BY <1>1 DEF InFlight
  <2>2. targets' \in SUBSET Pins
    BY <1>1, <1>2
  <2>3. PICK t \in targets' : ReadsPending(t)
    BY <1>2, <2>1, <2>2, PassesOn
  <2>4. QED
    BY <1>1, <2>3
<1>5. ASSUME NEW p \in blocked', p \in realized PROVE p \in pending
  <2>1. p \in Pins /\ ReadsPending(p)
    BY <1>1, <1>2
  <2>2. Cone(net, net.gates \cup net.macros, realized, {p}) = {p}
    BY <1>2, <1>5, <2>1, ConeStops
  <2>3. QED
    BY <2>1, <2>2 DEF ReadsPending
<1>6. keep' \cap pending = {}
  <2>1. ReqFrom(wi) \cap InWaves(waves) = {}
    BY DEF ReqFrom, Req
  <2>2. pending \subseteq InWaves(waves)
    BY PendingIs
  <2>3. QED
    BY <1>1, <2>1, <2>2
<1>7. QED
  <2> HIDE DEF wanted
  <2>1. blocked' \cap InFlight' = {}
    BY <1>4
  <2>2. \A p \in blocked' : p \in pending' \/ p \notin realized'
    BY <1>1, <1>5
  <2>3. QED
    BY <1>1, <1>2, <1>3, <1>6, <2>1, <2>2 DEF Owed

LEMMA OwedLast ==
  ASSUME Shapes, Owed, StartLast
  PROVE  Owed'
<1>1. /\ pc = "wave" /\ pc' = "stages" /\ blocked' = {} /\ keep' = {}
      /\ UNCHANGED <<net, waves, wi, realized, pending, targets, stages, phases>>
  BY DEF StartLast
<1>2. Written' = Written
  BY <1>1 DEF Written
<1>3. QED
  BY <1>1, <1>2 DEF Owed

\* Nothing on hold comes into reach or into being by building what is owed.
LEMMA OwedBuild ==
  ASSUME Shapes, Owed, BuildStage
  PROVE  Owed'
<1>1. PICK h, w, r : StageIs(h, w, r)
  BY Built DEF Shapes, Design
<1>2. pc = "stages" /\ UNCHANGED <<net, waves, wi, pending, keep, blocked, phases>>
  BY DEF BuildStage
<1>3. /\ h \subseteq InFlight /\ w \subseteq targets
      /\ realized' = realized \cup h
      /\ targets' = (targets \ w) \cup (keep \cap realized')
      /\ pc' \in {"stages", "refused"}
  BY <1>1 DEF StageIs
<1>4. net \in Nets /\ targets \in SUBSET Pins /\ targets' \in SUBSET Pins /\ keep \in SUBSET Pins
      /\ realized \in SUBSET Pins
  BY ShapesBuild DEF Shapes, Design
<1>5. Written' = Written \cup w
  <2>1. DOMAIN stages' = DOMAIN stages \cup {Len(stages')}
        /\ \A s \in DOMAIN stages : stages'[s] = stages[s]
    BY <1>1, Appended
  <2>2. stages'[Len(stages')].wrote = w
    BY <1>1, Appended
  <2>3. Written' = (UNION {stages'[s].wrote : s \in DOMAIN stages}) \cup stages'[Len(stages')].wrote
    BY <2>1 DEF Written
  <2>4. {stages'[s].wrote : s \in DOMAIN stages} = {stages[s].wrote : s \in DOMAIN stages}
    BY <2>1
  <2>5. QED
    BY <2>2, <2>3, <2>4 DEF Written
<1>6. net.targets \subseteq targets' \cup pending \cup blocked \cup Written'
  BY <1>2, <1>3, <1>5 DEF Owed
<1>7. /\ blocked \cap InFlight = {} /\ keep \cap pending = {}
      /\ \A p \in blocked : p \in pending \/ p \notin realized
      /\ wi \notin DOMAIN waves => blocked = {}
  BY <1>2 DEF Owed
<1>8. \A p \in blocked : p \in pending \/ p \notin realized'
  BY <1>3, <1>7
<1>9. InFlight' \subseteq InFlight \cup (keep \cap realized')
  <2> DEFINE S == InFlight \cup (keep \cap realized')
  <2>1. InFlight \in SUBSET Pins /\ targets \subseteq InFlight
        /\ \A p \in InFlight : p \in net.gates /\ p \notin realized => net.fanin[p] \subseteq InFlight
    BY <1>4, ConeIs DEF InFlight
  <2>2. targets' \subseteq S
    BY <1>3, <2>1
  <2>3. \A p \in S : p \in net.gates /\ p \notin realized' => net.fanin[p] \subseteq S
    BY <1>3, <2>1
  <2>4. Cone(net, net.gates, realized', targets') \subseteq S
    <3> HIDE DEF S
    <3> QED BY <1>4, <2>2, <2>3, ConeLeast
  <2>5. QED
    BY <1>2, <2>4 DEF InFlight
<1>10. blocked \cap InFlight' = {}
  BY <1>7, <1>8, <1>9
<1>11. QED
  BY <1>2, <1>3, <1>6, <1>7, <1>8, <1>10 DEF Owed

LEMMA OwedEnd ==
  ASSUME Shapes, Owed, EndWave
  PROVE  Owed'
<1>1. /\ pc = "stages" /\ pc' = "wave" /\ pending' = pending \ waves[wi]
      /\ targets' = targets \cup ((blocked \ realized) \cup (waves[wi] \cap net.targets))
      /\ UNCHANGED <<net, waves, realized, keep, blocked, stages>>
  BY DEF EndWave, Resumed
<1>2. Written' = Written
  BY <1>1 DEF Written
<1>3. net.targets \subseteq targets \cup pending \cup blocked \cup Written
      /\ \A p \in blocked : p \in pending \/ p \notin realized
  BY <1>1 DEF Owed
<1>4. net.targets \subseteq targets' \cup pending' \cup Written
  BY <1>1, <1>3
<1>5. QED
  BY <1>1, <1>2, <1>4 DEF Owed

LEMMA OwedFinish ==
  ASSUME Shapes, Owed, Finish
  PROVE  Owed'
<1>1. pc = "stages" /\ wi \notin DOMAIN waves /\ targets = {} /\ pc' = "done"
      /\ UNCHANGED <<net, waves, wi, realized, pending, targets, keep, blocked, stages, phases>>
  BY DEF Finish, Finished
<1>2. pending = {} /\ blocked = {}
  BY <1>1, PendingIs DEF Owed
<1>3. net.targets \subseteq Written
  BY <1>1, <1>2 DEF Owed
<1>4. Written' = Written
  BY <1>1 DEF Written
<1>5. QED
  BY <1>1, <1>3, <1>4 DEF Owed

LEMMA OwedRest ==
  ASSUME Owed, EmptyStage \/ Overflow \/ UNCHANGED vars
  PROVE  Owed'
<1>1. UNCHANGED <<net, waves, wi, realized, pending, targets, keep, blocked, stages, phases>>
  BY DEF EmptyStage, Overflow, vars
<1>2. Written' = Written /\ InFlight' = InFlight
  BY <1>1 DEF Written, InFlight
<1>3. pc' \in {"panic", "refused"} \/ pc' = pc
  BY DEF EmptyStage, Overflow, vars
<1>4. QED
  BY <1>1, <1>2, <1>3 DEF Owed

LEMMA OwedStep == Shapes /\ Owed /\ [Next]_vars => Owed'
<1> SUFFICES ASSUME Shapes, Owed, [Next]_vars PROVE Owed'
  OBVIOUS
<1>1. \/ StartWave \/ StartLast \/ BuildStage \/ EndWave
      \/ EmptyStage \/ Overflow \/ Finish \/ UNCHANGED vars
  BY DEF Next, Done
<1>2. QED
  BY <1>1, OwedStart, OwedLast, OwedBuild, OwedEnd, OwedFinish, OwedRest

\* A partition that was mapped has a word with each input of its endpoints, and
\* what a stage keeps and writes is well formed until then: for every design,
\* whatever the stages have room for (build_one).
THEOREM EndpointsWrittenHolds == Spec => []EndpointsWritten
<1>1. Shapes /\ Owed => EndpointsWritten
  <2> SUFFICES ASSUME Shapes, Owed PROVE EndpointsWritten
    OBVIOUS
  <2>1. TypeOK
    <3>1. pending \subseteq realized
      BY PendingIs
    <3>2. wi \in Int /\ Len(phases) = wi - 1
      <4>1. Len(waves) \in Nat
        BY WavesInPins DEF Shapes
      <4>2. QED
        BY <4>1 DEF Shapes
    <3>3. wi = Len(phases) + 1
      BY <3>2
    <3>4. QED
      BY <3>1, <3>3 DEF TypeOK, Shapes, Pcs
  <2>2. QED
    BY <2>1 DEF EndpointsWritten, Owed, Written
<1>2. Init => Shapes /\ Owed
  BY ShapesInit, OwedInit
<1>3. Shapes /\ Owed /\ [Next]_vars => (Shapes /\ Owed)'
  BY ShapesStep, OwedStep
<1>4. QED
  BY <1>1, <1>2, <1>3, PTL DEF Spec

-----------------------------------------------------------------------------
(* What waves ask for is there when their phases run. *)

\* What the last stage left.
Last == IF stages = <<>> THEN {} ELSE stages[Len(stages)].holds

\* Inputs of waves to come are held on to from the stage that realizes them, and
\* each phase that was placed found its own.
Kept ==
  /\ pc \in {"wave", "stages"} => ReqFrom(wi) \cap realized \subseteq targets \cap Last
  /\ pc = "stages" => ReqFrom(wi) \subseteq keep
  /\ \A k \in DOMAIN phases :
       /\ phases[k].after \in 0 .. Len(stages)
       /\ Req(net, waves, k) \subseteq
            IF phases[k].after = 0 THEN {} ELSE stages[phases[k].after].holds

LEMMA ReqApart ==
  ASSUME Shapes
  PROVE  ReqFrom(wi) \cap pending = {} /\ ReqFrom(wi) \cap (net.early \cup InWaves(waves)) = {}
<1>1. ReqFrom(wi) \cap (net.early \cup InWaves(waves)) = {}
  BY DEF ReqFrom, Req
<1>2. QED
  BY <1>1, PendingIs

LEMMA KeptInit == Init => Kept
<1> SUFFICES ASSUME Init PROVE Kept
  OBVIOUS
<1>1. realized = net.early \cup InWaves(waves) /\ pc = "wave"
  BY DEF Init
<1>2. ReqFrom(wi) \cap realized = {}
  BY <1>1, ShapesInit, ReqApart
<1>3. DOMAIN phases = {}
  BY DEF Init
<1>4. QED
  BY <1>1, <1>2, <1>3 DEF Kept

LEMMA NotOnHold ==
  ASSUME Shapes, NEW p \in realized, p \notin pending
  PROVE  ~ReadsPending(p)
<1>1. Cone(net, net.gates \cup net.macros, realized, {p}) = {p}
  BY ConeStops DEF Shapes, Design
<1>2. QED
  BY <1>1 DEF ReadsPending

LEMMA KeptStart ==
  ASSUME Shapes, Kept, StartWave
  PROVE  Kept'
<1> DEFINE wanted == targets \cup (ReqFrom(wi) \ realized)
<1>1. /\ pc = "wave" /\ pc' = "stages"
      /\ blocked' = {p \in wanted : ReadsPending(p)} /\ targets' = wanted \ blocked'
      /\ keep' = ReqFrom(wi) \cup (Leaves(blocked') \ pending)
      /\ UNCHANGED <<net, waves, wi, realized, pending, stages, phases>>
  BY DEF StartWave
<1>2. ReqFrom(wi)' = ReqFrom(wi) /\ Last' = Last
  BY <1>1 DEF ReqFrom, Req, Inputs, InWaves, Last
<1>3. ASSUME NEW p \in ReqFrom(wi) \cap realized PROVE p \in targets' \cap Last
  <2>1. p \in targets /\ p \in Last
    BY <1>1, <1>3 DEF Kept
  <2>2. ~ReadsPending(p)
    BY <1>3, ReqApart, NotOnHold
  <2>3. QED
    BY <1>1, <2>1, <2>2
<1>4. (\A k \in DOMAIN phases :
         /\ phases[k].after \in 0 .. Len(stages)
         /\ Req(net, waves, k) \subseteq
              IF phases[k].after = 0 THEN {} ELSE stages[phases[k].after].holds)'
  BY <1>1 DEF Kept, Req, Inputs, InWaves
<1>5. QED
  <2> HIDE DEF wanted
  <2>1. ReqFrom(wi)' \cap realized' \subseteq targets' \cap Last' /\ ReqFrom(wi)' \subseteq keep'
    BY <1>1, <1>2, <1>3
  <2>2. QED
    BY <1>4, <2>1 DEF Kept

LEMMA KeptLast ==
  ASSUME Shapes, Kept, StartLast
  PROVE  Kept'
<1>1. /\ pc = "wave" /\ wi \notin DOMAIN waves
      /\ UNCHANGED <<net, waves, wi, realized, pending, targets, stages, phases>>
  BY DEF StartLast
<1>2. ReqFrom(wi) = {}
  <2>1. wi = Len(waves) + 1 /\ Len(waves) \in Nat
    BY <1>1, PendingIs, WavesInPins DEF Shapes
  <2>2. wi .. Len(waves) = {}
    BY <2>1
  <2>3. QED
    BY <2>2 DEF ReqFrom
<1>3. ReqFrom(wi)' = ReqFrom(wi)
  BY <1>1 DEF ReqFrom, Req, Inputs, InWaves
<1>4. (\A k \in DOMAIN phases :
         /\ phases[k].after \in 0 .. Len(stages)
         /\ Req(net, waves, k) \subseteq
              IF phases[k].after = 0 THEN {} ELSE stages[phases[k].after].holds)'
  BY <1>1 DEF Kept, Req, Inputs, InWaves
<1>5. QED
  BY <1>2, <1>3, <1>4 DEF Kept

LEMMA KeptBuild ==
  ASSUME Shapes, Kept, BuildStage
  PROVE  Kept'
<1>1. PICK h, w, r : StageIs(h, w, r)
  BY Built DEF Shapes, Design
<1>2. pc = "stages" /\ UNCHANGED <<net, waves, wi, pending, keep, blocked, phases>>
  BY DEF BuildStage
<1>3. /\ realized' = realized \cup h
      /\ targets' = (targets \ w) \cup (keep \cap realized')
      /\ \A q \in Cone(net, net.gates, realized \cup h, targets) :
           Input(net, realized \cup h, q) => q \in h
  BY <1>1 DEF StageIs
<1>4. /\ DOMAIN stages' = DOMAIN stages \cup {Len(stages')} /\ Len(stages') = Len(stages) + 1
      /\ \A s \in DOMAIN stages : stages'[s] = stages[s]
      /\ stages' \in Seq(Stages) /\ stages \in Seq(Stages)
  BY <1>1, Appended DEF Shapes
<1>5. stages'[Len(stages')].holds = h
  BY <1>1, Appended
<1>6. Last' = h
  <2>1. stages' # <<>>
    BY <1>4
  <2>2. QED
    BY <1>5, <2>1 DEF Last
<1>7. ReqFrom(wi)' = ReqFrom(wi) /\ \A k : Req(net, waves, k)' = Req(net, waves, k)
  BY <1>2 DEF ReqFrom, Req, Inputs, InWaves
<1>8. ASSUME NEW p \in ReqFrom(wi) \cap realized' PROVE p \in targets' \cap h
  <2>1. p \in targets'
    BY <1>2, <1>3, <1>8 DEF Kept
  <2>2. CASE p \in realized
    <3>1. p \in targets
      BY <1>2, <2>2, <1>8 DEF Kept
    <3>2. targets \subseteq Cone(net, net.gates, realized \cup h, targets)
      BY ConeIs DEF Shapes, Design
    <3>3. QED
      BY <1>3, <2>1, <2>2, <3>1, <3>2 DEF Input
  <2>3. QED
    BY <1>3, <1>8, <2>1, <2>2
<1>9. ASSUME NEW k \in DOMAIN phases
      PROVE  /\ phases[k].after \in 0 .. Len(stages')
             /\ Req(net, waves, k) \subseteq
                  IF phases[k].after = 0 THEN {} ELSE stages'[phases[k].after].holds
  <2>1. phases[k].after \in 0 .. Len(stages) /\ Len(stages) \in Nat /\ DOMAIN stages = 1 .. Len(stages)
    BY <1>4 DEF Kept
  <2>2. phases[k].after \in 0 .. Len(stages')
    BY <1>4, <2>1
  <2>3. CASE phases[k].after = 0
    BY <2>2, <2>3 DEF Kept
  <2>4. CASE phases[k].after # 0
    <3>1. phases[k].after \in DOMAIN stages
      BY <2>1, <2>4
    <3>2. stages'[phases[k].after] = stages[phases[k].after]
      BY <1>4, <3>1
    <3>3. Req(net, waves, k) \subseteq stages[phases[k].after].holds
      BY <2>4 DEF Kept
    <3>4. QED
      BY <2>2, <2>4, <3>2, <3>3
  <2>5. QED
    BY <2>3, <2>4
<1>10. ReqFrom(wi)' \cap realized' \subseteq targets' \cap Last' /\ ReqFrom(wi)' \subseteq keep'
  BY <1>2, <1>6, <1>7, <1>8 DEF Kept
<1>11. (\A k \in DOMAIN phases :
         /\ phases[k].after \in 0 .. Len(stages)
         /\ Req(net, waves, k) \subseteq
              IF phases[k].after = 0 THEN {} ELSE stages[phases[k].after].holds)'
  BY <1>2, <1>7, <1>9
<1>12. QED
  BY <1>10, <1>11 DEF Kept

LEMMA KeptEnd ==
  ASSUME Shapes, Kept, EndWave
  PROVE  Kept'
<1>1. /\ pc = "stages" /\ pc' = "wave" /\ wi \in DOMAIN waves /\ wi' = wi + 1
      /\ targets' = targets \cup Resumed
      /\ Req(net, waves, wi) \subseteq realized
      /\ UNCHANGED <<net, waves, realized, keep, blocked, stages>>
  BY DEF EndWave, Finished
<1>2. Len(waves) \in Nat /\ wi \in 1 .. Len(waves) /\ Len(stages) \in Nat
  BY <1>1, WavesInPins DEF Shapes
<1>3. wi .. Len(waves) = {wi} \cup (wi + 1 .. Len(waves))
  BY <1>2
<1>4. ReqFrom(wi) = Req(net, waves, wi) \cup ReqFrom(wi + 1)
  BY <1>3 DEF ReqFrom
<1>5. ReqFrom(wi)' = ReqFrom(wi + 1) /\ (\A k : Req(net, waves, k)' = Req(net, waves, k)) /\ Last' = Last
  BY <1>1 DEF ReqFrom, Req, Inputs, InWaves, Last
<1>6. ReqFrom(wi)' \cap realized' \subseteq targets' \cap Last'
  BY <1>1, <1>4, <1>5 DEF Kept
<1>7. /\ DOMAIN phases' = DOMAIN phases \cup {wi} /\ phases'[wi].after = Len(stages)
      /\ \A k \in DOMAIN phases : phases'[k] = phases[k]
  <2>1. DOMAIN phases' = 1 .. wi /\ DOMAIN phases = 1 .. wi - 1
    BY ShapesEnd
  <2>2. DOMAIN phases' = DOMAIN phases \cup {wi}
    BY <1>2, <2>1
  <2>3. QED
    BY <2>2, ShapesEnd
<1>8. Req(net, waves, wi) \subseteq IF Len(stages) = 0 THEN {} ELSE stages[Len(stages)].holds
  <2>1. Req(net, waves, wi) \subseteq Last
    BY <1>1, <1>4 DEF Kept
  <2>2. stages = <<>> <=> Len(stages) = 0
    BY DEF Shapes
  <2>3. QED
    BY <2>1, <2>2 DEF Last
<1>9. ASSUME NEW k \in DOMAIN phases'
      PROVE  /\ phases'[k].after \in 0 .. Len(stages)
             /\ Req(net, waves, k) \subseteq
                  IF phases'[k].after = 0 THEN {} ELSE stages[phases'[k].after].holds
  <2>1. CASE k = wi
    <3>1. phases'[k].after = Len(stages)
      BY <1>7, <2>1
    <3>2. QED
      BY <1>2, <1>8, <2>1, <3>1
  <2>2. CASE k # wi
    <3>1. k \in DOMAIN phases /\ phases'[k] = phases[k]
      BY <1>7, <2>2
    <3>2. QED
      BY <3>1 DEF Kept
  <2>3. QED
    BY <2>1, <2>2
<1>10. (\A k \in DOMAIN phases :
         /\ phases[k].after \in 0 .. Len(stages)
         /\ Req(net, waves, k) \subseteq
              IF phases[k].after = 0 THEN {} ELSE stages[phases[k].after].holds)'
  BY <1>1, <1>5, <1>9
<1>11. QED
  BY <1>1, <1>6, <1>10 DEF Kept

LEMMA KeptRest ==
  ASSUME Kept, EmptyStage \/ Overflow \/ Finish \/ UNCHANGED vars
  PROVE  Kept'
<1>1. UNCHANGED <<net, waves, wi, realized, pending, targets, keep, blocked, stages, phases>>
  BY DEF EmptyStage, Overflow, Finish, vars
<1>2. ReqFrom(wi)' = ReqFrom(wi) /\ (\A k : Req(net, waves, k)' = Req(net, waves, k)) /\ Last' = Last
  BY <1>1 DEF ReqFrom, Req, Inputs, InWaves, Last
<1>3. pc' \notin {"wave", "stages"} \/ pc' = pc
  BY DEF EmptyStage, Overflow, Finish, vars
<1>4. (\A k \in DOMAIN phases :
         /\ phases[k].after \in 0 .. Len(stages)
         /\ Req(net, waves, k) \subseteq
              IF phases[k].after = 0 THEN {} ELSE stages[phases[k].after].holds)'
  BY <1>1, <1>2 DEF Kept
<1>5. QED
  BY <1>1, <1>2, <1>3, <1>4 DEF Kept

LEMMA KeptStep == Shapes /\ Kept /\ [Next]_vars => Kept'
<1> SUFFICES ASSUME Shapes, Kept, [Next]_vars PROVE Kept'
  OBVIOUS
<1>1. \/ StartWave \/ StartLast \/ BuildStage \/ EndWave
      \/ EmptyStage \/ Overflow \/ Finish \/ UNCHANGED vars
  BY DEF Next, Done
<1>2. QED
  BY <1>1, KeptStart, KeptLast, KeptBuild, KeptEnd, KeptRest

\* The inputs a wave asks stages for are in the shared state when its phase gathers
\* them, however many stages other pins made necessary in between (build_one,
\* all_targets and keep_live).
THEOREM DemandedLiveHolds == Spec => []DemandedLive
<1>1. Shapes /\ Kept => DemandedLive
  <2> SUFFICES ASSUME Shapes, Kept, Mapped, NEW k \in DOMAIN phases
               PROVE  Req(net, waves, k) \subseteq Held(phases[k].after)
    BY DEF DemandedLive
  <2>1. QED
    BY DEF Kept, Held
<1>2. Init => Shapes /\ Kept
  BY ShapesInit, KeptInit
<1>3. Shapes /\ Kept /\ [Next]_vars => (Shapes /\ Kept)'
  BY ShapesStep, KeptStep
<1>4. QED
  BY <1>1, <1>2, <1>3, PTL DEF Spec

-----------------------------------------------------------------------------
(* No stage is asked for when nothing is owed. *)

\* What the wave at hand asks for and is not there yet is owed, not on hold.
Ready ==
  InOrder => /\ pc = "stages" /\ wi \in DOMAIN waves => Req(net, waves, wi) \ realized \subseteq targets
             /\ pc # "panic"

\* Where the waves are in order, no input of a wave waits for that wave or a later
\* one.
LEMMA InputsReady ==
  ASSUME Shapes, InOrder, wi \in DOMAIN waves, NEW p \in Req(net, waves, wi)
  PROVE  ~ReadsPending(p)
<1> DEFINE all == net.gates \cup net.macros
<1>1. PICK m \in waves[wi] : p \in Inputs(net, m)
  BY DEF Req
<1>2. /\ Len(waves) \in Nat /\ DOMAIN waves = 1 .. Len(waves) /\ wi \in Nat
      /\ m \in net.macros /\ m \in Pins
  BY WavesInPins DEF Shapes
<1>3. net \in Nets /\ Inputs(net, m) \in SUBSET Pins /\ {p} \in SUBSET Pins /\ {p} \subseteq Inputs(net, m)
  BY <1>1, <1>2, NetIs DEF Shapes, Design, Inputs
<1>4. all \ realized \subseteq all \ net.early
  BY DEF Shapes
<1>5. Cone(net, all, realized, {p}) \subseteq Cone(net, all, net.early, Inputs(net, m))
  <2> HIDE DEF all
  <2> QED BY <1>3, <1>4, ConeGrows
<1>6. Cone(net, all, net.early, Inputs(net, m)) \cap net.macros \subseteq UNION {waves[e] : e \in 1 .. wi - 1}
  BY <1>1 DEF InOrder
<1>7. ASSUME NEW x \in Cone(net, all, realized, {p}) \cap pending PROVE FALSE
  <2>1. x \in net.macros
    BY PendingIs
  <2>2. PICK e \in 1 .. wi - 1 : x \in waves[e]
    BY <1>5, <1>6, <2>1
  <2>3. PICK d \in wi .. Len(waves) : x \in waves[d]
    BY DEF Shapes
  <2>4. d # e /\ d \in DOMAIN waves /\ e \in DOMAIN waves
    BY <1>2
  <2>5. QED
    BY <2>2, <2>3, <2>4 DEF Shapes, Design
<1>8. QED
  BY <1>7 DEF ReadsPending

LEMMA ReadyStep ==
  ASSUME Shapes, Ready, [Next]_vars
  PROVE  Ready'
<1>1. /\ net' = net /\ waves' = waves
      /\ InOrder' = InOrder
      /\ \A k : Req(net, waves, k)' = Req(net, waves, k)
  <2>1. net' = net /\ waves' = waves
    BY DEF Next, StartWave, StartLast, BuildStage, EmptyStage, Overflow, EndWave, Finish, Done, vars
  <2>2. InOrder' = InOrder
    BY <2>1 DEF InOrder, Inputs
  <2>3. QED
    BY <2>1, <2>2 DEF Req, Inputs, InWaves
<1> SUFFICES ASSUME InOrder
             PROVE  /\ pc' = "stages" /\ wi' \in DOMAIN waves =>
                         Req(net, waves, wi') \ realized' \subseteq targets'
                    /\ pc' # "panic"
  BY <1>1 DEF Ready
<1>2. CASE StartWave
  <2> DEFINE wanted == targets \cup (ReqFrom(wi) \ realized)
  <2>1. /\ wi \in DOMAIN waves /\ wi' = wi /\ realized' = realized /\ pc' = "stages"
        /\ targets' = wanted \ {p \in wanted : ReadsPending(p)}
    BY <1>2 DEF StartWave
  <2>2. Req(net, waves, wi) \subseteq ReqFrom(wi)
    <3>1. wi \in wi .. Len(waves)
      BY <2>1, WavesInPins DEF Shapes
    <3>2. QED
      BY <3>1 DEF ReqFrom
  <2>3. \A p \in Req(net, waves, wi) : ~ReadsPending(p)
    BY <2>1, InputsReady
  <2>4. QED
    BY <2>1, <2>2, <2>3
<1>3. CASE BuildStage
  <2>1. PICK h, w, r : StageIs(h, w, r)
    BY <1>3, Built DEF Shapes, Design
  <2>2. /\ pc = "stages" /\ wi' = wi /\ realized' = realized \cup h /\ w \subseteq h
        /\ targets' = (targets \ w) \cup (keep \cap realized') /\ pc' # "panic"
    BY <1>3, <2>1 DEF BuildStage, StageIs
  <2>3. QED
    BY <2>2 DEF Ready
<1>4. CASE EmptyStage
  <2>1. pc = "stages" /\ ~Finished /\ targets = {}
    BY <1>4 DEF EmptyStage
  <2>2. wi \in DOMAIN waves /\ ~(Req(net, waves, wi) \subseteq realized)
    BY <2>1 DEF Finished
  <2>3. QED
    BY <2>1, <2>2 DEF Ready
<1>5. CASE StartLast \/ Overflow \/ EndWave \/ Finish
  <2>1. pc' \in {"stages", "refused", "wave", "done"} /\ (pc' = "stages" => wi' = wi /\ wi \notin DOMAIN waves)
    BY <1>5 DEF StartLast, Overflow, EndWave, Finish
  <2>2. QED
    BY <2>1
<1>6. CASE UNCHANGED vars
  BY <1>6 DEF Ready, vars
<1>7. QED
  BY <1>2, <1>3, <1>4, <1>5, <1>6 DEF Next, Done

\* Where the waves are in order, stages are never built for no target
\* (run_boomerang_stages_until_realized).
THEOREM NeverEmptyHolds == Spec => []NeverEmpty
<1>1. Ready => NeverEmpty
  BY DEF Ready, NeverEmpty
<1>2. Init => Shapes /\ Ready
  <2>1. Init => Ready
    BY DEF Init, Ready
  <2>2. QED
    BY <2>1, ShapesInit
<1>3. Shapes /\ Ready /\ [Next]_vars => (Shapes /\ Ready)'
  BY ShapesStep, ReadyStep
<1>4. QED
  BY <1>1, <1>2, <1>3, PTL DEF Spec

-----------------------------------------------------------------------------
(* How many stages there are. *)

N == Cardinality(Pins)

\* What waves before d may have taken beside a stage for each pin realized.
Spent(d) == (d - 1) * (N + 1)

\* In a wave, the pins that are realized and settled grow with each stage once
\* one has taken up what must be kept.
Settled == Cardinality(realized \ targets)

Paced ==
  /\ pc = "wave" => Len(stages) <= Cardinality(realized) + Spent(wi)
  /\ pc = "stages" =>
       \/ Len(stages) <= Cardinality(realized) + Spent(wi)
       \/ /\ keep \cap realized \subseteq targets
          /\ Len(stages) <= Cardinality(realized) + Spent(wi) + 1 + Settled
  /\ Len(stages) <= Cardinality(realized) + Spent(wi + 1)

LEMMA SpentIs ==
  ASSUME NEW d \in Nat \ {0}
  PROVE  Spent(d) \in Nat /\ Spent(d + 1) = Spent(d) + N + 1
<1>1. N \in Nat
  BY PinsAre DEF N
<1>2. PICK c \in Nat : c = d - 1
  OBVIOUS
<1>3. PICK b \in Nat : b = N + 1
  BY <1>1
<1>4. c * b \in Nat /\ (c + 1) * b = c * b + b
  <2> QED BY <1>2, <1>3
<1>5. Spent(d) = c * b /\ Spent(d + 1) = (c + 1) * b
  <2>1. (d + 1) - 1 = c + 1
    BY <1>2
  <2>2. QED
    BY <1>2, <1>3, <2>1 DEF Spent
<1>6. QED
  BY <1>1, <1>3, <1>4, <1>5

LEMMA Counted ==
  ASSUME NEW S \in SUBSET Pins
  PROVE  IsFiniteSet(S) /\ Cardinality(S) \in Nat /\ Cardinality(S) <= N
<1>1. QED
  BY PinsAre, FS_Subset, FS_CardinalityType DEF N

LEMMA CountedLess ==
  ASSUME NEW S \in SUBSET Pins, NEW T \in SUBSET Pins, S \subseteq T
  PROVE  Cardinality(S) <= Cardinality(T) /\ (S # T => Cardinality(S) + 1 <= Cardinality(T))
<1>1. IsFiniteSet(S) /\ IsFiniteSet(T) /\ Cardinality(S) \in Nat /\ Cardinality(T) \in Nat
  BY Counted
<1>2. Cardinality(S) <= Cardinality(T) /\ (Cardinality(S) = Cardinality(T) => S = T)
  BY <1>1, FS_Subset
<1>3. QED
  BY <1>1, <1>2

LEMMA PacedInit == Init => Paced
<1> SUFFICES ASSUME Init PROVE Paced
  OBVIOUS
<1>1. Len(stages) = 0 /\ wi = 1 /\ pc = "wave"
  BY DEF Init
<1>2. Cardinality(realized) \in Nat
  BY ShapesInit, Counted DEF Shapes
<1>3. Spent(1) \in Nat /\ Spent(1 + 1) \in Nat
  BY SpentIs
<1>4. QED
  BY <1>1, <1>2, <1>3 DEF Paced

LEMMA Figures ==
  ASSUME Shapes
  PROVE  /\ wi \in Nat \ {0} /\ N \in Nat /\ Len(stages) \in Nat
         /\ Cardinality(realized) \in Nat /\ Settled \in Nat /\ Settled <= N
         /\ Spent(wi) \in Nat /\ Spent(wi + 1) \in Nat /\ Spent(wi + 1) = Spent(wi) + N + 1
<1>1. wi \in Nat \ {0} /\ Len(stages) \in Nat
  BY WavesInPins DEF Shapes
<1>2. Cardinality(realized) \in Nat
  BY Counted DEF Shapes
<1>3. Settled \in Nat /\ Settled <= N
  <2>1. realized \ targets \in SUBSET Pins
    BY DEF Shapes
  <2>2. QED
    BY <2>1, Counted DEF Settled
<1>4. N \in Nat
  BY PinsAre DEF N
<1>5. Spent(wi) \in Nat /\ Spent(wi + 1) = Spent(wi) + N + 1
  BY <1>1, SpentIs
<1>6. QED
  BY <1>1, <1>2, <1>3, <1>4, <1>5

\* A stage that goes on has realized a pin or settled one, and the last before
\* giving up adds one to what a wave can settle.
LEMMA PacedBuild ==
  ASSUME Shapes, Paced, BuildStage
  PROVE  Paced'
<1>1. PICK h, w, r : StageIs(h, w, r)
  BY Built DEF Shapes, Design
<1>2. pc = "stages" /\ targets # {}
      /\ UNCHANGED <<net, waves, wi, pending, keep, blocked, phases>>
  BY DEF BuildStage
<1>3. /\ w \subseteq targets /\ w \subseteq h
      /\ realized' = realized \cup h
      /\ targets' = (targets \ w) \cup (keep \cap realized')
      /\ pc' = IF NoProgress(realized', targets') THEN "refused" ELSE "stages"
  BY <1>1 DEF StageIs
<1>4. Len(stages') = Len(stages) + 1
  BY <1>1, Appended
<1>5. /\ realized \in SUBSET Pins /\ targets \in SUBSET Pins
      /\ realized' \in SUBSET Pins /\ targets' \in SUBSET Pins /\ Shapes'
  BY ShapesBuild DEF Shapes
<1>6. /\ Len(stages) \in Nat /\ N \in Nat /\ Settled \in Nat /\ Settled' \in Nat
      /\ Cardinality(realized) \in Nat /\ Cardinality(realized') \in Nat
      /\ Spent(wi) \in Nat /\ Spent(wi + 1) \in Nat /\ Spent(wi + 1) = Spent(wi) + N + 1
  <2>1. Settled' \in Nat /\ Cardinality(realized') \in Nat
    <3>1. realized' \ targets' \in SUBSET Pins
      BY <1>5
    <3>2. QED
      BY <1>5, <3>1, Counted DEF Settled
  <2>2. QED
    BY <2>1, Figures
<1>7. Cardinality(realized) <= Cardinality(realized')
      /\ (realized # realized' => Cardinality(realized) + 1 <= Cardinality(realized'))
  BY <1>3, <1>5, CountedLess
<1>8. keep \cap realized' \subseteq targets'
  BY <1>3
<1>9. CASE Len(stages) <= Cardinality(realized) + Spent(wi)
  <2>1. Len(stages') <= Cardinality(realized') + Spent(wi) + 1 + Settled'
    BY <1>4, <1>6, <1>7, <1>9
  <2>2. Len(stages') <= Cardinality(realized') + Spent(wi + 1)
    BY <1>4, <1>6, <1>7, <1>9
  <2>3. pc' \in {"stages", "refused"}
    BY <1>3
  <2>4. QED
    BY <1>2, <1>8, <2>1, <2>2, <2>3 DEF Paced, Spent
<1>10. CASE /\ keep \cap realized \subseteq targets
            /\ Len(stages) <= Cardinality(realized) + Spent(wi) + 1 + Settled
  <2>1. Settled + 1 <= N
    <3>1. realized \ targets \in SUBSET Pins /\ realized \ targets # Pins
      BY <1>2, <1>5
    <3>2. QED
      BY <3>1, CountedLess DEF Settled, N
  <2>2. Len(stages') <= Cardinality(realized') + Spent(wi + 1)
    BY <1>4, <1>6, <1>7, <1>10, <2>1
  <2>3. CASE NoProgress(realized', targets')
    <3>1. pc' = "refused"
      BY <1>3, <2>3
    <3>2. QED
      BY <1>2, <2>2, <3>1 DEF Paced, Spent
  <2>4. CASE ~NoProgress(realized', targets')
    <3>1. pc' = "stages"
      BY <1>3, <2>4
    <3>2. realized \ targets \subseteq realized' \ targets'
      BY <1>3, <1>10
    <3>3. Settled <= Settled' /\ (realized \ targets # realized' \ targets' => Settled + 1 <= Settled')
      BY <1>5, <3>2, CountedLess DEF Settled
    <3>4. Cardinality(realized) + Settled + 1 <= Cardinality(realized') + Settled'
      <4>1. CASE realized' # realized
        BY <1>6, <1>7, <3>3, <4>1
      <4>2. CASE realized' = realized
        <5>1. targets' \subseteq targets
          BY <1>3, <1>10, <4>2
        <5>2. targets' # targets
          BY <2>4, <4>2 DEF NoProgress
        <5>3. PICK p \in targets : p \notin targets'
          BY <5>1, <5>2
        <5>4. p \in realized' /\ p \notin realized \ targets
          BY <1>3, <5>3
        <5>5. realized \ targets # realized' \ targets'
          BY <5>3, <5>4
        <5>6. QED
          BY <1>6, <1>7, <3>3, <5>5
      <4>3. QED
        BY <4>1, <4>2
    <3>5. Len(stages') <= Cardinality(realized') + Spent(wi) + 1 + Settled'
      <4>1. PICK t \in Nat, t2 \in Nat : t = Settled /\ t2 = Settled'
        BY <1>6
      <4>2. PICK a \in Nat, b \in Nat : a = Cardinality(realized) /\ b = Cardinality(realized')
        BY <1>6
      <4>3. PICK l \in Nat, s \in Nat : l = Len(stages) /\ s = Spent(wi)
        BY <1>6
      <4>4. a + t + 1 <= b + t2
        BY <3>4, <4>1, <4>2
      <4>5. l <= a + s + 1 + t
        BY <1>10, <4>1, <4>2, <4>3
      <4>6. l + 1 <= b + s + 1 + t2
        BY <4>4, <4>5
      <4>7. QED
        BY <1>4, <4>1, <4>2, <4>3, <4>6
    <3>6. QED
      BY <1>2, <1>8, <2>2, <3>1, <3>5 DEF Paced, Spent
  <2>5. QED
    BY <2>3, <2>4
<1>11. QED
  BY <1>2, <1>9, <1>10 DEF Paced

LEMMA PacedStep == Shapes /\ Paced /\ [Next]_vars => Paced'
<1> SUFFICES ASSUME Shapes, Paced, [Next]_vars PROVE Paced'
  OBVIOUS
<1>1. /\ wi \in Nat \ {0} /\ N \in Nat /\ Len(stages) \in Nat
      /\ Cardinality(realized) \in Nat /\ Settled \in Nat /\ Settled <= N
      /\ Spent(wi) \in Nat /\ Spent(wi + 1) \in Nat /\ Spent(wi + 1) = Spent(wi) + N + 1
  BY Figures
<1>2. CASE StartWave \/ StartLast
  <2>1. pc = "wave" /\ pc' = "stages" /\ UNCHANGED <<wi, realized, stages>>
    BY <1>2 DEF StartWave, StartLast
  <2>2. QED
    BY <2>1 DEF Paced, Spent
<1>3. CASE BuildStage
  BY <1>3, PacedBuild
<1>4. CASE EndWave
  <2>1. pc = "stages" /\ pc' = "wave" /\ wi' = wi + 1 /\ UNCHANGED <<realized, stages>>
    BY <1>4 DEF EndWave
  <2>2. Len(stages) <= Cardinality(realized) + Spent(wi + 1)
    BY DEF Paced
  <2>3. Spent((wi + 1) + 1) \in Nat /\ Spent((wi + 1) + 1) = Spent(wi + 1) + N + 1
    BY <1>1, SpentIs
  <2>4. Len(stages) <= Cardinality(realized) + Spent((wi + 1) + 1)
    <3>1. PICK a \in Nat, b \in Nat, c \in Nat :
            a = Spent(wi + 1) /\ b = Spent((wi + 1) + 1) /\ c = Cardinality(realized)
      BY <1>1, <2>3
    <3>2. a <= b
      BY <1>1, <2>3, <3>1
    <3>3. Len(stages) <= c + a
      BY <2>2, <3>1
    <3>4. Len(stages) <= c + b
      BY <1>1, <3>2, <3>3
    <3>5. QED
      BY <3>1, <3>4
  <2>5. QED
    BY <2>1, <2>2, <2>4 DEF Paced, Spent
<1>5. CASE EmptyStage \/ Overflow \/ Finish
  <2>1. pc' \in {"panic", "refused", "done"} /\ UNCHANGED <<wi, realized, stages>>
    BY <1>5 DEF EmptyStage, Overflow, Finish
  <2>2. QED
    BY <2>1 DEF Paced, Spent
<1>6. CASE UNCHANGED vars
  BY <1>6 DEF Paced, Spent, Settled, vars
<1>7. QED
  BY <1>2, <1>3, <1>4, <1>5, <1>6 DEF Next, Done

\* The loop that builds stages ends: there are no more of them than the pins they
\* have realized and, in each wave, the pins there are and one
\* (run_boomerang_stages_until_realized, which gives up when nothing moved).
THEOREM StagesBoundedHolds == Spec => []StagesBounded
<1>1. Shapes /\ Paced => StagesBounded
  <2> SUFFICES ASSUME Shapes, Paced PROVE StagesBounded
    OBVIOUS
  <2>1. wi \in Nat
    BY Figures
  <2>2. (wi + 1) - 1 = wi
    BY <2>1
  <2>3. QED
    BY <2>2 DEF Paced, Spent, N, StagesBounded
<1>2. Init => Shapes /\ Paced
  BY ShapesInit, PacedInit
<1>3. Shapes /\ Paced /\ [Next]_vars => (Shapes /\ Paced)'
  BY ShapesStep, PacedStep
<1>4. QED
  BY <1>1, <1>2, <1>3, PTL DEF Spec

-----------------------------------------------------------------------------
(* The waves hold every macro of the cone. *)

Swept(f, n, late) ==
  f = [p \in Pins |->
         IF p \notin Cone(n, n.gates \cup n.macros, n.early, n.targets) \/ p \in n.early THEN 0
         ELSE Max({0} \cup {f[q] : q \in n.fanin[p] \cup (n.state[p] \ late)})
              + (IF p \in Macros(n) THEN 1 ELSE 0)]

Deepened(g, n, f) ==
  g = [m \in Pins |-> Max({f[m]} \cup {g[q] + 1 : q \in Inputs(n, m) \cap Macros(n)})]

LEMMA SweptExists ==
  ASSUME NEW n \in Nets, NEW late
  PROVE  \E f \in [Pins -> Nat] : Swept(f, n, late) /\ \A p \in Pins : f[p] <= p
<1> DEFINE G == {f \in [Pins -> Nat] : \A p \in Pins : f[p] <= p}
           Fed(p) == n.fanin[p] \cup (n.state[p] \ late)
           Out(p) == p \notin Cone(n, n.gates \cup n.macros, n.early, n.targets) \/ p \in n.early
           One(p) == IF p \in Macros(n) THEN 1 ELSE 0
           Step(f) == [p \in Pins |-> IF Out(p) THEN 0
                                      ELSE Max({0} \cup {f[q] : q \in Fed(p)}) + One(p)]
           F == [f \in G |-> Step(f)]
<1>1. \A p \in Pins : /\ p \in Nat \ {0} /\ p - 1 \in Nat /\ One(p) \in 0 .. 1
                      /\ \A q \in Fed(p) : q \in Pins /\ q < p /\ q \in Nat
  <2>1. \A p \in Pins : p \in Nat \ {0} /\ p - 1 \in Nat /\ One(p) \in 0 .. 1
    BY PinsAre
  <2>2. \A p \in Pins : \A q \in Fed(p) : q \in Pins /\ q < p
    BY NetIs
  <2>3. QED
    BY <2>1, <2>2
<1> HIDE DEF Fed, Out, One
<1>2. ASSUME NEW f \in G PROVE Step(f) \in G
  <2>1. ASSUME NEW p \in Pins PROVE Max({0} \cup {f[q] : q \in Fed(p)}) + One(p) \in 0 .. p
    <3> DEFINE S == {0} \cup {f[q] : q \in Fed(p)}
    <3>1. S \subseteq 0 .. p - 1 /\ S # {}
      <4>1. \A q \in Fed(p) : f[q] \in 0 .. p - 1
        BY <1>1
      <4>2. 0 \in 0 .. p - 1
        BY <1>1
      <4>3. QED
        BY <4>1, <4>2
    <3>2. Max(S) \in S
      <4> HIDE DEF S
      <4> QED BY <1>1, <3>1, MaxIs
    <3>3. Max(S) \in 0 .. p - 1
      BY <3>1, <3>2
    <3>4. One(p) \in 0 .. 1 /\ p \in Nat
      BY <1>1
    <3> HIDE DEF S
    <3>5. Max(S) + One(p) \in 0 .. p
      BY <3>3, <3>4
    <3>6. QED
      BY <3>5 DEF S
  <2>2. \A p \in Pins : Step(f)[p] \in Nat /\ Step(f)[p] <= p
    BY <1>1, <2>1
  <2>3. QED
    BY <2>2
<1>3. F \in [G -> G]
  BY <1>2
<1>4. G # {}
  <2>1. [p \in Pins |-> 0] \in G
    BY PinsAre
  <2>2. QED
    BY <2>1
<1>5. ASSUME NEW f \in G, NEW g \in G, NEW p \in Pins, \A q \in Pins : q < p => f[q] = g[q]
      PROVE  F[f][p] = F[g][p]
  <2>1. \A q \in Fed(p) : f[q] = g[q]
    BY <1>1, <1>5
  <2>2. {f[q] : q \in Fed(p)} = {g[q] : q \in Fed(p)}
    BY <2>1
  <2>3. QED
    BY <2>2
<1>6. Local(F, G, Pins)
  <2> HIDE DEF G, F
  <2> QED BY <1>5 DEF Local
<1>7. Over(G, Pins)
  BY DEF Over
<1>8. \E f \in G : F[f] = f
  <2> HIDE DEF G, F
  <2>1. PICK b \in Nat : Pins \in SUBSET (0 .. b)
    BY PinsAre
  <2>2. QED
    BY <1>3, <1>4, <1>6, <1>7, <2>1, LocalRecursion
<1>9. PICK f \in G : F[f] = f
  BY <1>8
<1>10. f = Step(f)
  BY <1>9
<1>11. QED
  BY <1>10 DEF Swept, Fed, Out, One

Modest(f) == f \in [Pins -> Nat] /\ \A p \in Pins : f[p] <= p

LEMMA DeepenedExists ==
  ASSUME NEW n \in Nets, NEW w, Modest(w)
  PROVE  \E g \in [Pins -> Nat] : Deepened(g, n, w)
<1> DEFINE G == {g \in [Pins -> Nat] : \A p \in Pins : g[p] <= p}
           Fed(p) == Inputs(n, p) \cap Macros(n)
           Step(g) == [p \in Pins |-> Max({w[p]} \cup {g[q] + 1 : q \in Fed(p)})]
           F == [g \in G |-> Step(g)]
<1>1. \A p \in Pins : p \in Nat /\ \A q \in Fed(p) : q \in Pins /\ q < p /\ q \in Nat
  <2>1. \A p \in Pins : p \in Nat
    BY PinsAre
  <2>2. \A p \in Pins : \A q \in Fed(p) : q \in Pins /\ q < p
    BY NetIs DEF Inputs
  <2>3. QED
    BY <2>1, <2>2
<1> HIDE DEF Fed
<1>2. ASSUME NEW g \in G PROVE Step(g) \in G
  <2>1. ASSUME NEW p \in Pins PROVE Max({w[p]} \cup {g[q] + 1 : q \in Fed(p)}) \in 0 .. p
    <3> DEFINE S == {w[p]} \cup {g[q] + 1 : q \in Fed(p)}
    <3>1. S \subseteq 0 .. p /\ S # {}
      <4>1. \A q \in Fed(p) : g[q] + 1 \in 0 .. p
        BY <1>1
      <4>2. w[p] \in 0 .. p
        BY <1>1 DEF Modest
      <4>3. QED
        BY <4>1, <4>2
    <3>2. Max(S) \in S
      <4> HIDE DEF S
      <4> QED BY <1>1, <3>1, MaxIs
    <3>3. QED
      BY <3>1, <3>2
  <2>2. \A p \in Pins : Step(g)[p] \in Nat /\ Step(g)[p] <= p
    BY <1>1, <2>1
  <2>3. QED
    BY <2>2
<1>3. F \in [G -> G]
  BY <1>2
<1>4. G # {}
  <2>1. w \in G
    BY DEF Modest
  <2>2. QED
    BY <2>1
<1>5. ASSUME NEW g \in G, NEW h \in G, NEW p \in Pins, \A q \in Pins : q < p => g[q] = h[q]
      PROVE  F[g][p] = F[h][p]
  <2>1. \A q \in Fed(p) : g[q] = h[q]
    BY <1>1, <1>5
  <2>2. {g[q] + 1 : q \in Fed(p)} = {h[q] + 1 : q \in Fed(p)}
    BY <2>1
  <2>3. QED
    BY <2>2
<1>6. Local(F, G, Pins)
  <2> HIDE DEF G, F
  <2> QED BY <1>5 DEF Local
<1>7. Over(G, Pins)
  BY DEF Over
<1>8. \E f \in G : F[f] = f
  <2> HIDE DEF G, F, Step
  <2>1. PICK b \in Nat : Pins \in SUBSET (0 .. b)
    BY PinsAre
  <2>2. QED
    BY <1>3, <1>4, <1>6, <1>7, <2>1, LocalRecursion
<1>9. PICK g \in G : F[g] = g
  BY <1>8
<1>10. g = Step(g)
  BY <1>9
<1>11. QED
  BY <1>10 DEF Deepened, Fed

LEMMA SweptIs ==
  ASSUME NEW n \in Nets, NEW late, NEW f, Swept(f, n, late)
  PROVE  f \in [Pins -> Nat] /\ \A p \in Pins : f[p] <= p
<1> DEFINE Fed(p) == n.fanin[p] \cup (n.state[p] \ late)
           Out(p) == p \notin Cone(n, n.gates \cup n.macros, n.early, n.targets) \/ p \in n.early
           One(p) == IF p \in Macros(n) THEN 1 ELSE 0
           T == {p \in Pins : f[p] \in 0 .. p}
<1>1. /\ f = [p \in Pins |-> f[p]]
      /\ \A p \in Pins : f[p] = IF Out(p) THEN 0 ELSE Max({0} \cup {f[q] : q \in Fed(p)}) + One(p)
  BY DEF Swept
<1>2. \A p \in Pins : /\ p \in Nat \ {0} /\ p - 1 \in Nat /\ One(p) \in 0 .. 1
                      /\ \A q \in Fed(p) : q \in Pins /\ q < p /\ q \in Nat
  <2>1. \A p \in Pins : p \in Nat \ {0} /\ p - 1 \in Nat /\ One(p) \in 0 .. 1
    BY PinsAre
  <2>2. \A p \in Pins : \A q \in Fed(p) : q \in Pins /\ q < p
    BY NetIs
  <2>3. QED
    BY <2>1, <2>2
<1> HIDE DEF Fed, Out, One
<1>3. ASSUME NEW p \in Pins, \A q \in Pins : q < p => q \in T PROVE p \in T
  <2> DEFINE S == {0} \cup {f[q] : q \in Fed(p)}
  <2>1. \A q \in Fed(p) : f[q] \in 0 .. p - 1
    <3>1. \A q \in Fed(p) : f[q] \in 0 .. q /\ q < p /\ q \in Nat
      BY <1>2, <1>3
    <3>2. p \in Nat
      BY <1>2
    <3>3. QED
      BY <3>1, <3>2
  <2>2. S \subseteq 0 .. p - 1 /\ S # {}
    BY <1>2, <2>1
  <2>3. Max(S) \in S
    <3> HIDE DEF S
    <3> QED BY <1>2, <2>2, MaxIs
  <2>4. f[p] = IF Out(p) THEN 0 ELSE Max(S) + One(p)
    BY <1>1
  <2> HIDE DEF S
  <2>5. Max(S) \in 0 .. p - 1 /\ One(p) \in 0 .. 1 /\ p \in Nat
    BY <1>2, <2>2, <2>3
  <2>6. f[p] \in 0 .. p
    BY <2>4, <2>5
  <2>7. QED
    BY <2>6
<1>4. Pins \subseteq T
  <2> HIDE DEF T
  <2> QED BY <1>3, PinsAre, SmallerInduction
<1>5. \A p \in Pins : f[p] \in Nat /\ f[p] <= p
  BY <1>2, <1>4
<1>6. QED
  BY <1>1, <1>5

LEMMA DeepenedIs ==
  ASSUME NEW n \in Nets, NEW w, Modest(w), NEW g, Deepened(g, n, w)
  PROVE  \A p \in Pins : g[p] \in 0 .. p
<1> DEFINE Fed(p) == Inputs(n, p) \cap Macros(n)
           T == {p \in Pins : g[p] \in 0 .. p}
<1>1. \A p \in Pins : g[p] = Max({w[p]} \cup {g[q] + 1 : q \in Fed(p)})
  BY DEF Deepened
<1>2. \A p \in Pins : p \in Nat /\ \A q \in Fed(p) : q \in Pins /\ q < p /\ q \in Nat
  <2>1. \A p \in Pins : p \in Nat
    BY PinsAre
  <2>2. \A p \in Pins : \A q \in Fed(p) : q \in Pins /\ q < p
    BY NetIs DEF Inputs
  <2>3. QED
    BY <2>1, <2>2
<1> HIDE DEF Fed
<1>3. ASSUME NEW p \in Pins, \A q \in Pins : q < p => q \in T PROVE p \in T
  <2> DEFINE S == {w[p]} \cup {g[q] + 1 : q \in Fed(p)}
  <2>1. \A q \in Fed(p) : g[q] + 1 \in 0 .. p
    <3>1. \A q \in Fed(p) : g[q] \in 0 .. q /\ q < p /\ q \in Nat
      BY <1>2, <1>3
    <3>2. p \in Nat
      BY <1>2
    <3>3. QED
      BY <3>1, <3>2
  <2>2. w[p] \in 0 .. p
    BY <1>2 DEF Modest
  <2>3. S \subseteq 0 .. p /\ S # {}
    BY <2>1, <2>2
  <2>4. Max(S) \in S
    <3> HIDE DEF S
    <3> QED BY <1>2, <2>3, MaxIs
  <2>5. g[p] = Max(S)
    BY <1>1
  <2> HIDE DEF S
  <2>6. g[p] \in 0 .. p
    BY <2>3, <2>4, <2>5
  <2>7. QED
    BY <2>6
<1>4. Pins \subseteq T
  <2> HIDE DEF T
  <2> QED BY <1>3, PinsAre, SmallerInduction
<1>5. QED
  BY <1>4

LEMMA WavesCover ==
  ASSUME NEW n \in Nets, NEW late
  PROVE  Macros(n) \subseteq InWaves(WavesOf(n, late))
<1> DEFINE w == CHOOSE f : Swept(f, n, late)
           g == CHOOSE d : Deepened(d, n, w)
<1>1. Swept(w, n, late)
  BY SweptExists
<1>2. Modest(w)
  <2> HIDE DEF w
  <2> QED BY <1>1, SweptIs DEF Modest
<1>3. Deepened(g, n, w)
  <2> HIDE DEF w
  <2> QED BY <1>2, DeepenedExists
<1>4. \A p \in Pins : g[p] \in 0 .. p
  <2> HIDE DEF w, g
  <2> QED BY <1>2, <1>3, DeepenedIs
<1>5. WavesOf(n, late) = Ranks(g, Macros(n))
  BY DEF WavesOf, Ranks, Macros, Swept, Deepened
<1> HIDE DEF w, g
<1> DEFINE S == Macros(n)
           depths == {g[m] : m \in S}
           low(m) == {d \in depths : d <= g[m]}
<1>6. S \subseteq Pins /\ IsFiniteSet(S)
  <2>1. S \subseteq Pins
    BY NetIs DEF Macros
  <2>2. QED
    BY <2>1, PinsAre, FS_Subset
<1>7. IsFiniteSet(depths)
  <2> DEFINE h == [m \in S |-> g[m]]
  <2>1. h \in Surjection(S, depths)
    BY DEF Surjection
  <2>2. QED
    BY <1>6, <2>1, FS_Surjection
<1>8. Ranks(g, S) = [d \in 1 .. Cardinality(depths) |-> {m \in S : Cardinality(low(m)) = d}]
  BY DEF Ranks
<1>9. ASSUME NEW m \in S PROVE Cardinality(low(m)) \in 1 .. Cardinality(depths)
  <2>1. g[m] \in depths /\ g[m] \in 0 .. m /\ m \in Pins
    BY <1>4, <1>6
  <2>2. g[m] \in low(m) /\ low(m) \subseteq depths
    BY <2>1
  <2> HIDE DEF depths, low
  <2>3. IsFiniteSet(low(m)) /\ Cardinality(low(m)) <= Cardinality(depths)
    BY <1>7, <2>2, FS_Subset
  <2>4. Cardinality(low(m)) \in Nat /\ Cardinality(depths) \in Nat /\ Cardinality(low(m)) # 0
    BY <1>7, <2>2, <2>3, FS_CardinalityType, FS_EmptySet
  <2>5. QED
    BY <2>3, <2>4
<1>10. ASSUME NEW m \in S PROVE m \in InWaves(Ranks(g, S))
  <2> HIDE DEF S, depths, low
  <2>1. PICK d \in 1 .. Cardinality(depths) : d = Cardinality(low(m))
    BY <1>9
  <2>2. DOMAIN Ranks(g, S) = 1 .. Cardinality(depths) /\ m \in Ranks(g, S)[d]
    BY <1>8, <2>1
  <2>3. QED
    BY <2>2 DEF InWaves
<1>11. QED
  BY <1>5, <1>10

-----------------------------------------------------------------------------
(* How many waves a pin waits for. *)

OwnWave(p) == Max({0} \cup {d \in DOMAIN waves : p \in waves[d]})

Ranked(f) ==
  f = [p \in Pins |-> IF p \in net.macros THEN OwnWave(p)
                      ELSE IF p \in net.gates THEN Max({f[q] : q \in net.fanin[p]}) ELSE 0]

LEMMA OwnWaveIs ==
  ASSUME Design, NEW p
  PROVE  /\ OwnWave(p) \in 0 .. Len(waves)
         /\ \A d \in DOMAIN waves : p \in waves[d] => OwnWave(p) = d
         /\ p \notin InWaves(waves) => OwnWave(p) = 0
<1> DEFINE S == {0} \cup {d \in DOMAIN waves : p \in waves[d]}
<1>1. Len(waves) \in Nat /\ DOMAIN waves = 1 .. Len(waves)
  BY WavesInPins
<1>2. S \subseteq 0 .. Len(waves) /\ S # {} /\ 0 \in S
  BY <1>1
<1>3. Max(S) \in S /\ \A x \in S : x <= Max(S)
  <2> HIDE DEF S
  <2> QED BY <1>1, <1>2, MaxIs
<1>4. ASSUME NEW d \in DOMAIN waves, p \in waves[d] PROVE Max(S) = d
  <2>1. d \in S /\ d \in Nat /\ d # 0
    BY <1>1, <1>4
  <2>2. Max(S) # 0
    <3> HIDE DEF S
    <3> QED BY <1>3, <2>1
  <2>3. Max(S) \in DOMAIN waves /\ p \in waves[Max(S)]
    <3>1. PICK m : m = Max(S)
      OBVIOUS
    <3>2. m \in S /\ m # 0
      BY <1>3, <2>2, <3>1
    <3>3. m \in DOMAIN waves /\ p \in waves[m]
      BY <3>2
    <3> HIDE DEF S
    <3>4. QED
      BY <3>1, <3>3
  <2> HIDE DEF S
  <2>4. Max(S) # d => waves[Max(S)] \cap waves[d] = {}
    BY <1>4, <2>3 DEF Design
  <2>5. QED
    BY <1>4, <2>3, <2>4
<1>5. ASSUME p \notin InWaves(waves) PROVE Max(S) = 0
  <2>1. S = {0}
    BY <1>5 DEF InWaves
  <2>2. QED
    <3> HIDE DEF S
    <3> QED BY <1>3, <2>1
<1>6. OwnWave(p) = Max(S)
  BY DEF OwnWave
<1> HIDE DEF S
<1>7. QED
  BY <1>2, <1>3, <1>4, <1>5, <1>6

LEMMA RankedExists ==
  ASSUME Design
  PROVE  \E f : Ranked(f)
<1>1. PICK L \in Nat : L = Len(waves)
  BY WavesInPins
<1> DEFINE G == [Pins -> 0 .. L]
           Step(f) == [p \in Pins |-> IF p \in net.macros THEN OwnWave(p)
                                      ELSE IF p \in net.gates THEN Max({f[q] : q \in net.fanin[p]})
                                      ELSE 0]
           F == [f \in G |-> Step(f)]
<1>2. \A p \in Pins : OwnWave(p) \in 0 .. L
  BY <1>1, OwnWaveIs
<1>3. \A p \in Pins : \A q \in net.fanin[p] : q \in Pins /\ q < p
  BY NetIs DEF Design
<1>4. ASSUME NEW f \in G PROVE Step(f) \in G
  <2>1. ASSUME NEW p \in Pins, p \in net.gates PROVE Max({f[q] : q \in net.fanin[p]}) \in 0 .. L
    <3> DEFINE S == {f[q] : q \in net.fanin[p]}
    <3>1. S \subseteq 0 .. L /\ S # {}
      <4>1. net.fanin[p] # {}
        BY <2>1, NetIs DEF Design
      <4>2. QED
        BY <1>3, <4>1
    <3>2. Max(S) \in S
      <4> HIDE DEF S
      <4> QED BY <3>1, MaxIs
    <3>3. QED
      BY <3>1, <3>2
  <2>2. 0 \in 0 .. L
    OBVIOUS
  <2>3. \A p \in Pins : Step(f)[p] \in 0 .. L
    BY <1>2, <2>1, <2>2
  <2>4. QED
    BY <2>3
<1>5. F \in [G -> G]
  BY <1>4
<1>6. G # {}
  <2>1. [p \in Pins |-> 0] \in G
    BY <1>1
  <2>2. QED
    BY <2>1
<1>7. ASSUME NEW f \in G, NEW g \in G, NEW p \in Pins, \A q \in Pins : q < p => f[q] = g[q]
      PROVE  F[f][p] = F[g][p]
  <2>1. \A q \in net.fanin[p] : f[q] = g[q]
    BY <1>3, <1>7
  <2>2. {f[q] : q \in net.fanin[p]} = {g[q] : q \in net.fanin[p]}
    BY <2>1
  <2>3. QED
    BY <2>2
<1>8. Local(F, G, Pins)
  <2> HIDE DEF G, F
  <2> QED BY <1>7 DEF Local
<1>9. Over(G, Pins)
  BY DEF Over
<1>10. \E f \in G : F[f] = f
  <2> HIDE DEF G, F
  <2>1. PICK b \in Nat : Pins \in SUBSET (0 .. b)
    BY PinsAre
  <2>2. QED
    BY <1>5, <1>6, <1>8, <1>9, <2>1, LocalRecursion
<1>11. PICK f \in G : F[f] = f
  BY <1>10
<1>12. f = Step(f)
  BY <1>11
<1>13. QED
  BY <1>12 DEF Ranked

LEMMA RankedIs ==
  ASSUME Design, NEW f, Ranked(f)
  PROVE  /\ \A p \in Pins : f[p] \in 0 .. Len(waves)
         /\ \A p \in net.gates : \A q \in net.fanin[p] : f[q] <= f[p]
         /\ \A p \in net.gates : \E q \in net.fanin[p] : f[q] = f[p]
<1>1. PICK L \in Nat : L = Len(waves)
  BY WavesInPins
<1> DEFINE T == {p \in Pins : f[p] \in 0 .. L}
<1>2. /\ \A p \in net.macros : f[p] = OwnWave(p)
      /\ \A p \in net.gates : f[p] = Max({f[q] : q \in net.fanin[p]})
      /\ \A p \in Pins : p \notin net.gates \cup net.macros => f[p] = 0
  <2>1. \A p \in Pins : f[p] = IF p \in net.macros THEN OwnWave(p)
                               ELSE IF p \in net.gates THEN Max({f[q] : q \in net.fanin[p]}) ELSE 0
    BY DEF Ranked
  <2>2. net.gates \subseteq Pins /\ net.macros \subseteq Pins /\ net.gates \cap net.macros = {}
    BY NetIs DEF Design
  <2>3. QED
    BY <2>1, <2>2
<1>3. \A p \in Pins : /\ \A q \in net.fanin[p] : q \in Pins /\ q < p
                      /\ p \in net.gates => net.fanin[p] # {}
  BY NetIs DEF Design
<1>4. ASSUME NEW p \in net.gates, \A q \in net.fanin[p] : f[q] \in 0 .. L
      PROVE  /\ f[p] \in 0 .. L
             /\ \A q \in net.fanin[p] : f[q] <= f[p]
             /\ \E q \in net.fanin[p] : f[q] = f[p]
  <2> DEFINE S == {f[q] : q \in net.fanin[p]}
  <2>1. p \in Pins
    BY NetIs DEF Design
  <2>2. S \subseteq 0 .. L /\ S # {}
    BY <1>3, <1>4, <2>1
  <2>3. Max(S) \in S /\ \A x \in S : x <= Max(S)
    <3> HIDE DEF S
    <3> QED BY <2>2, MaxIs
  <2>4. f[p] = Max(S)
    BY <1>2
  <2>5. f[p] \in S /\ \A x \in S : x <= f[p]
    <3> HIDE DEF S
    <3> QED BY <2>3, <2>4
  <2>6. QED
    BY <2>2, <2>5
<1>5. Pins \subseteq T
  <2>1. ASSUME NEW p \in Pins, \A q \in Pins : q < p => q \in T PROVE p \in T
    <3>1. CASE p \in net.gates
      <4>1. \A q \in net.fanin[p] : f[q] \in 0 .. L
        BY <1>3, <2>1
      <4>2. QED
        BY <1>4, <3>1, <4>1
    <3>2. CASE p \in net.macros
      BY <1>1, <1>2, <3>2, OwnWaveIs
    <3>3. CASE p \notin net.gates \cup net.macros
      BY <1>2, <3>3
    <3>4. QED
      BY <3>1, <3>2, <3>3
  <2>2. QED
    <3> HIDE DEF T
    <3> QED BY <2>1, PinsAre, SmallerInduction
<1>6. \A p \in Pins : f[p] \in 0 .. L
  BY <1>5
<1>7. ASSUME NEW p \in net.gates
      PROVE (\A q \in net.fanin[p] : f[q] <= f[p]) /\ \E q \in net.fanin[p] : f[q] = f[p]
  <2>1. p \in Pins
    BY NetIs DEF Design
  <2>2. \A q \in net.fanin[p] : f[q] \in 0 .. L
    BY <1>3, <1>6, <2>1
  <2>3. QED
    BY <1>4, <2>2
<1>8. QED
  BY <1>1, <1>6, <1>7

\* A pin waits for the last wave that one of its fan-ins waits for.
LEMMA RankIs ==
  ASSUME Design
  PROVE  /\ \A p \in Pins : Rank[p] \in 0 .. Len(waves) /\ Rank[p] \in Nat
         /\ \A d \in DOMAIN waves : \A p \in waves[d] : Rank[p] = d
         /\ \A p \in Pins : p \notin net.gates \cup InWaves(waves) => Rank[p] = 0
         /\ \A p \in net.gates : \A q \in net.fanin[p] : Rank[q] <= Rank[p]
         /\ \A p \in net.gates : \E q \in net.fanin[p] : Rank[q] = Rank[p]
<1> DEFINE w == CHOOSE f : Ranked(f)
<1>1. Ranked(w)
  BY RankedExists
<1>2. Rank = w
  BY DEF Rank, Ranked, OwnWave
<1>3. Ranked(Rank)
  BY <1>1, <1>2
<1>4. PICK f : f = Rank
  OBVIOUS
<1>5. Ranked(f)
  BY <1>3, <1>4
<1>6. net.gates \subseteq Pins /\ net.macros \subseteq Pins /\ net.gates \cap net.macros = {}
  BY NetIs DEF Design
<1>7. \A p \in Pins : f[p] = IF p \in net.macros THEN OwnWave(p)
                             ELSE IF p \in net.gates THEN Max({f[q] : q \in net.fanin[p]}) ELSE 0
  BY <1>5 DEF Ranked
<1>8. Len(waves) \in Nat
  BY WavesInPins
<1>9. \A p \in Pins : f[p] \in 0 .. Len(waves) /\ f[p] \in Nat
  BY <1>5, <1>8, RankedIs
<1>10. ASSUME NEW d \in DOMAIN waves, NEW p \in waves[d] PROVE f[p] = d
  <2>1. p \in net.macros /\ p \in Pins
    BY WavesInPins
  <2>2. f[p] = OwnWave(p)
    BY <1>7, <2>1
  <2>3. QED
    BY <2>2, OwnWaveIs
<1>11. ASSUME NEW p \in Pins, p \notin net.gates \cup InWaves(waves) PROVE f[p] = 0
  BY <1>7, <1>11, OwnWaveIs
<1>12. /\ \A p \in net.gates : \A q \in net.fanin[p] : f[q] <= f[p]
       /\ \A p \in net.gates : \E q \in net.fanin[p] : f[q] = f[p]
  BY <1>5, RankedIs
<1>13. QED
  BY <1>4, <1>9, <1>10, <1>11, <1>12

-----------------------------------------------------------------------------
(* What waits for a wave, and what it waits with. *)

Covers == Macros(net) \subseteq InWaves(waves)

\* What endpoints and macros take.
Asked == net.targets \cup Demanded

Sharing == InOrder /\ SharesInputs

Below(p) == Cone(net, net.gates, realized, {p})

OnHold(p) == p \in Asked /\ p \notin realized /\ Rank[p] >= wi

LEMMA Static ==
  ASSUME [Next]_vars
  PROVE  /\ net' = net /\ waves' = waves /\ InWaves(waves)' = InWaves(waves)
         /\ Rank' = Rank /\ Asked' = Asked /\ Covers' = Covers /\ Sharing' = Sharing
         /\ \A d : Req(net, waves, d)' = Req(net, waves, d)
<1>1. net' = net /\ waves' = waves
  BY DEF Next, StartWave, StartLast, BuildStage, EmptyStage, Overflow, EndWave, Finish, Done, vars
<1>2. InWaves(waves)' = InWaves(waves)
  BY <1>1 DEF InWaves
<1>3. Rank' = Rank
  BY <1>1 DEF Rank
<1>4. \A d : Req(net, waves, d)' = Req(net, waves, d)
  BY <1>1 DEF Req, Inputs, InWaves
<1>5. Demanded' = Demanded
  BY <1>1 DEF Demanded
<1>6. Asked' = Asked /\ Covers' = Covers
  BY <1>1, <1>5 DEF Asked, Covers, Macros, InWaves
<1>7. InOrder' = InOrder
  BY <1>1 DEF InOrder, Inputs
<1>8. SharesInputs' = SharesInputs
  BY <1>1, <1>3, <1>5 DEF SharesInputs, Frontier, FromStart, Req, Inputs, InWaves
<1>9. QED
  BY <1>1, <1>2, <1>3, <1>4, <1>6, <1>7, <1>8 DEF Sharing

LEMMA AskedInPins ==
  ASSUME Design
  PROVE  Asked \in SUBSET Pins /\ \A d \in DOMAIN waves : Req(net, waves, d) \subseteq Asked
<1>1. net.targets \subseteq Pins
  BY NetIs DEF Design
<1>2. \A d \in DOMAIN waves : Req(net, waves, d) \subseteq Pins
  BY ReqInPins
<1>3. QED
  BY <1>1, <1>2 DEF Asked, Demanded

\* Gates wait as long as what they are computed from.
LEMMA RankFalls ==
  ASSUME Design, NEW stop, NEW p \in Pins, NEW q \in Cone(net, net.gates, stop, {p})
  PROVE  q \in Pins /\ Rank[q] <= Rank[p]
<1> DEFINE S == {x \in Pins : Rank[x] <= Rank[p]}
<1>1. \A x \in Pins : Rank[x] \in Nat
  BY RankIs
<1>2. ASSUME NEW x \in S, x \in net.gates PROVE net.fanin[x] \subseteq S
  <2>1. \A y \in net.fanin[x] : y \in Pins /\ Rank[y] <= Rank[x]
    BY <1>2, RankIs, NetIs DEF Design
  <2>2. ASSUME NEW y \in net.fanin[x] PROVE Rank[y] <= Rank[p]
    <3>1. Rank[y] <= Rank[x] /\ Rank[x] <= Rank[p] /\ y \in Pins
      BY <2>1
    <3>2. Rank[y] \in Nat /\ Rank[x] \in Nat /\ Rank[p] \in Nat
      BY <1>1, <3>1
    <3>3. QED
      BY <3>1, <3>2
  <2>3. QED
    BY <2>1, <2>2
<1>3. {p} \in SUBSET Pins /\ {p} \subseteq S
  BY <1>1
<1>4. Cone(net, net.gates, stop, {p}) \subseteq S
  <2> HIDE DEF S
  <2>1. \A x \in S : x \in net.gates /\ x \notin stop => net.fanin[x] \subseteq S
    BY <1>2
  <2>2. QED
    BY <1>3, <2>1, ConeLeast DEF Design
<1>5. QED
  BY <1>4

\* The macros that are behind what is asked for are in the waves.
LEMMA AskedCone ==
  ASSUME Design, Covers, InOrder
  PROVE  Cone(net, net.gates \cup net.macros, net.early, Asked) \cap net.macros \subseteq InWaves(waves)
<1> DEFINE all == net.gates \cup net.macros
<1> SUFFICES ASSUME NEW x \in Cone(net, all, net.early, Asked), x \in net.macros
             PROVE  x \in InWaves(waves)
  OBVIOUS
<1>1. net \in Nets /\ Asked \in SUBSET Pins
  BY AskedInPins DEF Design
<1>2. PICK t \in Asked : x \in Cone(net, all, net.early, {t})
  <2> HIDE DEF all
  <2> QED BY <1>1, ConeOfOne
<1>3. CASE t \in net.targets
  <2>1. {t} \in SUBSET Pins /\ net.targets \in SUBSET Pins /\ {t} \subseteq net.targets
    BY <1>1, <1>3, NetIs
  <2>2. Cone(net, all, net.early, {t}) \subseteq Cone(net, all, net.early, net.targets)
    <3> HIDE DEF all
    <3> QED BY <1>1, <2>1, ConeGrows
  <2>3. x \in Macros(net)
    BY <1>2, <2>2 DEF Macros
  <2>4. QED
    BY <2>3 DEF Covers
<1>4. CASE t \in Demanded
  <2>1. PICK d \in DOMAIN waves : t \in Req(net, waves, d)
    BY <1>4 DEF Demanded
  <2>2. PICK m \in waves[d] : t \in Inputs(net, m)
    BY <2>1 DEF Req
  <2>3. m \in Pins
    BY WavesInPins
  <2>4. {t} \in SUBSET Pins /\ Inputs(net, m) \in SUBSET Pins /\ {t} \subseteq Inputs(net, m)
    BY <1>1, <2>2, <2>3, NetIs DEF Inputs
  <2>5. Cone(net, all, net.early, {t}) \subseteq Cone(net, all, net.early, Inputs(net, m))
    <3> HIDE DEF all
    <3> QED BY <1>1, <2>4, ConeGrows
  <2>6. Cone(net, all, net.early, Inputs(net, m)) \cap net.macros \subseteq UNION {waves[e] : e \in 1 .. d - 1}
    BY DEF InOrder
  <2>7. PICK e \in 1 .. d - 1 : x \in waves[e]
    BY <1>2, <2>5, <2>6
  <2>8. e \in DOMAIN waves
    BY WavesInPins
  <2>9. QED
    BY <2>7, <2>8 DEF InWaves
<1>5. QED
  BY <1>3, <1>4 DEF Asked

\* So that nothing is behind it but gates and what is realized.
LEMMA AskedReach ==
  ASSUME Shapes, Covers, InOrder, NEW p \in Asked
  PROVE  /\ Cone(net, net.gates \cup net.macros, realized, {p}) = Below(p)
         /\ Below(p) \cap net.macros \subseteq InWaves(waves)
<1> DEFINE all == net.gates \cup net.macros
<1>1. net \in Nets /\ Asked \in SUBSET Pins /\ {p} \in SUBSET Pins /\ {p} \subseteq Asked
  BY AskedInPins DEF Shapes, Design
<1>2. /\ all \ realized \subseteq all \ net.early
      /\ net.gates \ realized \subseteq all \ realized
  BY DEF Shapes
<1>3. Below(p) \subseteq Cone(net, all, realized, {p})
  <2> HIDE DEF all
  <2> QED BY <1>1, <1>2, ConeGrows DEF Below
<1>4. Cone(net, all, realized, {p}) \subseteq Cone(net, all, net.early, Asked)
  <2> HIDE DEF all
  <2> QED BY <1>1, <1>2, ConeGrows
<1>5. Cone(net, all, realized, {p}) \cap net.macros \subseteq InWaves(waves)
  BY <1>4, AskedCone DEF Shapes
<1>6. InWaves(waves) \subseteq realized
  BY DEF Shapes
<1>7. {p} \subseteq Below(p) /\ \A x \in Below(p) : x \in net.gates /\ x \notin realized => net.fanin[x] \subseteq Below(p)
  BY <1>1, ConeIs DEF Below
<1>8. \A x \in Below(p) : x \in all /\ x \notin realized => net.fanin[x] \subseteq Below(p)
  <2>1. \A x \in Below(p) : x \in net.macros => x \in realized
    BY <1>3, <1>5, <1>6
  <2>2. QED
    BY <1>7, <2>1
<1>9. Cone(net, all, realized, {p}) \subseteq Below(p)
  <2>1. PICK S : S = Below(p)
    OBVIOUS
  <2>2. {p} \subseteq S /\ \A x \in S : x \in all /\ x \notin realized => net.fanin[x] \subseteq S
    BY <1>7, <1>8, <2>1
  <2>3. Cone(net, all, realized, {p}) \subseteq S
    <3> HIDE DEF all
    <3> QED BY <1>1, <2>2, ConeLeast
  <2>4. QED
    BY <2>1, <2>3
<1>10. QED
  BY <1>3, <1>5, <1>9

\* What has been produced waits no longer.
Current == \A x \in realized : x \notin pending => Rank[x] < wi

\* What waits is computed from an output that no phase has produced.
LEMMA WaitsFor ==
  ASSUME Shapes, Current, NEW p \in Pins, Rank[p] >= wi
  PROVE  Below(p) \cap pending # {} /\ ReadsPending(p)
<1> DEFINE T == {x \in Pins : Rank[x] >= wi => Below(x) \cap pending # {}}
<1>1. Design /\ net \in Nets /\ wi \in Nat /\ wi >= 1 /\ InWaves(waves) \subseteq realized
  BY WavesInPins DEF Shapes, Design
<1>2. \A x \in Pins : Rank[x] \in Nat
  BY <1>1, RankIs
<1>3. ASSUME NEW x \in Pins
      PROVE  x \in Below(x) /\ (x \in net.gates /\ x \notin realized => net.fanin[x] \subseteq Below(x))
  BY <1>1, ConeIs DEF Below
<1>4. ASSUME NEW x \in Pins, \A y \in Pins : y < x => y \in T PROVE x \in T
  <2> SUFFICES ASSUME Rank[x] >= wi PROVE Below(x) \cap pending # {}
    OBVIOUS
  <2>1. CASE x \in realized
    <3>1. x \in pending
      BY <1>1, <1>2, <2>1 DEF Current
    <3>2. QED
      BY <1>3, <3>1
  <2>2. CASE x \notin realized
    <3>1. Rank[x] # 0
      BY <1>1, <1>2
    <3>2. x \in net.gates
      BY <1>1, <2>2, <3>1, RankIs
    <3>3. PICK y \in net.fanin[x] : Rank[y] = Rank[x]
      BY <1>1, <3>2, RankIs
    <3>4. y \in Pins /\ y < x
      BY <1>1, NetIs
    <3>5. Below(y) \cap pending # {}
      BY <1>4, <3>3, <3>4
    <3>6. y \in Below(x)
      BY <1>3, <2>2, <3>2, <3>3
    <3>7. Below(y) \subseteq Below(x)
      BY <1>1, <3>6, ConeOfCone DEF Below
    <3>8. QED
      BY <3>5, <3>7
  <2>3. QED
    BY <2>1, <2>2
<1>5. Pins \subseteq T
  <2> HIDE DEF T
  <2> QED BY <1>4, PinsAre, SmallerInduction
<1>6. Below(p) \cap pending # {}
  BY <1>5
<1>7. Below(p) \subseteq Cone(net, net.gates \cup net.macros, realized, {p})
  <2>1. net.gates \ realized \subseteq (net.gates \cup net.macros) \ realized /\ {p} \in SUBSET Pins
    OBVIOUS
  <2>2. QED
    BY <1>1, <2>1, ConeGrows DEF Below
<1>8. QED
  BY <1>6, <1>7 DEF ReadsPending

\* Where the waves are in order, what is asked for and reads such an output waits.
LEMMA ReadsWait ==
  ASSUME Shapes, Covers, InOrder, NEW p \in Asked, ReadsPending(p)
  PROVE  Rank[p] >= wi
<1>1. PICK x \in pending : x \in Below(p)
  BY AskedReach DEF ReadsPending
<1>2. PICK d \in wi .. Len(waves) : x \in waves[d]
  BY DEF Shapes
<1>3. Design /\ d \in DOMAIN waves /\ wi \in Nat
  BY WavesInPins DEF Shapes
<1>4. Rank[x] = d
  BY <1>2, <1>3, RankIs
<1>5. p \in Pins /\ x \in Pins /\ Rank[x] <= Rank[p]
  <2>1. p \in Pins
    BY <1>3, AskedInPins
  <2>2. QED
    BY <1>1, <1>3, <2>1, RankFalls DEF Below
<1>6. Rank[p] \in Nat
  BY <1>3, <1>5, RankIs
<1>7. QED
  BY <1>3, <1>4, <1>5, <1>6

\* What is behind a pin and does not wait as long is behind its frontier.
LEMMA FrontierPath ==
  ASSUME Shapes, NEW p \in Pins, NEW q \in Below(p), Rank[q] < Rank[p]
  PROVE  \E f \in Frontier(Rank, p) : f \in Pins /\ q \in Below(f) /\ Rank[f] < Rank[p]
<1> DEFINE low == {x \in Pins : Rank[x] < Rank[p]}
           D == Cone(net, net.gates, low, {p})
           last == {x \in D : Rank[x] = Rank[p]}
           F == {f \in UNION {net.fanin[x] : x \in last \cap net.gates} : Rank[f] < Rank[p]}
           Z == last \cup UNION {Below(f) : f \in F}
<1>1. Design /\ net \in Nets /\ \A x \in Pins : Rank[x] \in Nat
  BY RankIs DEF Shapes, Design
<1>2. Frontier(Rank, p) = F
  BY DEF Frontier
<1>3. D \in SUBSET Pins /\ p \in D /\ \A x \in D : x \in net.gates /\ x \notin low => net.fanin[x] \subseteq D
  <2> HIDE DEF low, last, F, Z
  <2>1. {p} \in SUBSET Pins
    OBVIOUS
  <2>2. PICK from : from = {p}
    OBVIOUS
  <2>3. D = Cone(net, net.gates, low, from) /\ from \in SUBSET Pins
    BY <2>2
  <2>4. /\ D \in SUBSET Pins /\ from \subseteq D
        /\ \A x \in D : x \in net.gates /\ x \notin low => net.fanin[x] \subseteq D
    <3> HIDE DEF D
    <3> QED BY <1>1, <2>3, ConeIs, Zenon
  <2>5. QED
    BY <2>2, <2>4
<1>4. \A x \in last : x \in Pins /\ Rank[x] = Rank[p] /\ (x \in net.gates => net.fanin[x] \subseteq D)
  <2> HIDE DEF D
  <2>1. \A x \in last : x \in D /\ x \in Pins /\ Rank[x] = Rank[p]
    BY <1>3
  <2>2. \A x \in last : x \notin low
    BY <1>1, <2>1
  <2>3. QED
    BY <1>3, <2>1, <2>2
<1>5. \A f \in F : f \in Pins /\ Rank[f] < Rank[p]
  <2> HIDE DEF D
  <2> QED BY <1>1, <1>4, NetIs
<1>6. ASSUME NEW f \in Pins
      PROVE  f \in Below(f) /\ \A x \in Below(f) : x \in net.gates /\ x \notin realized => net.fanin[x] \subseteq Below(f)
  BY <1>1, ConeIs DEF Below
<1> HIDE DEF D, low
<1>7. ASSUME NEW x \in Z, x \in net.gates, x \notin realized PROVE net.fanin[x] \subseteq Z
  <2>1. CASE x \in last
    <3>1. ASSUME NEW y \in net.fanin[x] PROVE y \in Z
      <4>1. y \in D /\ y \in Pins /\ Rank[y] <= Rank[p]
        BY <1>1, <1>3, <1>4, <1>7, <2>1, RankIs
      <4>2. CASE Rank[y] = Rank[p]
        BY <4>1, <4>2
      <4>3. CASE Rank[y] # Rank[p]
        <5>1. Rank[y] < Rank[p]
          BY <1>1, <4>1, <4>3
        <5>2. y \in F
          BY <1>7, <2>1, <5>1
        <5>3. y \in Below(y)
          BY <1>6, <4>1
        <5>4. QED
          BY <5>2, <5>3
      <4>4. QED
        BY <4>2, <4>3
    <3>2. QED
      BY <3>1
  <2>2. CASE \E f \in F : x \in Below(f)
    <3>1. PICK f \in F : x \in Below(f)
      BY <2>2
    <3>2. net.fanin[x] \subseteq Below(f)
      BY <1>5, <1>6, <1>7, <3>1
    <3>3. QED
      BY <3>1, <3>2
  <2>3. QED
    BY <2>1, <2>2
<1>8. {p} \in SUBSET Pins /\ {p} \subseteq Z
  BY <1>3
<1>9. Below(p) \subseteq Z
  <2> HIDE DEF Z
  <2>1. \A x \in Z : x \in net.gates /\ x \notin realized => net.fanin[x] \subseteq Z
    BY <1>7
  <2>2. QED
    BY <1>1, <1>8, <2>1, ConeLeast DEF Below
<1>10. q \notin last
  <2>1. q \in last => Rank[q] = Rank[p] /\ q \in Pins
    BY <1>4
  <2> HIDE DEF last
  <2>2. QED
    BY <1>1, <2>1
<1>11. PICK f \in F : q \in Below(f)
  BY <1>9, <1>10
<1>12. QED
  BY <1>2, <1>5, <1>11

\* What is asked for and not there is owed or on hold; what is owed does not wait.
Waiting ==
  /\ Covers
  /\ Current
  /\ targets \cup blocked \subseteq Asked \cup realized
  /\ pc = "wave" => Asked \ realized \subseteq targets
  /\ pc = "stages" => /\ Asked \ realized \subseteq targets \cup blocked
                      /\ \A t \in targets : ~ReadsPending(t)
  /\ \A d \in DOMAIN waves : d < wi => Req(net, waves, d) \subseteq realized
  /\ \A k \in DOMAIN phases : phases[k].macros = waves[k]

LEMMA WaitingInit == Init => Waiting
<1> SUFFICES ASSUME Init PROVE Waiting
  OBVIOUS
<1>1. Shapes /\ Design
  BY ShapesInit DEF Shapes
<1>2. Covers
  BY WavesCover DEF Init, Covers
<1>3. /\ pc = "wave" /\ wi = 1 /\ blocked = {} /\ phases = <<>>
      /\ realized = net.early \cup InWaves(waves) /\ pending = InWaves(waves)
      /\ targets = (net.targets \ InWaves(waves)) \cup Demanded
  BY DEF Init, Demanded
<1>4. Current
  <2>1. ASSUME NEW x \in realized, x \notin pending PROVE Rank[x] < wi
    <3>1. x \in net.early /\ x \notin InWaves(waves)
      BY <1>3, <2>1
    <3>2. x \in Pins /\ x \notin net.gates
      BY <1>1, <3>1, NetIs DEF Design
    <3>3. Rank[x] = 0
      BY <1>1, <3>1, <3>2, RankIs
    <3>4. QED
      BY <1>3, <3>3
  <2>2. QED
    BY <2>1 DEF Current
<1>5. targets \subseteq Asked /\ Asked \ realized \subseteq targets
  BY <1>3 DEF Asked
<1>6. \A d \in DOMAIN waves : ~(d < wi)
  BY <1>1, <1>3, WavesInPins
<1>7. DOMAIN phases = {}
  BY <1>3
<1>8. QED
  BY <1>2, <1>3, <1>4, <1>5, <1>6, <1>7 DEF Waiting

LEMMA ReqFromAsked ==
  ASSUME Shapes
  PROVE  ReqFrom(wi) \subseteq Asked
<1>1. wi \in Nat /\ wi >= 1 /\ DOMAIN waves = 1 .. Len(waves) /\ Len(waves) \in Nat
  BY WavesInPins DEF Shapes
<1>2. \A d \in wi .. Len(waves) : d \in DOMAIN waves
  BY <1>1
<1>3. QED
  BY <1>2, AskedInPins DEF ReqFrom, Shapes

LEMMA WaitingStart ==
  ASSUME Shapes, Waiting, StartWave \/ StartLast
  PROVE  Waiting'
<1> USE DEF Waiting
<1>1. [Next]_vars
  BY DEF Next
<1>2. /\ pc = "wave" /\ pc' = "stages"
      /\ UNCHANGED <<net, waves, wi, realized, pending, stages, phases>>
  BY DEF StartWave, StartLast
<1>3. /\ Covers' /\ Asked' = Asked /\ Rank' = Rank
      /\ \A d : Req(net, waves, d)' = Req(net, waves, d)
  BY <1>1, Static
<1>4. Current'
  BY <1>2, <1>3 DEF Current
<1>5. \A t : ReadsPending(t)' = ReadsPending(t)
  BY <1>2 DEF ReadsPending
<1>6. /\ targets' \cup blocked' = targets
      /\ \A t \in targets' : ~ReadsPending(t)
  <2>1. CASE StartWave
    <3> DEFINE wanted == targets \cup (ReqFrom(wi) \ realized)
    <3>1. wanted = targets
      BY <1>2, ReqFromAsked
    <3>2. blocked' = {p \in wanted : ReadsPending(p)} /\ targets' = wanted \ blocked'
      BY <2>1 DEF StartWave
    <3>3. QED
      BY <3>1, <3>2
  <2>2. CASE StartLast
    <3>1. wi \notin DOMAIN waves /\ blocked' = {} /\ targets' = targets
      BY <2>2 DEF StartLast
    <3>2. pending = {}
      BY <3>1, PendingIs
    <3>3. QED
      BY <3>1, <3>2 DEF ReadsPending
  <2>3. QED
    BY <2>1, <2>2
<1>7. /\ targets' \cup blocked' \subseteq Asked' \cup realized'
      /\ Asked' \ realized' \subseteq targets' \cup blocked'
  BY <1>2, <1>3, <1>6
<1>8. \A t \in targets' : ~ReadsPending(t)'
  BY <1>5, <1>6
<1>9. /\ (\A d \in DOMAIN waves : d < wi => Req(net, waves, d) \subseteq realized)'
      /\ (\A k \in DOMAIN phases : phases[k].macros = waves[k])'
  BY <1>2, <1>3
<1>10. QED
  BY <1>2, <1>3, <1>4, <1>7, <1>8, <1>9

\* Nothing that waits is behind what is owed.
LEMMA FlightIsClear ==
  ASSUME Shapes, \A t \in targets : ~ReadsPending(t), NEW x \in InFlight
  PROVE  x \in Pins /\ ~ReadsPending(x) /\ x \notin pending
<1>1. net \in Nets /\ targets \in SUBSET Pins
  BY DEF Shapes, Design
<1>2. x \in Pins
  BY <1>1, ConeIs DEF InFlight
<1>3. ~ReadsPending(x)
  BY <1>1, PassesOn DEF InFlight
<1>4. x \in Cone(net, net.gates \cup net.macros, realized, {x})
  <2>1. {x} \in SUBSET Pins
    BY <1>2
  <2>2. {x} \subseteq Cone(net, net.gates \cup net.macros, realized, {x})
    BY <1>1, <2>1, ConeIs
  <2>3. QED
    BY <2>2
<1>5. x \notin pending
  BY <1>3, <1>4 DEF ReadsPending
<1>6. QED
  BY <1>2, <1>3, <1>5

LEMMA WaitingBuild ==
  ASSUME Shapes, Owed, Waiting, BuildStage
  PROVE  Waiting'
<1>1. PICK h, w, r : StageIs(h, w, r)
  BY Built DEF Shapes, Design
<1>2. pc = "stages" /\ UNCHANGED <<net, waves, wi, pending, keep, blocked, phases>>
  BY DEF BuildStage
<1>3. /\ h \subseteq InFlight /\ w \subseteq h /\ realized' = realized \cup h
      /\ targets' = (targets \ w) \cup (keep \cap realized')
      /\ pc' \in {"refused", "stages"}
  BY <1>1 DEF StageIs
<1>4. /\ Covers' = Covers /\ Asked' = Asked /\ Rank' = Rank
      /\ \A d : Req(net, waves, d)' = Req(net, waves, d)
  <2>1. [Next]_vars
    BY DEF Next
  <2>2. QED
    BY <2>1, Static
<1>5. net \in Nets /\ realized \in SUBSET Pins /\ targets \in SUBSET Pins /\ keep \in SUBSET Pins
      /\ wi \in Nat
  BY WavesInPins DEF Shapes, Design
<1>6. \A t \in targets : ~ReadsPending(t)
  BY <1>2 DEF Waiting
<1>7. Current'
  <2>1. ASSUME NEW x \in realized', x \notin pending PROVE Rank[x] < wi
    <3>1. CASE x \in realized
      BY <2>1, <3>1 DEF Waiting, Current
    <3>2. CASE x \in h
      <4>1. x \in Pins /\ ~ReadsPending(x)
        BY <1>3, <1>6, <3>2, FlightIsClear
      <4>2. ~(Rank[x] >= wi)
        BY <4>1, WaitsFor DEF Waiting
      <4>3. Rank[x] \in Nat
        BY <4>1, RankIs DEF Shapes
      <4>4. QED
        BY <1>5, <4>2, <4>3
    <3>3. QED
      BY <1>3, <2>1, <3>1, <3>2
  <2>2. QED
    BY <1>2, <1>4, <2>1 DEF Current
<1>8. ASSUME NEW t \in targets' PROVE ~ReadsPending(t)'
  <2> DEFINE all == net.gates \cup net.macros
  <2>1. ReadsPending(t)' = (Cone(net, all, realized', {t}) \cap pending # {})
    BY <1>2 DEF ReadsPending
  <2>2. CASE t \in targets
    <3>1. {t} \in SUBSET Pins /\ all \ realized' \subseteq all \ realized
      BY <1>3, <1>5, <2>2
    <3>2. Cone(net, all, realized', {t}) \subseteq Cone(net, all, realized, {t})
      <4> HIDE DEF all
      <4> QED BY <1>5, <3>1, ConeGrows
    <3>3. Cone(net, all, realized, {t}) \cap pending = {}
      BY <1>6, <2>2 DEF ReadsPending
    <3>4. QED
      BY <2>1, <3>2, <3>3
  <2>3. CASE t \in keep /\ t \in realized'
    <3>1. t \in Pins /\ t \notin pending
      BY <1>2, <1>5, <2>3 DEF Owed
    <3>2. Cone(net, all, realized', {t}) = {t}
      <4> HIDE DEF all
      <4> QED BY <1>5, <2>3, <3>1, ConeStops
    <3>3. QED
      BY <2>1, <3>1, <3>2
  <2>4. QED
    BY <1>3, <2>2, <2>3
<1>9. targets' \cup blocked' \subseteq Asked' \cup realized'
  BY <1>2, <1>3, <1>4 DEF Waiting
<1>10. Asked' \ realized' \subseteq targets' \cup blocked'
  BY <1>2, <1>3, <1>4 DEF Waiting
<1>11. /\ (\A d \in DOMAIN waves : d < wi => Req(net, waves, d) \subseteq realized)'
       /\ (\A k \in DOMAIN phases : phases[k].macros = waves[k])'
  BY <1>2, <1>3, <1>4 DEF Waiting
<1>12. Covers'
  BY <1>4 DEF Waiting
<1>13. (\A t \in targets : ~ReadsPending(t))'
  BY <1>8
<1>14. pc' # "wave"
  BY <1>3
<1>15. QED
  BY <1>7, <1>9, <1>10, <1>11, <1>12, <1>13, <1>14 DEF Waiting

LEMMA WaitingEnd ==
  ASSUME Shapes, Waiting, EndWave
  PROVE  Waiting'
<1>1. /\ pc = "stages" /\ pc' = "wave" /\ wi \in DOMAIN waves /\ wi' = wi + 1
      /\ targets' = targets \cup ((blocked \ realized) \cup (waves[wi] \cap net.targets))
      /\ Req(net, waves, wi) \subseteq realized
      /\ pending' = pending \ waves[wi]
      /\ UNCHANGED <<net, waves, realized, keep, blocked, stages>>
  BY DEF EndWave, Finished, Resumed
<1>2. /\ Covers' = Covers /\ Asked' = Asked /\ Rank' = Rank
      /\ \A d : Req(net, waves, d)' = Req(net, waves, d)
  <2>1. [Next]_vars
    BY DEF Next
  <2>2. QED
    BY <2>1, Static
<1>3. Design /\ wi \in Nat /\ DOMAIN waves = 1 .. Len(waves) /\ Len(waves) \in Nat /\ realized \in SUBSET Pins
  BY WavesInPins DEF Shapes
<1>4. ASSUME NEW x \in realized, x \notin pending' PROVE Rank[x] < wi + 1
  <2>1. CASE x \in waves[wi]
    <3>1. Rank[x] = wi
      BY <1>1, <1>3, <2>1, RankIs
    <3>2. QED
      BY <1>3, <3>1
  <2>2. CASE x \notin waves[wi]
    <3>1. Rank[x] < wi
      BY <1>1, <1>4, <2>2 DEF Waiting, Current
    <3>2. Rank[x] \in Nat
      BY <1>3, RankIs
    <3>3. QED
      BY <1>3, <3>1, <3>2
  <2>3. QED
    BY <2>1, <2>2
<1>5. Current'
  BY <1>1, <1>2, <1>4 DEF Current
<1>6. /\ targets' \cup blocked' \subseteq Asked' \cup realized'
      /\ Asked' \ realized' \subseteq targets'
  BY <1>1, <1>2 DEF Waiting, Asked
<1>7. (\A d \in DOMAIN waves : d < wi => Req(net, waves, d) \subseteq realized)'
  <2>1. ASSUME NEW d \in DOMAIN waves, d < wi + 1 PROVE Req(net, waves, d) \subseteq realized
    <3>1. d = wi \/ d < wi
      BY <1>3, <2>1
    <3>2. QED
      BY <1>1, <3>1 DEF Waiting
  <2>2. QED
    BY <1>1, <1>2, <2>1
<1>8. (\A k \in DOMAIN phases : phases[k].macros = waves[k])'
  <2>1. ASSUME NEW k \in DOMAIN phases' PROVE phases'[k].macros = waves[k]
    <3>1. k \in 1 .. wi /\ DOMAIN phases = 1 .. wi - 1
      BY <2>1, ShapesEnd
    <3>2. CASE k = wi
      BY <3>2, ShapesEnd
    <3>3. CASE k # wi
      <4>1. k \in DOMAIN phases
        BY <1>3, <3>1, <3>3
      <4>2. phases'[k] = phases[k]
        BY <4>1, ShapesEnd
      <4>3. QED
        BY <4>1, <4>2 DEF Waiting
    <3>4. QED
      BY <3>2, <3>3
  <2>2. QED
    BY <1>1, <2>1
<1>9. Covers'
  BY <1>2 DEF Waiting
<1>10. QED
  BY <1>1, <1>5, <1>6, <1>7, <1>8, <1>9 DEF Waiting

LEMMA WaitingRest ==
  ASSUME Waiting, EmptyStage \/ Overflow \/ Finish \/ UNCHANGED vars
  PROVE  Waiting'
<1>1. UNCHANGED <<net, waves, wi, realized, pending, targets, keep, blocked, stages, phases>>
  BY DEF EmptyStage, Overflow, Finish, vars
<1>2. /\ Covers' = Covers /\ Asked' = Asked /\ Rank' = Rank
      /\ \A d : Req(net, waves, d)' = Req(net, waves, d)
  <2>1. [Next]_vars
    BY DEF Next
  <2>2. QED
    BY <2>1, Static
<1>3. Current' = Current
  BY <1>1, <1>2 DEF Current
<1>4. \A t : ReadsPending(t)' = ReadsPending(t)
  BY <1>1 DEF ReadsPending
<1>5. pc' \in {"panic", "refused", "done"} \/ pc' = pc
  BY DEF EmptyStage, Overflow, Finish, vars
<1>6. (\A t \in targets : ~ReadsPending(t))' <=> (\A t \in targets : ~ReadsPending(t))
  BY <1>1, <1>4
<1>7. QED
  BY <1>1, <1>2, <1>3, <1>5, <1>6 DEF Waiting

LEMMA WaitingStep == Shapes /\ Owed /\ Waiting /\ [Next]_vars => Waiting'
<1> SUFFICES ASSUME Shapes, Owed, Waiting, [Next]_vars PROVE Waiting'
  OBVIOUS
<1>1. \/ StartWave \/ StartLast \/ BuildStage \/ EndWave
      \/ EmptyStage \/ Overflow \/ Finish \/ UNCHANGED vars
  BY DEF Next, Done
<1>2. QED
  BY <1>1, WaitingStart, WaitingBuild, WaitingEnd, WaitingRest

-----------------------------------------------------------------------------
(* What stages look up is there. *)

\* What is there from the start and what the first waves have asked for.
Taken(d) == net.early \cup InWaves(waves) \cup UNION {Req(net, waves, e) : e \in 1 .. d}

LEMMA OnHoldIs ==
  ASSUME Shapes, NEW p, OnHold(p)
  PROVE  /\ p \in Pins /\ p \in net.gates /\ Rank[p] \in 1 .. Len(waves)
         /\ p \in Below(p)
         /\ \A x \in Below(p) : x \in Pins /\ Rank[x] <= Rank[p]
<1>1. Design /\ wi \in Nat /\ wi >= 1 /\ InWaves(waves) \subseteq realized
  BY WavesInPins DEF Shapes
<1>2. p \in Pins
  BY <1>1, AskedInPins DEF OnHold
<1>3. Rank[p] \in 0 .. Len(waves) /\ Rank[p] \in Nat
  BY <1>1, <1>2, RankIs
<1>4. Rank[p] \in 1 .. Len(waves)
  BY <1>1, <1>3, WavesInPins DEF OnHold
<1>5. Rank[p] # 0
  BY <1>1, <1>3 DEF OnHold
<1>6. p \in net.gates
  BY <1>1, <1>2, <1>5, RankIs DEF OnHold
<1>7. p \in Below(p)
  <2>1. {p} \in SUBSET Pins
    BY <1>2
  <2>2. {p} \subseteq Cone(net, net.gates, realized, {p})
    BY <1>1, <2>1, ConeIs DEF Design
  <2>3. QED
    BY <2>2 DEF Below
<1>8. \A x \in Below(p) : x \in Pins /\ Rank[x] <= Rank[p]
  BY <1>1, <1>2, RankFalls DEF Below
<1>9. QED
  BY <1>2, <1>4, <1>6, <1>7, <1>8

LEMMA SharesIs ==
  ASSUME Shapes, Sharing, NEW p, OnHold(p)
  PROVE  /\ FromStart(Rank, p) \subseteq net.targets
         /\ \A f \in Frontier(Rank, p) : f \in FromStart(Rank, p) \/ f \in Req(net, waves, Rank[f] + 1)
<1>1. p \in (net.targets \cup Demanded) \cap net.gates
  BY OnHoldIs DEF OnHold, Asked
<1>2. Rank[p] \in 1 .. Len(waves) /\ Len(waves) \in Nat
  BY OnHoldIs, WavesInPins DEF Shapes
<1>3. Rank[p] > 0
  BY <1>2
<1>4. \A x \in (net.targets \cup Demanded) \cap net.gates :
        Rank[x] > 0 => /\ FromStart(Rank, x) \subseteq net.targets
                       /\ \A f \in Frontier(Rank, x) \ FromStart(Rank, x) :
                            f \in Req(net, waves, Rank[f] + 1)
  BY DEF Sharing, SharesInputs
<1>5. QED
  BY <1>1, <1>3, <1>4

\* When a wave has its inputs, all that a pin on hold can be computed from yet was
\* there from the start or has been asked for.
LEMMA Served ==
  ASSUME Shapes, Waiting, Sharing, wi \in DOMAIN waves, Req(net, waves, wi) \subseteq realized,
         NEW p, OnHold(p), NEW q \in Below(p), Input(net, realized, q), q \notin pending
  PROVE  q \in realized /\ q \in Taken(wi)
<1>1. /\ Design /\ net \in Nets /\ wi \in Nat /\ wi >= 1 /\ DOMAIN waves = 1 .. Len(waves)
      /\ Len(waves) \in Nat /\ wi <= Len(waves)
      /\ net.early \subseteq realized /\ InWaves(waves) \subseteq realized
  BY WavesInPins DEF Shapes, Design
<1>2. \A x \in Pins : Rank[x] \in Nat
  BY <1>1, RankIs
<1> DEFINE Fine(x) == \A y \in Below(x) : Input(net, realized, y) /\ y \notin pending
                                             => y \in realized /\ y \in Taken(wi)
           T == {k \in 0 .. Len(waves) : \A x : OnHold(x) /\ Rank[x] = k => Fine(x)}
<1>3. \A d \in 1 .. wi : Req(net, waves, d) \subseteq realized \cap Taken(wi)
  <2>1. \A d \in 1 .. wi : d \in DOMAIN waves /\ (d = wi \/ d < wi)
    BY <1>1
  <2>2. \A d \in 1 .. wi : Req(net, waves, d) \subseteq realized
    BY <2>1 DEF Waiting
  <2>3. QED
    BY <2>2 DEF Taken
<1>4. ASSUME NEW k \in 0 .. Len(waves), \A j \in 0 .. Len(waves) : j < k => j \in T
      PROVE  k \in T
  <2> SUFFICES ASSUME NEW x, OnHold(x), Rank[x] = k, NEW y \in Below(x),
                      Input(net, realized, y), y \notin pending
               PROVE  y \in realized /\ y \in Taken(wi)
    OBVIOUS
  <2>1. x \in Pins /\ Rank[x] >= wi /\ Rank[x] \in 1 .. Len(waves) /\ y \in Pins
    BY OnHoldIs DEF OnHold
  <2>2. Rank[y] < wi
    <3>1. CASE y \in realized
      BY <2>1, <3>1 DEF Waiting, Current
    <3>2. CASE y \notin realized
      <4>1. y \notin net.gates \cup InWaves(waves)
        BY <1>1, <3>2 DEF Input
      <4>2. QED
        BY <1>1, <2>1, <4>1, RankIs
    <3>3. QED
      BY <3>1, <3>2
  <2>3. Rank[y] < Rank[x]
    BY <1>1, <1>2, <2>1, <2>2
  <2>4. PICK f \in Frontier(Rank, x) : f \in Pins /\ y \in Below(f) /\ Rank[f] < Rank[x]
    BY <2>1, <2>3, FrontierPath
  <2>5. ASSUME f \in realized PROVE y = f
    <3>1. Below(f) = {f}
      BY <1>1, <2>4, <2>5, ConeStops DEF Below
    <3>2. QED
      BY <2>4, <3>1
  <2>6. CASE f \in FromStart(Rank, x)
    <3>1. f \in net.early \cup InWaves(waves)
      BY <2>6 DEF FromStart
    <3>2. f \in realized /\ f \in Taken(wi)
      BY <1>1, <3>1 DEF Taken
    <3>3. QED
      BY <2>5, <3>2
  <2>7. CASE f \in Req(net, waves, Rank[f] + 1)
    <3>1. Rank[f] \in Nat /\ Rank[x] \in Nat /\ Rank[x] <= Len(waves)
      BY <1>1, <1>2, <2>1, <2>4
    <3>2. PICK d \in Nat : d = Rank[f] + 1
      BY <3>1
    <3>3. d \in 1 .. Len(waves)
      BY <1>1, <2>4, <3>1, <3>2
    <3>4. f \in Req(net, waves, d) /\ f \in Asked
      BY <1>1, <2>7, <3>2, <3>3, AskedInPins
    <3>5. CASE d <= wi
      <4>1. d \in 1 .. wi
        BY <1>1, <3>3, <3>5
      <4>2. f \in realized /\ f \in Taken(wi)
        BY <1>3, <3>4, <4>1
      <4>3. QED
        BY <2>5, <4>2
    <3>6. CASE ~(d <= wi)
      <4>1. Rank[f] >= wi
        BY <1>1, <3>1, <3>2, <3>6
      <4>2. CASE f \in realized
        <5>1. y = f
          BY <2>5, <4>2
        <5>2. QED
          BY <1>1, <2>2, <3>1, <4>1, <5>1
      <4>3. CASE f \notin realized
        <5>1. OnHold(f)
          BY <3>4, <4>1, <4>3 DEF OnHold
        <5>2. PICK j \in 0 .. Len(waves) : j = Rank[f] /\ j < k
          BY <1>1, <2>4, <3>1
        <5>3. j \in T
          BY <1>4, <5>2
        <5>4. Fine(f)
          BY <5>1, <5>2, <5>3
        <5>5. QED
          BY <2>4, <5>4
      <4>4. QED
        BY <4>2, <4>3
    <3>7. QED
      BY <3>5, <3>6
  <2>8. QED
    BY <2>4, <2>6, <2>7, SharesIs
<1>5. 0 .. Len(waves) \subseteq T
  <2> HIDE DEF T
  <2>1. PICK b \in Nat : b = Len(waves)
    BY <1>1
  <2>2. PICK P : P = 0 .. Len(waves)
    OBVIOUS
  <2>3. P \in SUBSET (0 .. b) /\ \A k \in P : (\A j \in P : j < k => j \in T) => k \in T
    BY <1>4, <2>1, <2>2
  <2>4. P \subseteq T
    BY <2>3, SmallerInduction
  <2>5. QED
    BY <2>2, <2>4
<1>6. Rank[p] \in 0 .. Len(waves)
  BY <1>1, OnHoldIs, RankIs
<1>7. Rank[p] \in T
  <2> HIDE DEF T
  <2> QED BY <1>5, <1>6
<1>8. Fine(p)
  BY <1>7
<1>9. QED
  BY <1>8

\* What pins on hold can be computed from yet is passed on from one stage to the
\* next: in a wave, as far as it was taken before, and between waves all of it.
Passed ==
  Sharing =>
    /\ realized \cap net.macros \subseteq InWaves(waves)
    /\ pc = "stages" => /\ \A p \in blocked : p \in realized \/ OnHold(p)
                        /\ keep \cap realized \subseteq targets
    /\ pc = "stages" /\ wi \in DOMAIN waves =>
         \A p : OnHold(p) =>
           \A q \in Below(p) : q \in realized /\ q \notin pending /\ q \in Taken(wi - 1) => q \in keep
    /\ pc = "wave" =>
         \A p : OnHold(p) => \A q \in Below(p) : q \in realized /\ q \notin pending => q \in targets

LEMMA PassedInit == Init => Passed
<1> SUFFICES ASSUME Init, Sharing PROVE Passed
  BY DEF Passed
<1>1. Shapes /\ Design /\ net \in Nets
  BY ShapesInit DEF Shapes, Design
<1>2. /\ pc = "wave" /\ realized = net.early \cup InWaves(waves) /\ pending = InWaves(waves)
      /\ targets = (net.targets \ InWaves(waves)) \cup Demanded
  BY DEF Init, Demanded
<1>3. realized \cap net.macros \subseteq InWaves(waves)
  BY <1>1, <1>2, NetIs
<1>4. ASSUME NEW p, OnHold(p), NEW q \in Below(p), q \in realized, q \notin pending
      PROVE  q \in targets
  <2>1. q \in net.early /\ q \notin InWaves(waves) /\ q \in Pins /\ p \in Pins
    BY <1>2, <1>4, OnHoldIs, <1>1
  <2>2. Rank[q] = 0
    BY <1>1, <2>1, NetIs, RankIs
  <2>3. Rank[p] > 0
    <3>1. Rank[p] \in 1 .. Len(waves) /\ Len(waves) \in Nat
      BY <1>1, <1>4, OnHoldIs, WavesInPins
    <3>2. QED
      BY <3>1
  <2>4. q \in FromStart(Rank, p)
    BY <1>2, <1>4, <2>1, <2>2, <2>3 DEF FromStart, Below
  <2>5. q \in net.targets
    BY <1>1, <1>4, <2>4, SharesIs
  <2>6. QED
    BY <1>2, <2>1, <2>5
<1>5. QED
  BY <1>2, <1>3, <1>4 DEF Passed

LEMMA PassedWave ==
  ASSUME Shapes, Waiting, Kept, Passed, StartWave
  PROVE  Passed'
<1>1. [Next]_vars
  BY DEF Next
<1>2. /\ pc = "wave" /\ pc' = "stages" /\ wi \in DOMAIN waves
      /\ UNCHANGED <<net, waves, wi, realized, pending, stages, phases>>
      /\ blocked' = {p \in targets \cup (ReqFrom(wi) \ realized) : ReadsPending(p)}
      /\ keep' = ReqFrom(wi) \cup (Leaves(blocked') \ pending)
      /\ targets' = (targets \cup (ReqFrom(wi) \ realized)) \ blocked'
  BY DEF StartWave
<1>3. /\ Asked' = Asked /\ Rank' = Rank /\ Sharing' = Sharing /\ InWaves(waves)' = InWaves(waves)
      /\ \A d : Req(net, waves, d)' = Req(net, waves, d)
  BY <1>1, Static
<1> SUFFICES ASSUME Sharing PROVE Passed'
  BY <1>3 DEF Passed
<1>4. /\ \A p : OnHold(p)' = OnHold(p) /\ Below(p)' = Below(p)
      /\ \A d : Taken(d)' = Taken(d)
  BY <1>2, <1>3 DEF OnHold, Below, Taken
<1>5. targets \cup (ReqFrom(wi) \ realized) = targets
  BY <1>2, ReqFromAsked DEF Waiting
<1>6. blocked' = {p \in targets : ReadsPending(p)} /\ targets' = targets \ blocked'
  BY <1>2, <1>5
<1>7. /\ Design /\ net \in Nets /\ InOrder /\ Covers /\ Current
      /\ targets \subseteq Asked \cup realized /\ Asked \ realized \subseteq targets
  BY <1>2 DEF Shapes, Design, Sharing, Waiting
<1>8. ASSUME NEW p \in blocked' PROVE p \in pending \/ OnHold(p)
  <2>1. ReadsPending(p) /\ p \in targets
    BY <1>6
  <2>2. CASE p \in realized
    BY <2>1, <2>2, NotOnHold
  <2>3. CASE p \notin realized
    <3>1. p \in Asked
      BY <1>7, <2>1, <2>3
    <3>2. Rank[p] >= wi
      BY <1>7, <2>1, <3>1, ReadsWait
    <3>3. QED
      BY <2>3, <3>1, <3>2 DEF OnHold
  <2>4. QED
    BY <2>2, <2>3
<1>9. pending \subseteq realized /\ blocked' \in SUBSET Pins
  <2>1. targets \in SUBSET Pins
    BY DEF Shapes
  <2>2. QED
    BY <1>6, <2>1, PendingIs
<1> DEFINE all == net.gates \cup net.macros
<1>10. ASSUME NEW x \in keep', x \in realized PROVE x \in targets'
  <2>1. CASE x \in ReqFrom(wi)
    <3>1. x \in targets /\ x \notin pending
      BY <1>2, <1>10, <2>1, ReqApart DEF Kept
    <3>2. ~ReadsPending(x)
      BY <1>10, <3>1, NotOnHold
    <3>3. QED
      BY <1>6, <3>1, <3>2
  <2>2. CASE x \in Leaves(blocked') /\ x \notin pending
    <3>1. x \in Cone(net, all, realized, blocked')
      BY <2>2 DEF Leaves
    <3>2. PICK b \in blocked' : x \in Cone(net, all, realized, {b})
      <4> HIDE DEF all
      <4> QED BY <1>7, <1>9, <3>1, ConeOfOne
    <3>3. CASE b \in pending
      <4>1. Cone(net, all, realized, {b}) = {b}
        <5> HIDE DEF all
        <5> QED BY <1>7, <1>9, <3>3, ConeStops
      <4>2. QED
        BY <2>2, <3>2, <3>3, <4>1
    <3>4. CASE OnHold(b)
      <4>1. x \in Below(b)
        <5>1. b \in Asked
          BY <3>4 DEF OnHold
        <5>2. QED
          BY <1>7, <3>2, <5>1, AskedReach
      <4>2. x \in targets
        BY <1>2, <1>10, <2>2, <3>4, <4>1 DEF Passed
      <4>3. ~ReadsPending(x)
        BY <1>10, <2>2, NotOnHold
      <4>4. QED
        BY <1>6, <4>2, <4>3
    <3>5. QED
      BY <1>8, <3>3, <3>4
  <2>3. QED
    BY <1>2, <1>10, <2>1, <2>2
<1>11. ASSUME NEW p, OnHold(p), NEW q \in Below(p), q \in realized, q \notin pending
       PROVE  q \in keep'
  <2>1. p \in Pins /\ p \in targets
    BY <1>7, <1>11, OnHoldIs DEF OnHold
  <2>2. ReadsPending(p)
    BY <1>7, <1>11, <2>1, WaitsFor DEF OnHold
  <2>3. p \in blocked'
    BY <1>6, <2>1, <2>2
  <2>4. q \in Cone(net, all, realized, {p})
    BY <1>7, <1>11, AskedReach DEF OnHold
  <2>5. Cone(net, all, realized, {p}) \subseteq Cone(net, all, realized, blocked')
    <3>1. {p} \in SUBSET Pins /\ {p} \subseteq blocked' /\ all \ realized \subseteq all \ realized
      BY <2>1, <2>3
    <3>2. QED
      <4> HIDE DEF all
      <4> QED BY <1>7, <1>9, <3>1, ConeGrows
  <2>6. q \in Leaves(blocked')
    BY <1>11, <2>4, <2>5 DEF Leaves
  <2>7. QED
    BY <1>2, <1>11, <2>6
<1>12. (realized \cap net.macros \subseteq InWaves(waves))'
  BY <1>2, <1>3 DEF Passed
<1>13. /\ \A p \in blocked' : p \in realized' \/ OnHold(p)'
       /\ keep' \cap realized' \subseteq targets'
  BY <1>2, <1>4, <1>8, <1>9, <1>10
<1>14. \A p : OnHold(p)' => \A q \in Below(p)' : q \in realized' /\ q \notin pending' => q \in keep'
  BY <1>2, <1>4, <1>11
<1>15. pc' # "wave"
  BY <1>2
<1>16. QED
  BY <1>12, <1>13, <1>14, <1>15 DEF Passed

LEMMA PassedLast ==
  ASSUME Passed, StartLast
  PROVE  Passed'
<1>1. [Next]_vars
  BY DEF Next
<1>2. /\ pc' = "stages" /\ wi' \notin DOMAIN waves' /\ blocked' = {} /\ keep' = {}
      /\ UNCHANGED <<net, waves, realized>>
  BY DEF StartLast
<1>3. Sharing' = Sharing /\ InWaves(waves)' = InWaves(waves)
  BY <1>1, Static
<1>4. QED
  BY <1>2, <1>3 DEF Passed

\* Where the waves are in order, a stage takes no macro that is not in a wave.
LEMMA FlightMacros ==
  ASSUME Shapes, Waiting, InOrder, realized \cap net.macros \subseteq InWaves(waves)
  PROVE  InFlight \cap net.macros \subseteq InWaves(waves)
<1> SUFFICES ASSUME NEW x \in InFlight, x \in net.macros PROVE x \in InWaves(waves)
  OBVIOUS
<1>1. net \in Nets /\ targets \in SUBSET Pins /\ targets \subseteq Asked \cup realized /\ Covers
  BY DEF Shapes, Design, Waiting
<1>2. PICK t \in targets : x \in Below(t)
  BY <1>1, ConeOfOne DEF InFlight, Below
<1>3. CASE t \in realized
  <2>1. Below(t) = {t}
    BY <1>1, <1>3, ConeStops DEF Below
  <2>2. QED
    BY <1>2, <1>3, <2>1
<1>4. CASE t \in Asked
  BY <1>1, <1>2, <1>4, AskedReach
<1>5. QED
  BY <1>1, <1>3, <1>4

LEMMA PassedBuild ==
  ASSUME Shapes, Waiting, Passed, BuildStage
  PROVE  Passed'
<1>1. PICK h, w, r : StageIs(h, w, r)
  BY Built DEF Shapes, Design
<1>2. pc = "stages" /\ UNCHANGED <<net, waves, wi, pending, keep, blocked, phases>>
  BY DEF BuildStage
<1>3. /\ h \subseteq InFlight /\ w \subseteq h /\ realized' = realized \cup h
      /\ targets' = (targets \ w) \cup (keep \cap realized')
      /\ pc' \in {"refused", "stages"}
  BY <1>1 DEF StageIs
<1>4. /\ Asked' = Asked /\ Rank' = Rank /\ Sharing' = Sharing /\ InWaves(waves)' = InWaves(waves)
      /\ \A d : Req(net, waves, d)' = Req(net, waves, d)
  <2>1. [Next]_vars
    BY DEF Next
  <2>2. QED
    BY <2>1, Static
<1> SUFFICES ASSUME Sharing PROVE Passed'
  BY <1>4 DEF Passed
<1>5. realized' \cap net.macros \subseteq InWaves(waves)
  <2>1. InFlight \cap net.macros \subseteq InWaves(waves)
    BY FlightMacros DEF Passed, Sharing
  <2>2. QED
    BY <1>3, <2>1 DEF Passed
<1>6. \A p \in blocked' : p \in realized' \/ OnHold(p)'
  <2>1. \A p \in blocked : p \in realized \/ OnHold(p)
    BY <1>2 DEF Passed
  <2>2. \A p : OnHold(p) => p \in realized' \/ OnHold(p)'
    BY <1>2, <1>4 DEF OnHold
  <2>3. QED
    BY <1>2, <1>3, <2>1, <2>2
<1>7. keep' \cap realized' \subseteq targets'
  BY <1>2, <1>3
<1>8. \A d : Taken(d)' = Taken(d)
  BY <1>2, <1>4 DEF Taken
<1>9. ASSUME wi \in DOMAIN waves, NEW p, OnHold(p)', NEW q \in Below(p)',
             q \in realized', q \notin pending, q \in Taken(wi - 1)
      PROVE  q \in keep
  <2>1. OnHold(p)
    BY <1>2, <1>3, <1>4, <1>9 DEF OnHold
  <2>2. p \in Pins
    BY <2>1, OnHoldIs
  <2>3. Below(p)' = Cone(net, net.gates, realized \cup h, {p})
    BY <1>2, <1>3 DEF Below
  <2>4. Cone(net, net.gates, realized \cup h, {p}) \subseteq Below(p)
    <3>1. {p} \in SUBSET Pins /\ net.gates \ (realized \cup h) \subseteq net.gates \ realized /\ net \in Nets
      BY <2>2 DEF Shapes, Design
    <3>2. QED
      BY <3>1, ConeGrows DEF Below
  <2>5. q \in realized
    <3>1. \A e \in 1 .. wi - 1 : e \in DOMAIN waves /\ e < wi
      <4>1. wi \in Nat /\ wi <= Len(waves) /\ DOMAIN waves = 1 .. Len(waves) /\ Len(waves) \in Nat
        BY <1>9, WavesInPins DEF Shapes
      <4>2. QED
        BY <4>1
    <3>2. \A e \in 1 .. wi - 1 : Req(net, waves, e) \subseteq realized
      BY <3>1 DEF Waiting
    <3>3. QED
      BY <1>9, <3>2 DEF Taken, Shapes
  <2>6. QED
    BY <1>2, <1>9, <2>1, <2>3, <2>4, <2>5 DEF Passed
<1>10. pc' # "wave"
  BY <1>3
<1>11. wi' \in DOMAIN waves' =>
         \A p : OnHold(p)' =>
           \A q \in Below(p)' : q \in realized' /\ q \notin pending' /\ q \in Taken(wi - 1)' => q \in keep'
  BY <1>2, <1>8, <1>9
<1>12. (realized \cap net.macros \subseteq InWaves(waves))'
  BY <1>2, <1>4, <1>5
<1>13. QED
  BY <1>6, <1>7, <1>10, <1>11, <1>12 DEF Passed

\* When a wave ends, what pins on hold can be computed from yet is owed.
LEMMA OwnedAtEnd ==
  ASSUME Shapes, Waiting, Kept, Passed, Sharing, EndWave,
         NEW p, OnHold(p), NEW q \in Below(p), Input(net, realized, q), q \notin pending
  PROVE  q \in targets /\ q \in realized
<1>1. pc = "stages" /\ wi \in DOMAIN waves /\ Req(net, waves, wi) \subseteq realized
  BY DEF EndWave, Finished
<1>2. q \in realized /\ q \in Taken(wi)
  BY <1>1, Served
<1>3. wi \in Nat /\ wi >= 1 /\ wi <= Len(waves) /\ Len(waves) \in Nat
  BY <1>1, WavesInPins DEF Shapes
<1>4. CASE q \in Req(net, waves, wi)
  <2>1. wi \in wi .. Len(waves)
    BY <1>3
  <2>2. q \in ReqFrom(wi)
    BY <1>4, <2>1 DEF ReqFrom
  <2>3. QED
    BY <1>1, <1>2, <2>2 DEF Kept
<1>5. CASE q \in Taken(wi - 1)
  <2>1. q \in keep
    BY <1>1, <1>2, <1>5 DEF Passed
  <2>2. QED
    BY <1>1, <1>2, <2>1 DEF Passed
<1>6. Taken(wi) = Taken(wi - 1) \cup Req(net, waves, wi)
  <2>1. 1 .. wi = (1 .. wi - 1) \cup {wi}
    BY <1>3
  <2>2. QED
    BY <2>1 DEF Taken
<1>7. QED
  BY <1>2, <1>4, <1>5, <1>6

LEMMA PassedEnd ==
  ASSUME Shapes, Waiting, Kept, Passed, EndWave
  PROVE  Passed'
<1>1. /\ pc = "stages" /\ pc' = "wave" /\ wi \in DOMAIN waves /\ wi' = wi + 1
      /\ targets' = targets \cup ((blocked \ realized) \cup (waves[wi] \cap net.targets))
      /\ pending' = pending \ waves[wi]
      /\ UNCHANGED <<net, waves, realized, keep, blocked, stages>>
  BY DEF EndWave, Resumed
<1>2. /\ Asked' = Asked /\ Rank' = Rank /\ Sharing' = Sharing /\ InWaves(waves)' = InWaves(waves)
  <2>1. [Next]_vars
    BY DEF Next
  <2>2. QED
    BY <2>1, Static
<1> SUFFICES ASSUME Sharing PROVE Passed'
  BY <1>2 DEF Passed
<1>3. ASSUME NEW p, OnHold(p)', NEW q \in Below(p)', q \in realized, q \notin pending'
      PROVE  q \in targets'
  <2>1. /\ p \in Asked /\ p \notin realized /\ Rank[p] >= wi + 1
    BY <1>1, <1>2, <1>3 DEF OnHold
  <2>2. wi \in Nat /\ Design /\ p \in Pins
    BY <2>1, WavesInPins, AskedInPins DEF Shapes
  <2>3. Rank[p] \in Nat
    BY <2>2, RankIs
  <2>4. OnHold(p) /\ q \in Below(p)
    <3>1. Rank[p] >= wi
      BY <2>1, <2>2, <2>3
    <3>2. Below(p)' = Below(p)
      BY <1>1 DEF Below
    <3>3. QED
      BY <1>3, <2>1, <3>1, <3>2 DEF OnHold
  <2>5. CASE q \notin pending
    <3>1. Input(net, realized, q)
      BY <1>3 DEF Input
    <3>2. q \in targets
      BY <2>4, <2>5, <3>1, OwnedAtEnd
    <3>3. QED
      BY <1>1, <3>2
  <2>6. CASE q \in pending
    <3>1. q \in waves[wi]
      BY <1>1, <1>3, <2>6
    <3>2. Rank[q] = wi
      BY <1>1, <2>2, <3>1, RankIs
    <3>3. Rank[q] < Rank[p]
      BY <2>1, <2>2, <2>3, <3>2
    <3>4. q \in InWaves(waves)
      BY <1>1, <3>1 DEF InWaves
    <3>5. Below(p) \subseteq Cone(net, net.gates, net.early \cup InWaves(waves), {p})
      <4>1. /\ net.gates \ realized \subseteq net.gates \ (net.early \cup InWaves(waves))
            /\ {p} \in SUBSET Pins /\ net \in Nets
        BY <2>2 DEF Shapes, Design
      <4>2. QED
        BY <4>1, ConeGrows DEF Below
    <3>6. q \in FromStart(Rank, p)
      BY <2>4, <3>3, <3>4, <3>5 DEF FromStart
    <3>7. q \in net.targets
      BY <2>4, <3>6, SharesIs
    <3>8. QED
      BY <1>1, <3>1, <3>7
  <2>7. QED
    BY <2>5, <2>6
<1>4. (realized \cap net.macros \subseteq InWaves(waves))'
  BY <1>1, <1>2 DEF Passed
<1>5. \A p : OnHold(p)' => \A q \in Below(p)' : q \in realized' /\ q \notin pending' => q \in targets'
  BY <1>1, <1>3
<1>6. pc' # "stages"
  BY <1>1
<1>7. QED
  BY <1>4, <1>5, <1>6 DEF Passed

LEMMA PassedRest ==
  ASSUME Passed, EmptyStage \/ Overflow \/ Finish \/ UNCHANGED vars
  PROVE  Passed'
<1>1. UNCHANGED <<net, waves, wi, realized, pending, targets, keep, blocked, stages, phases>>
  BY DEF EmptyStage, Overflow, Finish, vars
<1>2. /\ Asked' = Asked /\ Rank' = Rank /\ Sharing' = Sharing /\ InWaves(waves)' = InWaves(waves)
      /\ \A d : Req(net, waves, d)' = Req(net, waves, d)
  <2>1. [Next]_vars
    BY DEF Next
  <2>2. QED
    BY <2>1, Static
<1>3. /\ \A p : OnHold(p)' = OnHold(p) /\ Below(p)' = Below(p)
      /\ Taken(wi - 1)' = Taken(wi - 1)
  BY <1>1, <1>2 DEF OnHold, Below, Taken
<1>4. pc' \in {"panic", "refused", "done"} \/ pc' = pc
  BY DEF EmptyStage, Overflow, Finish, vars
<1>5. CASE pc' \in {"panic", "refused", "done"}
  <2>1. pc' # "stages" /\ pc' # "wave"
    BY <1>5
  <2>2. QED
    BY <1>1, <1>2, <2>1 DEF Passed
<1>6. CASE pc' = pc
  BY <1>1, <1>2, <1>3, <1>6 DEF Passed
<1>7. QED
  BY <1>4, <1>5, <1>6

LEMMA PassedStep == Shapes /\ Waiting /\ Kept /\ Passed /\ [Next]_vars => Passed'
<1> SUFFICES ASSUME Shapes, Waiting, Kept, Passed, [Next]_vars PROVE Passed'
  OBVIOUS
<1>1. \/ StartWave \/ StartLast \/ BuildStage \/ EndWave
      \/ EmptyStage \/ Overflow \/ Finish \/ UNCHANGED vars
  BY DEF Next, Done
<1>2. QED
  BY <1>1, PassedWave, PassedLast, PassedBuild, PassedEnd, PassedRest

\* What a stage can look up after the a-th.
There(a) == Held(a) \cup Published(a)

\* What the next stage looks up is there, and each stage found what it reads.
Found ==
  Sharing =>
    /\ pc \in {"wave", "stages"} /\ Len(stages) # 0 =>
         \A q \in InFlight : Input(net, realized, q) /\ q \notin pending => q \in There(Len(stages))
    /\ \A s \in DOMAIN stages : stages[s].reads \subseteq There(s - 1)

LEMMA FoundInit == Init => Found
<1> SUFFICES ASSUME Init PROVE Found
  OBVIOUS
<1>1. Len(stages) = 0 /\ DOMAIN stages = {}
  BY DEF Init
<1>2. QED
  BY <1>1 DEF Found

LEMMA FoundStart ==
  ASSUME Shapes, Waiting, Found, StartWave \/ StartLast
  PROVE  Found'
<1>1. [Next]_vars
  BY DEF Next
<1>2. /\ pc = "wave" /\ UNCHANGED <<net, waves, wi, realized, pending, stages, phases>>
  BY DEF StartWave, StartLast
<1>3. Sharing' = Sharing
  BY <1>1, Static
<1>4. \A s : There(s)' = There(s)
  BY <1>2 DEF There, Held, Loaded, Published
<1>5. targets' \subseteq targets
  <2>1. CASE StartWave
    <3>1. targets \cup (ReqFrom(wi) \ realized) = targets
      BY <1>2, ReqFromAsked DEF Waiting
    <3>2. targets' = (targets \cup (ReqFrom(wi) \ realized)) \ blocked'
      BY <2>1 DEF StartWave
    <3>3. QED
      BY <3>1, <3>2
  <2>2. CASE StartLast
    BY <2>2 DEF StartLast
  <2>3. QED
    BY <2>1, <2>2
<1>6. InFlight' \subseteq InFlight
  <2>1. net \in Nets /\ targets \in SUBSET Pins /\ targets' \in SUBSET Pins
    BY <1>5 DEF Shapes, Design
  <2>2. net.gates \ realized \subseteq net.gates \ realized
    OBVIOUS
  <2>3. Cone(net, net.gates, realized, targets') \subseteq Cone(net, net.gates, realized, targets)
    BY <1>5, <2>1, <2>2, ConeGrows
  <2>4. QED
    BY <1>2, <2>3 DEF InFlight
<1> SUFFICES ASSUME Sharing PROVE Found'
  BY <1>3 DEF Found
<1>7. (Len(stages) # 0 =>
         \A q \in InFlight : Input(net, realized, q) /\ q \notin pending => q \in There(Len(stages)))'
  <2>1. There(Len(stages))' = There(Len(stages))
    BY <1>2 DEF There, Held, Loaded, Published
  <2>2. QED
    BY <1>2, <1>6, <2>1 DEF Found, Input
<1>8. (\A s \in DOMAIN stages : stages[s].reads \subseteq There(s - 1))'
  <2>1. \A s : There(s - 1)' = There(s - 1)
    BY <1>2 DEF There, Held, Loaded, Published
  <2>2. QED
    BY <1>2, <2>1 DEF Found
<1>9. QED
  BY <1>7, <1>8 DEF Found

\* Outputs that the phases in front of the first stage have published.
LEMMA FirstReads ==
  ASSUME Shapes, Waiting, Kept, Len(stages) = 0,
         NEW q, q \in InWaves(waves), q \notin pending
  PROVE  q \in Published(0)
<1>1. PICK d \in DOMAIN waves : q \in waves[d]
  BY DEF InWaves
<1>2. wi \in Nat /\ DOMAIN waves = 1 .. Len(waves) /\ Len(waves) \in Nat
      /\ DOMAIN phases = 1 .. wi - 1
  <2>1. phases \in Seq(Phases) /\ Len(phases) = wi - 1
    BY DEF Shapes
  <2>2. wi \in Nat /\ DOMAIN waves = 1 .. Len(waves) /\ Len(waves) \in Nat
    BY WavesInPins DEF Shapes
  <2>3. DOMAIN phases = 1 .. wi - 1
    <3>1. DOMAIN phases = 1 .. Len(phases)
      BY <2>1
    <3>2. QED
      BY <2>1, <3>1
  <2>4. QED
    BY <2>2, <2>3
<1>3. ~(d \in wi .. Len(waves))
  <2>1. pending = UNION {waves[e] : e \in wi .. Len(waves)}
    BY DEF Shapes
  <2>2. QED
    BY <1>1, <2>1
<1>4. d \in DOMAIN phases
  BY <1>2, <1>3
<1>5. phases[d].macros = waves[d]
  BY <1>4 DEF Waiting
<1>6. phases[d].after = 0
  <2>1. phases[d].after \in 0 .. Len(stages)
    BY <1>4 DEF Kept
  <2>2. QED
    BY <2>1
<1>7. QED
  BY <1>1, <1>4, <1>5, <1>6 DEF Published

LEMMA FoundBuild ==
  ASSUME Shapes, Waiting, Kept, Passed, Found, BuildStage
  PROVE  Found'
<1>1. PICK h, w, r : StageIs(h, w, r)
  BY Built DEF Shapes, Design
<1>2. pc = "stages" /\ UNCHANGED <<net, waves, wi, pending, keep, blocked, phases>>
  BY DEF BuildStage
<1>3. /\ h \subseteq InFlight /\ w \subseteq h /\ realized' = realized \cup h
      /\ targets' = (targets \ w) \cup (keep \cap realized')
      /\ \A q \in r : q \in InFlight /\ Input(net, realized, q)
      /\ \A q \in Cone(net, net.gates, realized \cup h, targets) :
           Input(net, realized \cup h, q) => q \in h
  BY <1>1 DEF StageIs
<1>4. Sharing' = Sharing
  <2>1. [Next]_vars
    BY DEF Next
  <2>2. QED
    BY <2>1, Static
<1> SUFFICES ASSUME Sharing PROVE Found'
  BY <1>4 DEF Found
<1>5. /\ net \in Nets /\ realized \in SUBSET Pins /\ targets \in SUBSET Pins /\ keep \in SUBSET Pins
      /\ h \in SUBSET Pins /\ stages \in Seq(Stages) /\ stages' \in Seq(Stages)
  BY <1>1, Appended DEF Shapes, Design
<1>6. /\ Len(stages') = Len(stages) + 1 /\ Len(stages) \in Nat
      /\ DOMAIN stages' = DOMAIN stages \cup {Len(stages')} /\ DOMAIN stages = 1 .. Len(stages)
      /\ \A s \in DOMAIN stages : stages'[s] = stages[s]
  <2>1. Len(stages) \in Nat /\ DOMAIN stages = 1 .. Len(stages)
    BY <1>5
  <2>2. QED
    BY <1>1, <2>1, Appended
<1>7. stages'[Len(stages')].holds = h /\ stages'[Len(stages')].reads = r
  BY <1>1, Appended
<1>8. keep \cap realized \subseteq targets
  BY <1>2 DEF Passed
<1>9. ASSUME NEW q \in InFlight', Input(net, realized', q) PROVE q \in h
  <2>1. targets' \in SUBSET Pins
    BY <1>3, <1>5
  <2>2. InFlight' = Cone(net, net.gates, realized \cup h, targets')
    BY <1>2, <1>3 DEF InFlight
  <2>3. PICK t \in targets' : q \in Cone(net, net.gates, realized \cup h, {t})
    BY <1>5, <2>1, <2>2, ConeOfOne
  <2>4. CASE t \in targets
    <3>1. {t} \in SUBSET Pins /\ {t} \subseteq targets
          /\ net.gates \ (realized \cup h) \subseteq net.gates \ (realized \cup h)
      BY <1>5, <2>4
    <3>2. Cone(net, net.gates, realized \cup h, {t}) \subseteq Cone(net, net.gates, realized \cup h, targets)
      BY <1>5, <3>1, ConeGrows
    <3>3. Input(net, realized \cup h, q)
      BY <1>3, <1>9
    <3>4. QED
      BY <1>3, <2>3, <3>2, <3>3
  <2>5. CASE t \notin targets
    <3>1. t \in h /\ t \in Pins
      BY <1>3, <1>5, <1>8, <2>5
    <3>2. Cone(net, net.gates, realized \cup h, {t}) = {t}
      <4>1. t \in realized \cup h
        BY <3>1
      <4>2. QED
        BY <1>5, <3>1, <4>1, ConeStops
    <3>3. QED
      BY <2>3, <3>1, <3>2
  <2>6. QED
    BY <2>4, <2>5
<1>10. (Len(stages) # 0 =>
          \A q \in InFlight : Input(net, realized, q) /\ q \notin pending => q \in There(Len(stages)))'
  <2>1. h \subseteq There(Len(stages))'
    <3>1. Len(stages') # 0
      BY <1>6
    <3>2. Held(Len(stages))' = stages'[Len(stages')].holds
      BY <3>1 DEF Held
    <3>3. QED
      BY <1>7, <3>2 DEF There
  <2>2. \A q \in InFlight' : Input(net, realized, q)' => q \in h
    BY <1>2, <1>9 DEF Input
  <2>3. QED
    BY <2>1, <2>2
<1>11. \A s : Published(s)' = Published(s)
  BY <1>2 DEF Published
<1>12. \A q \in r : q \notin pending
  <2>1. \A t \in targets : ~ReadsPending(t)
    BY <1>2 DEF Waiting
  <2>2. QED
    BY <1>3, <2>1, FlightIsClear
<1>13. ASSUME NEW s \in DOMAIN stages PROVE stages'[s].reads \subseteq Held(s - 1)' \cup Published(s - 1)
  <2>1. stages'[s] = stages[s] /\ stages[s].reads \subseteq Held(s - 1) \cup Published(s - 1)
    BY <1>6 DEF Found, There
  <2>2. s \in Nat /\ s >= 1 /\ s <= Len(stages)
    BY <1>6
  <2>3. Held(s - 1)' = Held(s - 1)
    <3>1. CASE s = 1
      <4>1. s - 1 = 0 /\ 1 \in DOMAIN stages
        BY <3>1
      <4>2. stages'[1] = stages[1]
        BY <1>6, <4>1
      <4>3. Loaded' = Loaded
        BY <1>2, <4>2 DEF Loaded
      <4>4. QED
        BY <4>1, <4>3 DEF Held
    <3>2. CASE s # 1
      <4>1. s - 1 # 0 /\ s - 1 \in DOMAIN stages
        BY <1>6, <2>2, <3>2
      <4>2. stages'[s - 1] = stages[s - 1]
        BY <1>6, <4>1
      <4>3. QED
        BY <4>1, <4>2 DEF Held
    <3>3. QED
      BY <3>1, <3>2
  <2>4. QED
    BY <2>1, <2>3
<1>14. PICK a : a = Len(stages)
  OBVIOUS
<1>15. r \subseteq (IF a = 0 THEN Loaded' ELSE stages'[a].holds) \cup Published(a)
  <2>1. CASE a = 0
    <3>1. Len(stages') = 1
      BY <1>6, <1>14, <2>1
    <3>2. Loaded' = r \ net.macros
      <4>1. stages'[1].reads = r
        BY <1>7, <3>1
      <4>2. QED
        BY <1>2, <4>1 DEF Loaded
    <3>3. ASSUME NEW q \in r, q \in net.macros PROVE q \in Published(0)
      <4>1. q \in InWaves(waves)
        <5>1. InFlight \cap net.macros \subseteq InWaves(waves)
          BY FlightMacros DEF Passed, Sharing
        <5>2. QED
          BY <1>3, <3>3, <5>1
      <4>2. QED
        BY <1>12, <1>14, <2>1, <4>1, FirstReads
    <3>4. r \subseteq Loaded' \cup Published(0)
      BY <3>2, <3>3
    <3>5. QED
      BY <2>1, <3>4
  <2>2. CASE a # 0
    <3>1. r \subseteq There(a)
      BY <1>2, <1>3, <1>12, <1>14, <2>2 DEF Found
    <3>2. a \in DOMAIN stages
      BY <1>6, <1>14, <2>2
    <3>3. stages'[a] = stages[a]
      BY <1>6, <3>2
    <3>4. Held(a) = stages[a].holds
      BY <2>2 DEF Held
    <3>5. r \subseteq stages'[a].holds \cup Published(a)
      BY <3>1, <3>3, <3>4 DEF There
    <3>6. QED
      BY <2>2, <3>5
  <2>3. QED
    BY <2>1, <2>2
<1>16. ASSUME NEW s \in DOMAIN stages' PROVE stages'[s].reads \subseteq There(s - 1)'
  <2>1. There(s - 1)' = Held(s - 1)' \cup Published(s - 1)
    BY <1>2 DEF There, Published
  <2>2. CASE s \in DOMAIN stages
    BY <1>13, <2>1, <2>2
  <2>3. CASE s = Len(stages')
    <3>1. s - 1 = a
      BY <1>6, <1>14, <2>3
    <3>2. stages'[s].reads = r
      BY <1>7, <2>3
    <3>3. Held(s - 1)' = IF s - 1 = 0 THEN Loaded' ELSE stages'[s - 1].holds
      BY DEF Held
    <3>4. Held(s - 1)' = IF a = 0 THEN Loaded' ELSE stages'[a].holds
      BY <3>1, <3>3
    <3>5. r \subseteq Held(s - 1)' \cup Published(s - 1)
      BY <1>15, <3>1, <3>4
    <3>6. QED
      BY <2>1, <3>2, <3>5
  <2>4. QED
    BY <1>6, <2>2, <2>3
<1>17. (\A s \in DOMAIN stages : stages[s].reads \subseteq There(s - 1))'
  BY <1>16
<1>18. QED
  BY <1>10, <1>17 DEF Found

LEMMA FoundEnd ==
  ASSUME Shapes, Waiting, Kept, Passed, Found, EndWave
  PROVE  Found'
<1>1. /\ pc = "stages" /\ pc' = "wave" /\ wi \in DOMAIN waves /\ wi' = wi + 1
      /\ targets' = targets \cup ((blocked \ realized) \cup (waves[wi] \cap net.targets))
      /\ pending' = pending \ waves[wi]
      /\ UNCHANGED <<net, waves, realized, keep, blocked, stages>>
  BY DEF EndWave, Resumed
<1>2. Sharing' = Sharing
  <2>1. [Next]_vars
    BY DEF Next
  <2>2. QED
    BY <2>1, Static
<1> SUFFICES ASSUME Sharing PROVE Found'
  BY <1>2 DEF Found
<1>3. /\ net \in Nets /\ realized \in SUBSET Pins /\ targets \in SUBSET Pins /\ targets' \in SUBSET Pins
      /\ wi \in Nat \ {0}
  BY ShapesEnd, WavesInPins DEF Shapes, Design
<1>4. /\ DOMAIN phases' = DOMAIN phases \cup {wi} /\ phases'[wi].after = Len(stages)
      /\ phases'[wi].macros = waves[wi] /\ \A k \in DOMAIN phases : phases'[k] = phases[k]
  <2>1. DOMAIN phases' = 1 .. wi /\ DOMAIN phases = 1 .. wi - 1
    BY ShapesEnd
  <2>2. DOMAIN phases' = DOMAIN phases \cup {wi}
    BY <1>3, <2>1
  <2>3. QED
    BY <2>2, ShapesEnd
<1>5. PICK a : a = Len(stages)
  OBVIOUS
<1>6. ASSUME NEW b PROVE There(b) \subseteq There(b)' /\ (b = a => waves[wi] \subseteq There(b)')
  <2>1. Held(b)' = Held(b)
    BY <1>1 DEF Held, Loaded
  <2>2. Published(b)' = UNION {phases'[j].macros : j \in {i \in DOMAIN phases' : phases'[i].after = b}}
    BY DEF Published
  <2>3. Published(b) \subseteq Published(b)'
    <3>1. ASSUME NEW q \in Published(b) PROVE q \in Published(b)'
      <4>1. PICK j \in DOMAIN phases : phases[j].after = b /\ q \in phases[j].macros
        BY DEF Published
      <4>2. j \in DOMAIN phases' /\ phases'[j].after = b /\ q \in phases'[j].macros
        BY <1>4, <4>1
      <4>3. QED
        BY <2>2, <4>2
    <3>2. QED
      BY <3>1
  <2>4. ASSUME b = a PROVE waves[wi] \subseteq Published(b)'
    <3>1. wi \in DOMAIN phases' /\ phases'[wi].after = b /\ phases'[wi].macros = waves[wi]
      BY <1>4, <1>5, <2>4
    <3>2. QED
      BY <2>2, <3>1
  <2>5. QED
    BY <2>1, <2>3, <2>4 DEF There
<1>7. ASSUME Len(stages) # 0, NEW q \in InFlight', Input(net, realized, q), q \notin pending'
      PROVE  q \in There(a)'
  <2>1. InFlight' = Cone(net, net.gates, realized, targets')
    BY <1>1 DEF InFlight
  <2>2. PICK t \in targets' : q \in Below(t)
    BY <1>3, <1>7, <2>1, ConeOfOne DEF Below
  <2>3. CASE q \in pending
    <3>1. q \in waves[wi]
      BY <1>1, <1>7, <2>3
    <3>2. QED
      BY <1>6, <3>1
  <2>4. ASSUME q \in InFlight, q \notin pending PROVE q \in There(a)'
    <3>1. q \in There(a)
      BY <1>1, <1>5, <1>7, <2>4 DEF Found
    <3>2. QED
      BY <1>6, <3>1
  <2>5. ASSUME NEW u \in targets PROVE Below(u) \subseteq InFlight
    <3>1. /\ {u} \in SUBSET Pins /\ {u} \subseteq targets
          /\ net.gates \ realized \subseteq net.gates \ realized
      BY <1>3
    <3>2. QED
      BY <1>3, <3>1, ConeGrows DEF Below, InFlight
  <2>6. CASE q \notin pending /\ t \in targets
    BY <2>2, <2>4, <2>5, <2>6
  <2>7. CASE t \in waves[wi] \cap net.targets
    <3>1. t \in realized /\ t \in Pins
      BY <1>1, <1>3, <2>7 DEF Shapes, InWaves
    <3>2. Below(t) = {t}
      BY <1>3, <3>1, ConeStops DEF Below
    <3>3. q \in waves[wi]
      BY <2>2, <2>7, <3>2
    <3>4. QED
      BY <1>6, <3>3
  <2>8. CASE q \notin pending /\ t \in blocked \ realized
    <3>1. OnHold(t)
      BY <1>1, <2>8 DEF Passed
    <3>2. q \in targets
      BY <1>7, <2>2, <2>8, <3>1, OwnedAtEnd
    <3>3. targets \subseteq InFlight
      BY <1>3, ConeIs DEF InFlight
    <3>4. QED
      BY <2>4, <2>8, <3>2, <3>3
  <2>9. QED
    BY <1>1, <2>2, <2>3, <2>6, <2>7, <2>8
<1>8. (Len(stages) # 0 =>
         \A q \in InFlight : Input(net, realized, q) /\ q \notin pending => q \in There(Len(stages)))'
  <2>1. There(Len(stages))' = There(a)'
    BY <1>1, <1>5 DEF There, Held, Loaded, Published
  <2>2. ASSUME Len(stages) # 0
        PROVE  \A q \in InFlight' : Input(net, realized, q) /\ q \notin pending' => q \in There(a)'
    BY <1>7, <2>2
  <2>3. \A q : Input(net, realized, q)' = Input(net, realized, q)
    BY <1>1 DEF Input
  <2>4. QED
    BY <1>1, <2>1, <2>2, <2>3
<1>9. ASSUME NEW s \in DOMAIN stages PROVE stages[s].reads \subseteq There(s - 1)'
  BY <1>6 DEF Found
<1>10. (\A s \in DOMAIN stages : stages[s].reads \subseteq There(s - 1))'
  BY <1>1, <1>9
<1>11. QED
  BY <1>8, <1>10 DEF Found

LEMMA FoundRest ==
  ASSUME Found, EmptyStage \/ Overflow \/ Finish \/ UNCHANGED vars
  PROVE  Found'
<1>1. UNCHANGED <<net, waves, wi, realized, pending, targets, keep, blocked, stages, phases>>
  BY DEF EmptyStage, Overflow, Finish, vars
<1>2. Sharing' = Sharing
  <2>1. [Next]_vars
    BY DEF Next
  <2>2. QED
    BY <2>1, Static
<1>3. /\ \A s : There(s - 1)' = There(s - 1)
      /\ There(Len(stages))' = There(Len(stages))
  BY <1>1 DEF There, Held, Loaded, Published
<1>4. InFlight' = InFlight /\ \A q : Input(net, realized, q)' = Input(net, realized, q)
  BY <1>1 DEF InFlight, Input
<1>5. (\A s \in DOMAIN stages : stages[s].reads \subseteq There(s - 1))'
      <=> (\A s \in DOMAIN stages : stages[s].reads \subseteq There(s - 1))
  BY <1>1, <1>3
<1>6. pc' \in {"panic", "refused", "done"} \/ pc' = pc
  BY DEF EmptyStage, Overflow, Finish, vars
<1>7. CASE pc' \in {"panic", "refused", "done"}
  <2>1. ~(pc' \in {"wave", "stages"})
    BY <1>7
  <2>2. QED
    BY <1>2, <1>5, <2>1 DEF Found
<1>8. CASE pc' = pc
  BY <1>1, <1>2, <1>3, <1>4, <1>5, <1>8 DEF Found
<1>9. QED
  BY <1>6, <1>7, <1>8

LEMMA FoundStep == Shapes /\ Waiting /\ Kept /\ Passed /\ Found /\ [Next]_vars => Found'
<1> SUFFICES ASSUME Shapes, Waiting, Kept, Passed, Found, [Next]_vars PROVE Found'
  OBVIOUS
<1>1. \/ StartWave \/ StartLast \/ BuildStage \/ EndWave
      \/ EmptyStage \/ Overflow \/ Finish \/ UNCHANGED vars
  BY DEF Next, Done
<1>2. QED
  BY <1>1, FoundStart, FoundBuild, FoundEnd, FoundRest

\* Where the waves are in order and pins on hold have no input of their own, each
\* stage finds every pin it reads in the shared state: for every design, whatever
\* the stages have room for (build_one, blocked and keep_live; the panic at
\* flatten.rs:875-887).
THEOREM LiveWhenSharedHolds == Spec => []LiveWhenShared
<1>1. Found => LiveWhenShared
  <2> SUFFICES ASSUME Found, Sharing, NEW s \in DOMAIN stages
               PROVE  stages[s].reads \subseteq Held(s - 1) \cup Published(s - 1)
    BY DEF LiveWhenShared, StageReadsLive, Sharing
  <2>1. QED
    BY DEF Found, There
<1> DEFINE IInv == Shapes /\ Owed /\ Waiting /\ Kept /\ Passed /\ Found
<1>2. Init => IInv
  BY ShapesInit, OwedInit, WaitingInit, KeptInit, PassedInit, FoundInit
<1>3. IInv /\ [Next]_vars => IInv'
  BY ShapesStep, OwedStep, WaitingStep, KeptStep, PassedStep, FoundStep
<1>4. IInv => LiveWhenShared
  BY <1>1
<1>5. QED
  <2> HIDE DEF IInv
  <2> QED BY <1>2, <1>3, <1>4, PTL DEF Spec

=============================================================================
