------------------------ MODULE FlattenLayoutProofs -------------------------
(***************************************************************************)
(* Theorems about FlattenLayout, for any designs, sizes of a word and      *)
(* numbers of blocks.                                                      *)
(*                                                                         *)
(* The words of a partition are zones: write-outs, DSPs, copies, SRAMs;    *)
(* its gather lanes are zones too. The inductive invariant (Laid) says     *)
(* that what has been filled of a zone is what the counters say, that the  *)
(* counters do not pass what the first pass counted, and where each        *)
(* activation is: so a position that is filled next is a new one, and what *)
(* was committed or gathered before stays. MapsHold then follows every     *)
(* endpoint to its position, and Started and Allocated are sums over the   *)
(* order of partitions and of DSPs and SRLs, which is total.               *)
(***************************************************************************)
EXTENDS FlattenLayout, Induction, FiniteSetTheorems

W == WordBits

\* FS_Interval for intervals that begin at one.
LEMMA FromOne == \A n \in Nat : IsFiniteSet(1 .. n) /\ Cardinality(1 .. n) = n
<1> SUFFICES ASSUME NEW n \in Nat PROVE IsFiniteSet(1 .. n) /\ Cardinality(1 .. n) = n
  OBVIOUS
<1>1. 1 \in Int /\ n \in Int
  OBVIOUS
<1>2. IsFiniteSet(1 .. n) /\ Cardinality(1 .. n) = (IF 1 > n THEN 0 ELSE n - 1 + 1)
  BY <1>1, FS_Interval
<1>3. (IF 1 > n THEN 0 ELSE n - 1 + 1) = n
  OBVIOUS
<1>4. QED
  BY <1>2, <1>3

LEMMA WIsPositive == W \in Nat /\ W > 0 /\ WordBits = W
  BY SizeAssumption DEF W

LEMMA DivMod ==
  ASSUME NEW n \in Nat
  PROVE  /\ n \div W \in Nat /\ n % W \in Nat /\ n % W < W
         /\ n = (n \div W) * W + (n % W)
  BY WIsPositive

LEMMA PlusWords == \A a, b \in Int : (a + b) * W = a * W + b * W
  BY WIsPositive

LEMMA MinusWords == \A a, b \in Int : (a - b) * W = a * W - b * W
  BY WIsPositive

LEMMA WordsAreBits == /\ \A a \in Int : a * W \in Int
                      /\ \A a \in Nat : a * W \in Nat
  BY WIsPositive

LEMMA WordOf ==
  ASSUME NEW a \in Nat, NEW b \in Nat, NEW pos \in Int, a * W <= pos, pos < b * W
  PROVE  pos \div W \in a .. b - 1
<1>1. pos \in Nat
  BY WIsPositive
<1>2. /\ pos \div W \in Nat /\ pos % W \in Nat /\ pos % W < W
      /\ pos = (pos \div W) * W + (pos % W)
  BY <1>1, DivMod
<1>3. QED
  BY <1>1, <1>2, WIsPositive

LEMMA WholeWords ==
  ASSUME NEW n \in Nat, n % W = 0
  PROVE  n \div W \in Nat /\ n = (n \div W) * W
  BY WIsPositive

LEMMA RoundUp ==
  ASSUME NEW n \in Nat
  PROVE  (n + W - 1) \div W \in Nat /\ n <= ((n + W - 1) \div W) * W
<1>1. n + W - 1 \in Nat
  BY WIsPositive
<1>2. QED
  BY <1>1, DivMod, WIsPositive

-----------------------------------------------------------------------------
(* Partitions. *)

GoodPart(p) ==
  /\ p.outs \in Seq(Nat) /\ Len(p.outs) % W = 0
  /\ p.ends \in Seq(Endpoints(p))

LEMMA PartsAreGood ==
  ASSUME NEW d \in Designs, NEW k \in DOMAIN d.parts
  PROVE  GoodPart(d.parts[k])
  BY DesignAssumption DEF GoodPart, W

LEMMA EndTypes ==
  ASSUME NEW p, GoodPart(p), NEW k \in DOMAIN p.ends
  PROVE  /\ DOMAIN p.ends = 1 .. Len(p.ends) /\ Len(p.ends) \in Nat /\ k \in Nat
         /\ p.ends[k].kind \in {"po", "io", "dff", "ram", "dsp"}
         /\ p.ends[k].kind \in {"po", "io"} => p.ends[k].iv \in Literals(p)
         /\ p.ends[k].kind = "dff" => p.ends[k].d \in Literals(p) /\ p.ends[k].en \in Literals(p)
         /\ p.ends[k].kind = "ram" => p.ends[k].re \in Literals(p) /\ p.ends[k].a \in Literals(p)
         /\ p.ends[k].kind = "dsp" => p.ends[k].a \in Literals(p)
<1>1. p.ends[k] \in Endpoints(p) /\ DOMAIN p.ends = 1 .. Len(p.ends) /\ Len(p.ends) \in Nat /\ k \in Nat
  BY DEF GoodPart
<1>2. QED
  BY <1>1 DEF Endpoints

LEMMA LiteralTypes ==
  ASSUME NEW p, GoodPart(p), NEW iv \in Literals(p)
  PROVE  /\ iv = <<iv[1], iv[2]>> /\ iv[2] \in {0, 1}
         /\ iv[1] = 0 \/ iv[1] \in Range(p.outs)
         /\ iv[1] \in Nat
<1>1. Range(p.outs) \subseteq Nat
  BY DEF GoodPart, Range
<1>2. QED
  BY <1>1 DEF Literals

LEMMA OneIsLiteral ==
  ASSUME NEW p
  PROVE  One \in Literals(p)
  BY DEF One, Literals

\* The activations that a partition may have.
ActType(p) == [pin : {0} \cup Range(p.outs), inv : {0, 1}, en : Literals(p)]

LEMMA ActivationTypes ==
  ASSUME NEW p, GoodPart(p), NEW k \in Asked(p)
  PROVE  /\ k \in DOMAIN p.ends
         /\ Activation(p.ends[k]) \in Activations(p)
         /\ Activation(p.ends[k]) \in ActType(p)
<1>1. k \in DOMAIN p.ends /\ p.ends[k].kind \in {"po", "io", "dff"}
  BY DEF Asked, Of
<1>2. CASE p.ends[k].kind = "dff"
  <2>1. p.ends[k].d \in Literals(p) /\ p.ends[k].en \in Literals(p)
    BY <1>1, <1>2, EndTypes
  <2>2. p.ends[k].d[1] \in {0} \cup Range(p.outs) /\ p.ends[k].d[2] \in {0, 1}
    BY <2>1 DEF Literals
  <2>3. QED
    BY <1>1, <1>2, <2>1, <2>2 DEF Activation, ActType, Activations
<1>3. CASE p.ends[k].kind # "dff"
  <2>1. p.ends[k].iv \in Literals(p) /\ One \in Literals(p)
    BY <1>1, <1>3, EndTypes, OneIsLiteral
  <2>2. p.ends[k].iv[1] \in {0} \cup Range(p.outs) /\ p.ends[k].iv[2] \in {0, 1}
    BY <2>1 DEF Literals
  <2>3. QED
    BY <1>1, <1>3, <2>1, <2>2 DEF Activation, ActType, Activations
<1>4. QED
  BY <1>2, <1>3

LEMMA EndsAreFinite ==
  ASSUME NEW p, GoodPart(p), NEW kinds
  PROVE  /\ IsFiniteSet(DOMAIN p.ends)
         /\ IsFiniteSet(Of(p, kinds)) /\ Cardinality(Of(p, kinds)) \in Nat
<1>1. DOMAIN p.ends = 1 .. Len(p.ends) /\ Len(p.ends) \in Nat
  BY DEF GoodPart
<1>2. IsFiniteSet(DOMAIN p.ends)
  BY <1>1, FromOne
<1>3. Of(p, kinds) \subseteq DOMAIN p.ends
  BY DEF Of
<1>4. QED
  BY <1>2, <1>3, FS_Subset, FS_CardinalityType

\* What a function makes of a finite set is finite.
LEMMA ImageIsFinite ==
  ASSUME NEW S, IsFiniteSet(S), NEW T, NEW f \in [S -> T]
  PROVE  IsFiniteSet({f[x] : x \in S})
<1>1. f \in Surjection(S, {f[x] : x \in S})
  BY DEF Surjection
<1>2. QED
  BY <1>1, FS_Surjection

LEMMA ActivationsAreFinite ==
  ASSUME NEW p, GoodPart(p)
  PROVE  IsFiniteSet(Activations(p)) /\ Activations(p) \subseteq ActType(p)
<1> DEFINE f == [k \in Asked(p) |-> Activation(p.ends[k])]
<1>1. IsFiniteSet(Asked(p))
  BY EndsAreFinite DEF Asked
<1>2. f \in [Asked(p) -> ActType(p)]
  BY ActivationTypes
<1>3. {f[k] : k \in Asked(p)} = Activations(p)
  BY DEF Activations
<1>4. IsFiniteSet({f[k] : k \in Asked(p)})
  <2> HIDE DEF f
  <2> QED BY <1>1, <1>2, ImageIsFinite
<1>5. Activations(p) \subseteq ActType(p)
  BY ActivationTypes DEF Activations
<1>6. QED
  BY <1>3, <1>4, <1>5

LEMMA FirstIsOne ==
  ASSUME NEW p, GoodPart(p), NEW a, NEW b, IsFirst(p, a), IsFirst(p, b), a.pin = b.pin
  PROVE  a = b
<1>1. PICK k \in Asked(p) : /\ Activation(p.ends[k]) = a
                            /\ \A j \in Asked(p) : j < k => Activation(p.ends[j]).pin # a.pin
  BY DEF IsFirst
<1>2. PICK m \in Asked(p) : /\ Activation(p.ends[m]) = b
                            /\ \A j \in Asked(p) : j < m => Activation(p.ends[j]).pin # b.pin
  BY DEF IsFirst
<1>3. k \in Nat /\ m \in Nat
  BY ActivationTypes, EndTypes
<1>4. ~(k < m) /\ ~(m < k)
  BY <1>1, <1>2
<1>5. k = m
  BY <1>3, <1>4
<1>6. QED
  BY <1>1, <1>2, <1>5

LEMMA EveryPinHasAFirst ==
  ASSUME NEW p, GoodPart(p), NEW a \in Activations(p)
  PROVE  \E b \in Activations(p) : IsFirst(p, b) /\ b.pin = a.pin
<1> DEFINE T == {k \in Asked(p) : Activation(p.ends[k]).pin = a.pin}
<1>1. T \subseteq Nat
  BY ActivationTypes, EndTypes
<1>2. T # {}
  BY DEF Activations
<1>3. PICK k \in T : \A m \in T : k <= m
  <2> HIDE DEF T
  <2> QED BY <1>1, <1>2, LeastNumber
<1>4. \A j \in Asked(p) : j < k => Activation(p.ends[j]).pin # a.pin
  <2>1. SUFFICES ASSUME NEW j \in Asked(p), j < k, Activation(p.ends[j]).pin = a.pin PROVE FALSE
    OBVIOUS
  <2>2. j \in T /\ j \in Nat /\ k \in Nat
    BY <1>1, <2>1
  <2>3. QED
    BY <1>3, <2>1, <2>2
<1>5. IsFirst(p, Activation(p.ends[k]))
  BY <1>4 DEF IsFirst
<1>6. QED
  BY <1>5, ActivationTypes

Duplicates(p) == {a \in Activations(p) : ~IsFirst(p, a)}

\* What the first pass counts are the activations that the second one places as copies.
LEMMA CopiesCounted ==
  ASSUME NEW p, GoodPart(p)
  PROVE  /\ Copies(p) = Cardinality(Duplicates(p)) /\ Copies(p) \in Nat
         /\ IsFiniteSet(Duplicates(p))
<1> DEFINE A == Activations(p)
           F == {a \in A : IsFirst(p, a)}
           P == {a.pin : a \in A}
           g == [a \in F |-> a.pin]
<1>1. IsFiniteSet(A)
  BY ActivationsAreFinite
<1>2. IsFiniteSet(F) /\ F \subseteq A
  BY <1>1, FS_Subset
<1>3. g \in Bijection(F, P)
  <2>1. g \in [F -> P]
    OBVIOUS
  <2>2. \A a, b \in F : g[a] = g[b] => a = b
    BY FirstIsOne
  <2>3. \A x \in P : \E a \in F : g[a] = x
    <3>1. SUFFICES ASSUME NEW a \in A PROVE \E b \in F : b.pin = a.pin
      OBVIOUS
    <3>2. QED
      BY EveryPinHasAFirst
  <2>4. QED
    <3> HIDE DEF g, P, F
    <3> QED BY <2>1, <2>2, <2>3 DEF Bijection, Injection, Surjection, IsInjective
<1>4. Cardinality(P) = Cardinality(F)
  <2> HIDE DEF F, P, g
  <2> QED BY <1>2, <1>3, FS_Bijection DEF ExistsBijection
<1>5. Duplicates(p) = A \ F
  BY DEF Duplicates
<1>6. /\ IsFiniteSet(A \ F)
      /\ Cardinality(A \ F) = Cardinality(A) - Cardinality(A \cap F)
  <2> HIDE DEF F, A
  <2> QED BY <1>1, FS_Difference
<1>7. A \cap F = F
  OBVIOUS
<1>8. Cardinality(A \ F) \in Nat
  <2> HIDE DEF F, A
  <2> QED BY <1>6, FS_CardinalityType
<1>9. Copies(p) = Cardinality(A) - Cardinality(P)
  BY DEF Copies
<1>10. QED
  <2> HIDE DEF F, A, P
  <2> QED BY <1>4, <1>5, <1>6, <1>7, <1>8, <1>9

LEMMA WrittenHolds ==
  ASSUME NEW p, GoodPart(p), NEW pin \in Range(p.outs)
  PROVE  Written(p, pin) \in 0 .. Len(p.outs) - 1 /\ p.outs[Written(p, pin) + 1] = pin
<1> DEFINE T == {k \in DOMAIN p.outs : p.outs[k] = pin}
<1>1. Len(p.outs) \in Nat /\ DOMAIN p.outs = 1 .. Len(p.outs)
  BY DEF GoodPart
<1>2. T \in SUBSET (0 .. Len(p.outs)) /\ T # {}
  BY <1>1 DEF Range
<1>3. PICK k \in T : \A m \in T : m <= k
  <2> HIDE DEF T
  <2> QED BY <1>1, <1>2, GreatestNumber
<1>4. \A m \in T : m \in Nat
  BY <1>1
<1>5. Max(T) \in T
  <2>1. \E x \in T : \A y \in T : x >= y
    BY <1>3, <1>4
  <2>2. QED
    BY <2>1, Zenon DEF Max
<1>6. Written(p, pin) = Max(T) - 1
  BY DEF Written
<1>7. PICK m \in T : m = Max(T)
  BY <1>5
<1>8. m \in 1 .. Len(p.outs) /\ p.outs[m] = pin /\ Written(p, pin) = m - 1
  BY <1>1, <1>6, <1>7
<1>9. QED
  BY <1>1, <1>8

LEMMA WrittenApart ==
  ASSUME NEW p, GoodPart(p), NEW x \in Range(p.outs), NEW y \in Range(p.outs),
         Written(p, x) = Written(p, y)
  PROVE  x = y
  BY WrittenHolds

LEMMA PartSizes ==
  ASSUME NEW p, GoodPart(p)
  PROVE  /\ NormalWords(p) \in Nat /\ NormalWords(p) * W = Len(p.outs)
         /\ CopyWords(p) \in Nat /\ Copies(p) \in Nat /\ Copies(p) <= CopyWords(p) * W
         /\ Srams(p) \in Nat /\ Dsps(p) \in Nat
         /\ Words(p) = NormalWords(p) + 2 * Dsps(p) + CopyWords(p) + Srams(p)
         /\ Words(p) \in Nat
<1>1. Len(p.outs) \in Nat
  BY DEF GoodPart
<1>2. NormalWords(p) \in Nat /\ NormalWords(p) * W = Len(p.outs)
  BY <1>1, WholeWords DEF GoodPart, NormalWords, W
<1>3. Srams(p) \in Nat /\ Dsps(p) \in Nat
  BY EndsAreFinite DEF Srams, Dsps
<1>4. Copies(p) \in Nat
  BY CopiesCounted
<1>5. CopyWords(p) \in Nat /\ Copies(p) <= CopyWords(p) * W
  BY <1>4, RoundUp DEF CopyWords, W
<1>6. QED
  BY <1>2, <1>3, <1>4, <1>5 DEF Words

\* A literal that is looked up is at hand among the words of the tree.
LEMMA QueryFinds ==
  ASSUME NEW p, GoodPart(p), NEW iv \in Literals(p)
  PROVE  /\ Query(p, iv).inv = iv[2]
         /\ Query(p, iv).set0 = 1 <=> iv[1] = 0
         /\ iv[1] # 0 => /\ Query(p, iv).pos \in 0 .. Len(p.outs) - 1
                         /\ p.outs[Query(p, iv).pos + 1] = iv[1]
         /\ Query(p, iv).set0 = 1 \/ Query(p, iv).pos \div W < NormalWords(p)
<1>1. CASE iv[1] = 0
  BY <1>1 DEF Query
<1>2. CASE iv[1] # 0
  <2>1. iv[1] \in Range(p.outs)
    BY <1>2, LiteralTypes
  <2>2. Written(p, iv[1]) \in 0 .. Len(p.outs) - 1 /\ p.outs[Written(p, iv[1]) + 1] = iv[1]
    BY <2>1, WrittenHolds
  <2>3. Query(p, iv) = [pos |-> Written(p, iv[1]), inv |-> iv[2], set0 |-> 0]
    BY <1>2 DEF Query
  <2>4. NormalWords(p) \in Nat /\ NormalWords(p) * W = Len(p.outs)
    BY PartSizes
  <2>5. Written(p, iv[1]) \div W \in 0 .. NormalWords(p) - 1
    <3>1. PICK x \in Nat : x = Written(p, iv[1]) /\ x < NormalWords(p) * W
      BY <2>2, <2>4
    <3>2. 0 * W <= x
      BY WIsPositive
    <3>3. x \div W \in 0 .. NormalWords(p) - 1
      BY <2>4, <3>1, <3>2, WordOf
    <3>4. QED
      BY <3>1, <3>3
  <2>6. QED
    BY <1>2, <2>2, <2>3, <2>4, <2>5
<1>3. QED
  BY <1>1, <1>2

LEMMA KernelWords ==
  ASSUME design \in Designs, NEW p \in DOMAIN design.parts
  PROVE  /\ GoodPart(design.parts[p])
         /\ DspAt(p) = NormalWords(design.parts[p])
         /\ CopyAt(p) = DspAt(p) + 2 * Dsps(design.parts[p])
         /\ SramAt(p) = CopyAt(p) + CopyWords(design.parts[p])
         /\ Words(design.parts[p]) = SramAt(p) + Srams(design.parts[p])
         /\ DspAt(p) \in Nat /\ CopyAt(p) \in Nat /\ SramAt(p) \in Nat
<1>1. GoodPart(design.parts[p])
  BY PartsAreGood
<1> DEFINE part == design.parts[p]
<1>2. PICK n \in Nat, d \in Nat, c \in Nat, s \in Nat :
        n = NormalWords(part) /\ d = Dsps(part) /\ c = CopyWords(part) /\ s = Srams(part)
  BY <1>1, PartSizes
<1>3. Words(part) = n + 2 * d + c + s
  BY <1>1, <1>2, PartSizes
<1>4. SramAt(p) = n + 2 * d + c
  BY <1>2, <1>3 DEF SramAt
<1>5. CopyAt(p) = n + 2 * d
  BY <1>2, <1>4 DEF CopyAt
<1>6. DspAt(p) = n
  BY <1>2, <1>5 DEF DspAt
<1>7. QED
  <2> HIDE DEF part
  <2>1. /\ DspAt(p) = NormalWords(part)
        /\ CopyAt(p) = DspAt(p) + 2 * Dsps(part)
        /\ SramAt(p) = CopyAt(p) + CopyWords(part)
        /\ Words(part) = SramAt(p) + Srams(part)
        /\ DspAt(p) \in Nat /\ CopyAt(p) \in Nat /\ SramAt(p) \in Nat
    BY <1>2, <1>3, <1>4, <1>5, <1>6
  <2>2. QED
    BY <1>1, <2>1 DEF part

-----------------------------------------------------------------------------
(* What the kernel makes of a position that the flattener has filled.       *)

\* The words and the bits of a partition: of its tree, then of its DSPs, its copies and
\* its SRAMs.
DspWords(part) == NormalWords(part)

CopiesAt(part) == DspWords(part) + 2 * Dsps(part)

SramsAt(part) == CopiesAt(part) + CopyWords(part)

DspBit(part, n) == (DspWords(part) + 2 * n) * W

CopyBit(part, c) == SramsAt(part) * W - c

SramBit(part, n) == (SramsAt(part) + n) * W

\* The gather lanes.
SramLane(n) == 4 * n * W

DspLane(part, n) == (4 * Srams(part) + 4 * n) * W

LaneEnd(part) == (4 * Srams(part) + 4 * Dsps(part) + CopyWords(part)) * W

CopyLaneBit(part, c) == LaneEnd(part) - c

\* Position pos of partition p holds an activation: as a write-out of the tree, or as a
\* copy with its gather lane.
At(p, pos, act) ==
  /\ <<p, pos>> \in DOMAIN enables
  /\ enables[<<p, pos>>] = [gate |-> Query(design.parts[p], act.en), inv |-> act.inv]
  /\ \/ pos = Written(design.parts[p], act.pin)
     \/ \E c \in 1 .. Copies(design.parts[p]) :
          /\ pos = CopyBit(design.parts[p], c)
          /\ <<p, CopyLaneBit(design.parts[p], c)>> \in DOMAIN lanes
          /\ lanes[<<p, CopyLaneBit(design.parts[p], c)>>] = Query(design.parts[p], <<act.pin, 0>>)

LEMMA ReadsLiteral ==
  ASSUME design \in Designs, NEW p \in DOMAIN design.parts, NEW iv \in Literals(design.parts[p])
  PROVE  Literal(p, Query(design.parts[p], iv)) = AsLiteral(iv)
<1> DEFINE q == Query(design.parts[p], iv)
<1>1. /\ q.inv = iv[2]
      /\ q.set0 = 1 <=> iv[1] = 0
      /\ iv[1] # 0 => design.parts[p].outs[q.pos + 1] = iv[1]
  BY KernelWords, QueryFinds
<1>2. QED
  <2> HIDE DEF q
  <2>1. Literal(p, q) = AsLiteral(iv)
    BY <1>1 DEF Literal, AsLiteral
  <2>2. QED
    BY <2>1 DEF q

\* What is computed at the position of an activation is its pin.
LEMMA ComputedAt ==
  ASSUME design \in Designs, NEW p \in DOMAIN design.parts, NEW pos,
         NEW act \in ActType(design.parts[p]), act.pin # 0, At(p, pos, act)
  PROVE  pos \in Nat /\ Computed(p, pos) = <<"pin", act.pin, 0>>
<1> DEFINE part == design.parts[p]
<1>1. /\ GoodPart(part) /\ DspAt(p) \in Nat /\ CopyAt(p) \in Nat /\ SramAt(p) \in Nat
      /\ DspAt(p) = NormalWords(part)
      /\ CopyAt(p) = DspAt(p) + 2 * Dsps(part)
      /\ SramAt(p) = CopyAt(p) + CopyWords(part)
  BY KernelWords
<1>2. /\ NormalWords(part) * W = Len(part.outs) /\ CopyWords(part) \in Nat
      /\ Copies(part) \in Nat /\ Copies(part) <= CopyWords(part) * W
      /\ Srams(part) \in Nat /\ Dsps(part) \in Nat
  BY <1>1, PartSizes
<1>3. act.pin \in Range(part.outs) /\ act.pin \in Nat
  <2>1. Range(part.outs) \subseteq Nat
    BY <1>1 DEF GoodPart, Range
  <2>2. QED
    BY <2>1 DEF ActType
<1>4. CASE pos = Written(part, act.pin)
  <2>1. pos \in Nat /\ pos < Len(part.outs) /\ part.outs[pos + 1] = act.pin
    <3>1. Len(part.outs) \in Nat
      BY <1>1 DEF GoodPart
    <3>2. QED
      BY <1>1, <1>3, <1>4, <3>1, WrittenHolds
  <2>2. 0 * W <= pos /\ pos < DspAt(p) * W
    BY <1>1, <1>2, <2>1, WIsPositive
  <2>3. pos \div W \in 0 .. DspAt(p) - 1
    BY <1>1, <2>1, <2>2, WordOf
  <2>4. ~(pos \div W >= SramAt(p)) /\ ~(pos \div W >= CopyAt(p)) /\ ~(pos \div W >= DspAt(p))
    BY <1>1, <1>2, <2>3
  <2>5. QED
    BY <2>1, <2>4 DEF Computed, W
<1>5. ASSUME NEW c \in 1 .. Copies(part),
             pos = CopyBit(part, c), <<p, CopyLaneBit(part, c)>> \in DOMAIN lanes,
             lanes[<<p, CopyLaneBit(part, c)>>] = Query(part, <<act.pin, 0>>)
      PROVE  pos \in Nat /\ Computed(p, pos) = <<"pin", act.pin, 0>>
  <2>1. CopyAt(p) * W <= pos /\ pos < SramAt(p) * W /\ pos \in Int
    <3>1. SramAt(p) * W = CopyAt(p) * W + CopyWords(part) * W /\ CopyAt(p) * W \in Nat
      <4>1. CopyAt(p) \in Int /\ CopyWords(part) \in Int
        BY <1>1, <1>2
      <4>2. QED
        BY <1>1, <4>1, PlusWords, WordsAreBits, Zenon
    <3>2. CopyWords(part) * W \in Nat
      BY <1>2, WordsAreBits
    <3>3. pos = SramAt(p) * W - c
      BY <1>1, <1>5 DEF CopyBit, SramsAt, CopiesAt, DspWords
    <3>4. QED
      BY <1>2, <3>1, <3>2, <3>3
  <2>2. pos \div W \in CopyAt(p) .. SramAt(p) - 1
    BY <1>1, <2>1, WordOf
  <2>3. pos \in Nat
    BY <1>1, <2>1, WIsPositive
  <2>4. PICK w \in Nat, r \in Nat : w = pos \div W /\ r = pos % W /\ pos = w * W + r
    BY <2>3, DivMod
  <2>5. LaneOfCopy(p, w) * W + r = CopyLaneBit(part, c)
    <3>1. LaneOfCopy(p, w) = 4 * Srams(part) + 4 * Dsps(part) + w - CopyAt(p)
      BY DEF LaneOfCopy
    <3>2. CopyLaneBit(part, c) = (4 * Srams(part) + 4 * Dsps(part) + CopyWords(part)) * W - c
      BY DEF LaneEnd, CopyLaneBit
    <3>3. w * W + r = (CopyAt(p) + CopyWords(part)) * W - c
      BY <1>1, <1>5, <2>4 DEF CopyBit, SramsAt, CopiesAt, DspWords
    <3>4. PICK a \in Nat : a = 4 * Srams(part) + 4 * Dsps(part)
      BY <1>2
    <3>5. (a + w - CopyAt(p)) * W + r = (a + CopyWords(part)) * W - c
      <4>1. /\ (a + (w - CopyAt(p))) * W = a * W + (w - CopyAt(p)) * W
            /\ (w - CopyAt(p)) * W = w * W - CopyAt(p) * W
            /\ a * W \in Int /\ w * W \in Int /\ CopyAt(p) * W \in Int
        <5>1. a \in Int /\ w \in Int /\ w - CopyAt(p) \in Int /\ CopyAt(p) \in Int
          BY <1>1, <2>4, <3>4
        <5>2. (w - CopyAt(p)) * W = w * W - CopyAt(p) * W
          BY <5>1, MinusWords, Zenon
        <5>3. (a + (w - CopyAt(p))) * W = a * W + (w - CopyAt(p)) * W
          BY <5>1, PlusWords, Zenon
        <5>4. QED
          BY <5>1, <5>2, <5>3, WordsAreBits, Zenon
      <4>2. /\ (a + CopyWords(part)) * W = a * W + CopyWords(part) * W
            /\ (CopyAt(p) + CopyWords(part)) * W = CopyAt(p) * W + CopyWords(part) * W
            /\ CopyWords(part) * W \in Int
        <5>1. a \in Int /\ CopyWords(part) \in Int /\ CopyAt(p) \in Int
          BY <1>1, <1>2, <3>4
        <5>2. QED
          BY <5>1, PlusWords, WordsAreBits, Zenon
      <4>3. QED
        BY <1>5, <2>4, <3>3, <4>1, <4>2
    <3>6. QED
      BY <1>1, <1>2, <3>1, <3>2, <3>4, <3>5
  <2>6. Computed(p, pos) = Gathered(p, LaneOfCopy(p, w) * W + r)
    <3>1. ~(w >= SramAt(p)) /\ w >= CopyAt(p)
      BY <1>1, <2>2, <2>4
    <3>2. pos \div WordBits = w /\ pos % WordBits = r
      BY <2>4 DEF W
    <3>3. QED
      BY <3>1, <3>2, Zenon DEF Computed, W
  <2>7. Gathered(p, CopyLaneBit(part, c)) = Literal(p, Query(part, <<act.pin, 0>>))
    BY <1>5 DEF Gathered
  <2>8. <<act.pin, 0>> \in Literals(part)
    BY <1>3 DEF Literals
  <2>9. Literal(p, Query(part, <<act.pin, 0>>)) = <<"pin", act.pin, 0>>
    BY <2>8, ReadsLiteral DEF AsLiteral
  <2>10. QED
    BY <2>3, <2>5, <2>6, <2>7, <2>9
<1>6. QED
  BY <1>4, <1>5 DEF At

\* The partition commits it there, in its polarity and under its enable.
LEMMA CommitsAt ==
  ASSUME design \in Designs, NEW p \in DOMAIN design.parts, NEW pos, NEW first \in Nat,
         start[p] = first,
         NEW act \in ActType(design.parts[p]), act.pin # 0, At(p, pos, act)
  PROVE  Commits(p, first * W + pos) =
           [value |-> <<"pin", act.pin, act.inv>>, gate |-> AsLiteral(act.en)]
<1> DEFINE en == enables[<<p, pos>>]
<1>1. pos \in Nat /\ Computed(p, pos) = <<"pin", act.pin, 0>>
  BY ComputedAt
<1>2. (first * W + pos) - start[p] * WordBits = pos
  BY <1>1, WIsPositive
<1>3. <<p, pos>> \in DOMAIN enables /\ en = [gate |-> Query(design.parts[p], act.en), inv |-> act.inv]
  BY DEF At
<1>4. Commits(p, first * W + pos) =
        [value |-> <<Computed(p, pos)[1], Computed(p, pos)[2], (Computed(p, pos)[3] + en.inv) % 2>>,
         gate |-> Literal(p, en.gate)]
  <2> HIDE DEF en
  <2>1. enables[<<p, pos>>] = en
    BY DEF en
  <2>2. QED
    BY <1>2, <1>3, <2>1, Zenon DEF Commits
<1>5. act.inv \in {0, 1} /\ act.en \in Literals(design.parts[p])
  BY DEF ActType
<1>6. Literal(p, en.gate) = AsLiteral(act.en)
  BY <1>3, <1>5, ReadsLiteral
<1>7. (0 + en.inv) % 2 = act.inv
  BY <1>3, <1>5
<1>8. QED
  <2> HIDE DEF en
  <2> QED BY <1>1, <1>4, <1>6, <1>7

-----------------------------------------------------------------------------
(* The zones of a partition do not meet.                                    *)

LEMMA MoreWords == \A a, b \in Nat : a <= b => a * W <= b * W
  BY WIsPositive

LEMMA FewerWords == \A a, b \in Nat : a < b => a * W < b * W
  BY WIsPositive

LEMMA Zones ==
  ASSUME NEW part, GoodPart(part)
  PROVE  \E b0, b1, b2, b3 \in Nat :
           /\ b0 <= b1 /\ b1 <= b2 /\ b2 <= b3 /\ b3 = Words(part) * W
           /\ \A pin \in Range(part.outs) : Written(part, pin) \in 0 .. b0 - 1
           /\ \A n \in 0 .. Dsps(part) - 1 : DspBit(part, n) \in b0 .. b1 - 1
           /\ \A c \in 1 .. Copies(part) : CopyBit(part, c) \in b1 .. b2 - 1
           /\ \A n \in 0 .. Srams(part) - 1 : SramBit(part, n) \in b2 .. b3 - 1
           /\ \A m, n \in 0 .. Dsps(part) - 1 : m # n => DspBit(part, m) # DspBit(part, n)
           /\ \A m, n \in 0 .. Srams(part) - 1 : m # n => SramBit(part, m) # SramBit(part, n)
           /\ \A c, d \in 1 .. Copies(part) : c # d => CopyBit(part, c) # CopyBit(part, d)
<1>1. /\ NormalWords(part) \in Nat /\ NormalWords(part) * W = Len(part.outs)
      /\ CopyWords(part) \in Nat /\ Copies(part) \in Nat /\ Copies(part) <= CopyWords(part) * W
      /\ Srams(part) \in Nat /\ Dsps(part) \in Nat
      /\ Words(part) = NormalWords(part) + 2 * Dsps(part) + CopyWords(part) + Srams(part)
      /\ Words(part) \in Nat
  BY PartSizes
<1>2. PICK t \in Nat, s \in Nat : t = DspWords(part) /\ s = Srams(part)
  BY <1>1 DEF DspWords
<1>3. PICK d \in Nat, k \in Nat : d = Dsps(part) /\ k = CopyWords(part)
  BY <1>1
<1>4. CopiesAt(part) = t + 2 * d /\ SramsAt(part) = t + 2 * d + k
  BY <1>2, <1>3 DEF CopiesAt, SramsAt
<1>5. Words(part) = t + 2 * d + k + s
  BY <1>1, <1>2, <1>3 DEF DspWords
<1> DEFINE b0 == t * W
           b1 == (t + 2 * d) * W
           b2 == (t + 2 * d + k) * W
           b3 == (t + 2 * d + k + s) * W
<1>6. b0 \in Nat /\ b1 \in Nat /\ b2 \in Nat /\ b3 \in Nat
  <2>1. t \in Nat /\ t + 2 * d \in Nat /\ t + 2 * d + k \in Nat /\ t + 2 * d + k + s \in Nat
    OBVIOUS
  <2>2. QED
    BY <2>1, WordsAreBits, Zenon
<1>7. b0 <= b1 /\ b1 <= b2 /\ b2 <= b3
  <2>1. /\ t \in Nat /\ t + 2 * d \in Nat /\ t + 2 * d + k \in Nat /\ t + 2 * d + k + s \in Nat
        /\ t <= t + 2 * d /\ t + 2 * d <= t + 2 * d + k /\ t + 2 * d + k <= t + 2 * d + k + s
    OBVIOUS
  <2>2. QED
    BY <2>1, MoreWords, Zenon
<1>8. ASSUME NEW pin \in Range(part.outs) PROVE Written(part, pin) \in 0 .. b0 - 1
  <2>1. b0 = Len(part.outs)
    BY <1>1, <1>2 DEF DspWords
  <2>2. QED
    BY <2>1, WrittenHolds
<1>9. ASSUME NEW n \in 0 .. d - 1 PROVE DspBit(part, n) \in b0 .. b1 - 1
  <2>1. DspBit(part, n) = (t + 2 * n) * W
    BY <1>2 DEF DspBit
  <2>2. /\ t \in Nat /\ t + 2 * n \in Nat /\ t + 2 * d \in Nat
        /\ t <= t + 2 * n /\ t + 2 * n < t + 2 * d
    OBVIOUS
  <2>3. b0 <= (t + 2 * n) * W /\ (t + 2 * n) * W < b1 /\ (t + 2 * n) * W \in Nat
    BY <2>2, MoreWords, FewerWords, WordsAreBits, Zenon
  <2>4. QED
    <3> HIDE DEF b0, b1
    <3> QED BY <1>6, <2>1, <2>3
<1>10. ASSUME NEW c \in 1 .. Copies(part) PROVE CopyBit(part, c) \in b1 .. b2 - 1
  <2>1. CopyBit(part, c) = b2 - c
    BY <1>4 DEF CopyBit
  <2>2. c \in Nat /\ 1 <= c /\ c <= k * W
    <3>1. Copies(part) <= k * W
      BY <1>1, <1>3, Zenon
    <3>2. k * W \in Nat /\ Copies(part) \in Nat
      BY <1>1, WordsAreBits
    <3>3. QED
      BY <3>1, <3>2
  <2>3. b2 = b1 + k * W
    <3>1. t + 2 * d \in Int /\ k \in Int
      OBVIOUS
    <3>2. QED
      BY <3>1, PlusWords, Zenon
  <2>4. k * W \in Nat
    BY WordsAreBits
  <2>5. QED
    <3> HIDE DEF b1, b2
    <3> QED BY <1>6, <2>1, <2>2, <2>3, <2>4
<1>11. ASSUME NEW n \in 0 .. s - 1 PROVE SramBit(part, n) \in b2 .. b3 - 1
  <2>1. SramBit(part, n) = (t + 2 * d + k + n) * W
    BY <1>4 DEF SramBit
  <2>2. /\ t + 2 * d + k \in Nat /\ t + 2 * d + k + n \in Nat /\ t + 2 * d + k + s \in Nat
        /\ t + 2 * d + k <= t + 2 * d + k + n /\ t + 2 * d + k + n < t + 2 * d + k + s
    OBVIOUS
  <2>3. /\ b2 <= (t + 2 * d + k + n) * W /\ (t + 2 * d + k + n) * W < b3
        /\ (t + 2 * d + k + n) * W \in Nat
    BY <2>2, MoreWords, FewerWords, WordsAreBits, Zenon
  <2>4. QED
    <3> HIDE DEF b2, b3
    <3> QED BY <1>6, <2>1, <2>3
<1>12. ASSUME NEW m \in 0 .. d - 1, NEW n \in 0 .. d - 1, m < n PROVE DspBit(part, m) < DspBit(part, n)
  <2>1. t + 2 * m \in Nat /\ t + 2 * n \in Nat /\ t + 2 * m < t + 2 * n
    BY <1>12
  <2>2. (t + 2 * m) * W < (t + 2 * n) * W
    BY <2>1, FewerWords, Zenon
  <2>3. QED
    BY <1>2, <2>2 DEF DspBit
<1>13. ASSUME NEW m \in 0 .. s - 1, NEW n \in 0 .. s - 1, m < n PROVE SramBit(part, m) < SramBit(part, n)
  <2>1. t + 2 * d + k + m \in Nat /\ t + 2 * d + k + n \in Nat /\ t + 2 * d + k + m < t + 2 * d + k + n
    BY <1>13
  <2>2. (t + 2 * d + k + m) * W < (t + 2 * d + k + n) * W
    BY <2>1, FewerWords, Zenon
  <2>3. QED
    BY <1>4, <2>2 DEF SramBit
<1>14. ASSUME NEW m \in 0 .. d - 1, NEW n \in 0 .. d - 1, m # n PROVE DspBit(part, m) # DspBit(part, n)
  <2>1. m < n \/ n < m
    BY <1>14
  <2>2. DspBit(part, m) \in Int /\ DspBit(part, n) \in Int
    <3> HIDE DEF b0, b1
    <3> QED BY <1>6, <1>9
  <2>3. QED
    BY <1>12, <2>1, <2>2
<1>15. ASSUME NEW m \in 0 .. s - 1, NEW n \in 0 .. s - 1, m # n PROVE SramBit(part, m) # SramBit(part, n)
  <2>1. m < n \/ n < m
    BY <1>15
  <2>2. SramBit(part, m) \in Int /\ SramBit(part, n) \in Int
    <3> HIDE DEF b2, b3
    <3> QED BY <1>6, <1>11
  <2>3. QED
    BY <1>13, <2>1, <2>2
<1>16. ASSUME NEW c \in 1 .. Copies(part), NEW x \in 1 .. Copies(part), c # x PROVE CopyBit(part, c) # CopyBit(part, x)
  <2>1. CopyBit(part, c) = b2 - c /\ CopyBit(part, x) = b2 - x
    BY <1>4 DEF CopyBit
  <2>2. QED
    <3> HIDE DEF b2
    <3> QED BY <1>1, <1>6, <1>16, <2>1
<1>17. b3 = Words(part) * W
  BY <1>5
<1>18. QED
  <2> HIDE DEF b0, b1, b2, b3
  <2> QED BY <1>2, <1>3, <1>6, <1>7, <1>8, <1>9, <1>10, <1>11, <1>14, <1>15, <1>16, <1>17

LEMMA LaneZones ==
  ASSUME NEW part, GoodPart(part)
  PROVE  \E l1, l2, l3 \in Nat :
           /\ l1 <= l2 /\ l2 <= l3 /\ l3 = LaneEnd(part)
           /\ \A n \in 0 .. Srams(part) - 1 : SramLane(n) \in 0 .. l1 - 1
           /\ \A n \in 0 .. Dsps(part) - 1 : DspLane(part, n) \in l1 .. l2 - 1
           /\ \A c \in 1 .. Copies(part) : CopyLaneBit(part, c) \in l2 .. l3 - 1
           /\ \A m, n \in 0 .. Srams(part) - 1 : m # n => SramLane(m) # SramLane(n)
           /\ \A m, n \in 0 .. Dsps(part) - 1 : m # n => DspLane(part, m) # DspLane(part, n)
           /\ \A c, d \in 1 .. Copies(part) : c # d => CopyLaneBit(part, c) # CopyLaneBit(part, d)
<1>1. /\ CopyWords(part) \in Nat /\ Copies(part) \in Nat /\ Copies(part) <= CopyWords(part) * W
      /\ Srams(part) \in Nat /\ Dsps(part) \in Nat
  BY PartSizes
<1>2. PICK s \in Nat, d \in Nat, k \in Nat : s = Srams(part) /\ d = Dsps(part) /\ k = CopyWords(part)
  BY <1>1
<1> DEFINE l1 == (4 * s) * W
           l2 == (4 * s + 4 * d) * W
           l3 == (4 * s + 4 * d + k) * W
<1>3. /\ 4 * s \in Nat /\ 4 * s + 4 * d \in Nat /\ 4 * s + 4 * d + k \in Nat
      /\ 4 * s <= 4 * s + 4 * d /\ 4 * s + 4 * d <= 4 * s + 4 * d + k
  OBVIOUS
<1>4. l1 \in Nat /\ l2 \in Nat /\ l3 \in Nat
  BY <1>3, WordsAreBits, Zenon
<1>5. l1 <= l2 /\ l2 <= l3
  BY <1>3, MoreWords, Zenon
<1>6. l3 = LaneEnd(part)
  BY <1>2 DEF LaneEnd
<1>7. ASSUME NEW n \in 0 .. s - 1 PROVE SramLane(n) \in 0 .. l1 - 1
  <2>1. 4 * n \in Nat /\ 4 * s \in Nat /\ 4 * n < 4 * s
    OBVIOUS
  <2>2. (4 * n) * W \in Nat /\ (4 * n) * W < l1
    BY <2>1, WordsAreBits, FewerWords, Zenon
  <2>3. QED
    <3> HIDE DEF l1
    <3> QED BY <1>4, <2>2 DEF SramLane
<1>8. ASSUME NEW n \in 0 .. d - 1 PROVE DspLane(part, n) \in l1 .. l2 - 1
  <2>1. DspLane(part, n) = (4 * s + 4 * n) * W
    BY <1>2 DEF DspLane
  <2>2. 4 * s + 4 * n \in Nat /\ 4 * s <= 4 * s + 4 * n /\ 4 * s + 4 * n < 4 * s + 4 * d
    OBVIOUS
  <2>3. (4 * s + 4 * n) * W \in Nat /\ l1 <= (4 * s + 4 * n) * W /\ (4 * s + 4 * n) * W < l2
    BY <1>3, <2>2, MoreWords, FewerWords, WordsAreBits, Zenon
  <2>4. QED
    <3> HIDE DEF l1, l2
    <3> QED BY <1>4, <2>1, <2>3
<1>9. ASSUME NEW c \in 1 .. Copies(part) PROVE CopyLaneBit(part, c) \in l2 .. l3 - 1
  <2>1. CopyLaneBit(part, c) = l3 - c
    BY <1>6 DEF CopyLaneBit
  <2>2. c \in Nat /\ 1 <= c /\ c <= k * W
    <3>1. Copies(part) <= k * W
      BY <1>1, <1>2, Zenon
    <3>2. k * W \in Nat /\ Copies(part) \in Nat
      BY <1>1, WordsAreBits
    <3>3. QED
      BY <3>1, <3>2
  <2>3. l3 = l2 + k * W
    <3>1. 4 * s + 4 * d \in Int /\ k \in Int
      OBVIOUS
    <3>2. QED
      BY <3>1, PlusWords, Zenon
  <2>4. k * W \in Nat
    BY WordsAreBits
  <2>5. QED
    <3> HIDE DEF l2, l3
    <3> QED BY <1>4, <2>1, <2>2, <2>3, <2>4
<1>10. ASSUME NEW m \in 0 .. s - 1, NEW n \in 0 .. s - 1, m < n PROVE SramLane(m) # SramLane(n)
  <2>1. 4 * m \in Nat /\ 4 * n \in Nat /\ 4 * m < 4 * n
    BY <1>10
  <2>2. (4 * m) * W < (4 * n) * W /\ (4 * m) * W \in Nat /\ (4 * n) * W \in Nat
    BY <2>1, FewerWords, WordsAreBits, Zenon
  <2>3. QED
    BY <2>2 DEF SramLane
<1>11. ASSUME NEW m \in 0 .. d - 1, NEW n \in 0 .. d - 1, m < n PROVE DspLane(part, m) # DspLane(part, n)
  <2>1. 4 * s + 4 * m \in Nat /\ 4 * s + 4 * n \in Nat /\ 4 * s + 4 * m < 4 * s + 4 * n
    BY <1>11
  <2>2. /\ (4 * s + 4 * m) * W < (4 * s + 4 * n) * W
        /\ (4 * s + 4 * m) * W \in Nat /\ (4 * s + 4 * n) * W \in Nat
    BY <2>1, FewerWords, WordsAreBits, Zenon
  <2>3. QED
    BY <1>2, <2>2 DEF DspLane
<1>12. ASSUME NEW c \in 1 .. Copies(part), NEW x \in 1 .. Copies(part), c # x PROVE CopyLaneBit(part, c) # CopyLaneBit(part, x)
  <2>1. CopyLaneBit(part, c) = l3 - c /\ CopyLaneBit(part, x) = l3 - x
    BY <1>6 DEF CopyLaneBit
  <2>2. QED
    <3> HIDE DEF l3
    <3> QED BY <1>1, <1>4, <1>12, <2>1
<1>13. QED
  <2> HIDE DEF l1, l2, l3
  <2>1. \A m, n \in 0 .. s - 1 : m # n => m < n \/ n < m
    OBVIOUS
  <2>2. \A m, n \in 0 .. d - 1 : m # n => m < n \/ n < m
    OBVIOUS
  <2>3. \A m, n \in 0 .. s - 1 : m # n => SramLane(m) # SramLane(n)
    BY <1>10, <2>1
  <2>4. \A m, n \in 0 .. d - 1 : m # n => DspLane(part, m) # DspLane(part, n)
    BY <1>11, <2>2
  <2>5. QED
    BY <1>2, <1>4, <1>5, <1>6, <1>7, <1>8, <1>9, <1>12, <2>3, <2>4

-----------------------------------------------------------------------------
(* The inductive invariant: what is filled of the partition being laid out, *)
(* and where everything placed so far has gone.                             *)

Shape ==
  /\ pc \in {"arrange", "place", "offsets", "done", "panic"}
  /\ design \in Designs /\ i \in DOMAIN design.parts /\ e \in 0 .. Len(Part.ends)
  /\ copies \in 0 .. Copies(Part) /\ sram \in 0 .. Srams(Part) /\ dsp \in 0 .. Dsps(Part)
  /\ pc \in {"offsets", "done"} => i = Len(design.parts) /\ e = Len(Part.ends)

\* The endpoints of a kind among the first n of a partition.
UpTo(part, kind, n) == {k \in Of(part, {kind}) : k <= n}

Counted ==
  pc = "place" =>
    /\ sram = Cardinality(UpTo(Part, "ram", e)) /\ dsp = Cardinality(UpTo(Part, "dsp", e))
    /\ copies = Cardinality({a \in DOMAIN placed : ~IsFirst(Part, a)})

\* Keys are positions of partitions that have been begun.
Keys ==
  /\ \A k \in DOMAIN enables :
       \E p \in 1 .. i : \E pos \in 0 .. Words(design.parts[p]) * W - 1 : k = <<p, pos>>
  /\ \A k \in DOMAIN lanes :
       \E p \in 1 .. i : \E pos \in 0 .. LaneEnd(design.parts[p]) - 1 : k = <<p, pos>>

EnableUsed(pos) ==
  \/ \E a \in DOMAIN placed : IsFirst(Part, a) /\ pos = Written(Part, a.pin)
  \/ \E n \in 0 .. dsp - 1 : pos = DspBit(Part, n)
  \/ \E c \in 1 .. copies : pos = CopyBit(Part, c)
  \/ \E n \in 0 .. sram - 1 : pos = SramBit(Part, n)

LaneUsed(pos) ==
  \/ \E n \in 0 .. sram - 1 : pos = SramLane(n)
  \/ \E n \in 0 .. dsp - 1 : pos = DspLane(Part, n)
  \/ \E c \in 1 .. copies : pos = CopyLaneBit(Part, c)

\* The current partition has filled only what its counters say.
Filled ==
  pc = "place" =>
    /\ \A k \in DOMAIN enables : k[1] = i => EnableUsed(k[2])
    /\ \A k \in DOMAIN lanes : k[1] = i => LaneUsed(k[2])

\* The activations placed in the current partition are where placed says.
ActsPlaced ==
  pc = "place" =>
    \A a \in DOMAIN placed : a \in Activations(Part) /\ a.pin # 0 /\ At(i, placed[a], a)

Queries(part) == {Query(part, iv) : iv \in Literals(part)}

\* Whatever is fetched was looked up.
Fetched ==
  /\ \A k \in DOMAIN enables : enables[k].gate \in Queries(design.parts[k[1]])
  /\ \A k \in DOMAIN lanes : lanes[k] \in Queries(design.parts[k[1]])

Begun == pc = "arrange" => i = 1 /\ e = 0 /\ placed = <<>> /\ copies = 0 /\ sram = 0 /\ dsp = 0
                            /\ enables = <<>> /\ lanes = <<>>

Laid == Shape /\ Begun /\ Counted /\ Keys /\ Filled /\ ActsPlaced /\ Fetched

LEMMA PutAdds ==
  ASSUME NEW f, NEW key, NEW value
  PROVE  /\ DOMAIN Put(f, key, value) = DOMAIN f \cup {key}
         /\ Put(f, key, value)[key] = value
         /\ \A k \in DOMAIN f : k # key => Put(f, key, value)[k] = f[k]
  BY DEF Put

LEMMA PutDomain == \A f, key, value : DOMAIN Put(f, key, value) = DOMAIN f \cup {key}
  BY PutAdds

LEMMA PutAt == \A f, key, value : Put(f, key, value)[key] = value /\ key \in DOMAIN Put(f, key, value)
  BY DEF Put

LEMMA ModelAddresses ==
  ASSUME Shape
  PROVE  /\ CopyPos = CopyBit(Part, copies + 1) /\ CopyLane = CopyLaneBit(Part, copies + 1)
         /\ SramWord * WordBits = SramBit(Part, sram) /\ DspWord * WordBits = DspBit(Part, dsp)
         /\ 4 * sram * WordBits = SramLane(sram)
         /\ (4 * Srams(Part) + 4 * dsp) * WordBits = DspLane(Part, dsp)
         /\ GoodPart(Part)
<1>1. GoodPart(Part)
  BY PartsAreGood DEF Shape, Part
<1>2. /\ NormalWords(Part) \in Nat /\ CopyWords(Part) \in Nat
      /\ Srams(Part) \in Nat /\ Dsps(Part) \in Nat
      /\ Words(Part) = NormalWords(Part) + 2 * Dsps(Part) + CopyWords(Part) + Srams(Part)
  BY <1>1, PartSizes
<1>3. copies \in Nat /\ sram \in Nat /\ dsp \in Nat
  BY <1>1, PartSizes DEF Shape
<1>4. Words(Part) - Srams(Part) = SramsAt(Part)
  BY <1>2 DEF SramsAt, CopiesAt, DspWords
<1>5. SramWord = SramsAt(Part) + sram
  BY <1>2, <1>3 DEF SramWord, SramsAt, CopiesAt, DspWords
<1>6. DspWord = DspWords(Part) + 2 * dsp
  BY <1>2, <1>3 DEF DspWord, DspWords
<1>7. QED
  BY <1>1, <1>4, <1>5, <1>6 DEF CopyPos, CopyBit, CopyLane, CopyLaneBit, LaneEnd, SramBit, DspBit, SramLane, DspLane, W

LEMMA UpToCounts ==
  ASSUME NEW p, GoodPart(p), NEW kind, NEW n \in 0 .. Len(p.ends)
  PROVE  /\ IsFiniteSet(UpTo(p, kind, n)) /\ Cardinality(UpTo(p, kind, n)) \in Nat
         /\ Cardinality(UpTo(p, kind, n)) <= Cardinality(Of(p, {kind}))
         /\ n < Len(p.ends) =>
              IF p.ends[n + 1].kind = kind
              THEN /\ Cardinality(UpTo(p, kind, n + 1)) = Cardinality(UpTo(p, kind, n)) + 1
                   /\ Cardinality(UpTo(p, kind, n)) < Cardinality(Of(p, {kind}))
              ELSE UpTo(p, kind, n + 1) = UpTo(p, kind, n)
<1>1. Len(p.ends) \in Nat /\ DOMAIN p.ends = 1 .. Len(p.ends) /\ Of(p, {kind}) \subseteq DOMAIN p.ends
  BY DEF GoodPart, Of
<1>2. IsFiniteSet(Of(p, {kind})) /\ Cardinality(Of(p, {kind})) \in Nat
  BY EndsAreFinite
<1>3. \A m \in Nat : UpTo(p, kind, m) \subseteq Of(p, {kind})
  BY DEF UpTo
<1>4. \A m \in Nat : /\ IsFiniteSet(UpTo(p, kind, m)) /\ Cardinality(UpTo(p, kind, m)) \in Nat
                     /\ Cardinality(UpTo(p, kind, m)) <= Cardinality(Of(p, {kind}))
  BY <1>2, <1>3, FS_Subset, FS_CardinalityType
<1>5. ASSUME n < Len(p.ends), p.ends[n + 1].kind = kind
      PROVE  /\ Cardinality(UpTo(p, kind, n + 1)) = Cardinality(UpTo(p, kind, n)) + 1
             /\ Cardinality(UpTo(p, kind, n)) < Cardinality(Of(p, {kind}))
  <2>1. n + 1 \in Of(p, {kind}) /\ n + 1 \in Nat /\ n \in Nat
    BY <1>1, <1>5 DEF Of
  <2>2. UpTo(p, kind, n + 1) = UpTo(p, kind, n) \cup {n + 1}
    <3>1. \A k \in Of(p, {kind}) : k \in Nat /\ (k <= n + 1 <=> k <= n \/ k = n + 1)
      BY <1>1, <2>1
    <3>2. QED
      BY <2>1, <3>1 DEF UpTo
  <2>3. n + 1 \notin UpTo(p, kind, n)
    BY <2>1 DEF UpTo
  <2>4. Cardinality(UpTo(p, kind, n + 1)) = Cardinality(UpTo(p, kind, n)) + 1
    BY <1>4, <2>1, <2>2, <2>3, FS_AddElement
  <2>5. Cardinality(UpTo(p, kind, n + 1)) <= Cardinality(Of(p, {kind})) /\ Cardinality(UpTo(p, kind, n)) \in Nat
    BY <1>4, <2>1
  <2>6. QED
    BY <1>2, <2>4, <2>5
<1>6. ASSUME n < Len(p.ends), p.ends[n + 1].kind # kind
      PROVE  UpTo(p, kind, n + 1) = UpTo(p, kind, n)
  <2>1. \A k \in Of(p, {kind}) : k \in Nat /\ k # n + 1
    BY <1>1, <1>6 DEF Of
  <2>2. \A k \in Of(p, {kind}) : k <= n + 1 <=> k <= n
    BY <2>1
  <2>3. QED
    BY <2>2 DEF UpTo
<1>7. n \in Nat
  OBVIOUS
<1>8. QED
  BY <1>4, <1>5, <1>6, <1>7

\* The activations placed so far that take a copy.
Copied == {a \in DOMAIN placed : ~IsFirst(Part, a)}

\* There is a copy for every activation that is not the first of its pin.
LEMMA RoomForCopy ==
  ASSUME Laid, pc = "place", NEW act \in Activations(Part), act \notin DOMAIN placed
  PROVE  /\ IsFiniteSet(Copied)
         /\ copies = Cardinality(Copied)
         /\ ~IsFirst(Part, act) => copies < Copies(Part) /\ Cardinality(Copied \cup {act}) = copies + 1
<1>1. GoodPart(Part)
  BY ModelAddresses DEF Laid
<1>2. Copies(Part) = Cardinality(Duplicates(Part)) /\ Copies(Part) \in Nat /\ IsFiniteSet(Duplicates(Part))
  BY <1>1, CopiesCounted
<1>3. Copied \subseteq Duplicates(Part)
  BY DEF Laid, ActsPlaced, Copied, Duplicates
<1>4. IsFiniteSet(Copied) /\ Cardinality(Copied) \in Nat
  BY <1>2, <1>3, FS_Subset, FS_CardinalityType
<1>5. copies = Cardinality(Copied)
  BY DEF Laid, Counted, Copied
<1>6. ASSUME ~IsFirst(Part, act) PROVE copies < Copies(Part) /\ Cardinality(Copied \cup {act}) = copies + 1
  <2>1. act \notin Copied
    BY DEF Copied
  <2>2. Cardinality(Copied \cup {act}) = copies + 1
    BY <1>4, <1>5, <2>1, FS_AddElement
  <2>3. Copied \cup {act} \subseteq Duplicates(Part)
    BY <1>3, <1>6 DEF Duplicates
  <2>4. copies + 1 <= Copies(Part)
    BY <1>2, <2>2, <2>3, FS_Subset
  <2>5. QED
    BY <1>2, <1>4, <1>5, <2>2, <2>4
<1>7. QED
  BY <1>4, <1>5, <1>6

LEMMA PlacedPins ==
  ASSUME Laid, pc = "place", NEW a \in DOMAIN placed
  PROVE  a \in Activations(Part) /\ a \in ActType(Part) /\ a.pin # 0 /\ a.pin \in Range(Part.outs)
<1>1. a \in Activations(Part) /\ a.pin # 0
  BY DEF Laid, ActsPlaced
<1>2. a \in ActType(Part)
  BY <1>1, ActivationsAreFinite, ModelAddresses DEF Laid
<1>3. QED
  BY <1>1, <1>2 DEF ActType

\* What is filled next is free.
LEMMA FreshFirst ==
  ASSUME Laid, pc = "place", NEW act \in Activations(Part), act.pin # 0, act \notin DOMAIN placed,
         IsFirst(Part, act)
  PROVE  ~EnableUsed(Written(Part, act.pin))
<1>1. GoodPart(Part)
  BY ModelAddresses DEF Laid
<1>2. act \in ActType(Part) /\ act.pin \in Range(Part.outs)
  BY <1>1, ActivationsAreFinite DEF ActType
<1>3. \A a \in DOMAIN placed : IsFirst(Part, a) => Written(Part, act.pin) # Written(Part, a.pin)
  BY <1>1, <1>2, PlacedPins, FirstIsOne, WrittenApart
<1>4. PICK b0, b1, b2, b3 \in Nat :
        /\ b0 <= b1 /\ b1 <= b2 /\ b2 <= b3
        /\ Written(Part, act.pin) \in 0 .. b0 - 1
        /\ \A n \in 0 .. Dsps(Part) - 1 : DspBit(Part, n) \in b0 .. b1 - 1
        /\ \A c \in 1 .. Copies(Part) : CopyBit(Part, c) \in b1 .. b2 - 1
        /\ \A n \in 0 .. Srams(Part) - 1 : SramBit(Part, n) \in b2 .. b3 - 1
  BY <1>1, <1>2, Zones
<1>5. /\ copies \in 0 .. Copies(Part) /\ sram \in 0 .. Srams(Part) /\ dsp \in 0 .. Dsps(Part)
      /\ Copies(Part) \in Nat /\ Srams(Part) \in Nat /\ Dsps(Part) \in Nat
  BY <1>1, PartSizes DEF Laid, Shape
<1>6. QED
  BY <1>3, <1>4, <1>5 DEF EnableUsed

LEMMA FreshCopy ==
  ASSUME Laid, pc = "place", copies < Copies(Part)
  PROVE  ~EnableUsed(CopyBit(Part, copies + 1)) /\ ~LaneUsed(CopyLaneBit(Part, copies + 1))
<1>1. GoodPart(Part)
  BY ModelAddresses DEF Laid
<1>2. /\ copies \in 0 .. Copies(Part) /\ sram \in 0 .. Srams(Part) /\ dsp \in 0 .. Dsps(Part)
      /\ Copies(Part) \in Nat /\ Srams(Part) \in Nat /\ Dsps(Part) \in Nat
  BY <1>1, PartSizes DEF Laid, Shape
<1>3. copies + 1 \in 1 .. Copies(Part) /\ \A c \in 1 .. copies : c \in 1 .. Copies(Part) /\ c # copies + 1
  BY <1>2
<1>4. PICK b0, b1, b2, b3 \in Nat :
        /\ b0 <= b1 /\ b1 <= b2 /\ b2 <= b3
        /\ \A pin \in Range(Part.outs) : Written(Part, pin) \in 0 .. b0 - 1
        /\ \A n \in 0 .. Dsps(Part) - 1 : DspBit(Part, n) \in b0 .. b1 - 1
        /\ \A c \in 1 .. Copies(Part) : CopyBit(Part, c) \in b1 .. b2 - 1
        /\ \A n \in 0 .. Srams(Part) - 1 : SramBit(Part, n) \in b2 .. b3 - 1
        /\ \A c, d \in 1 .. Copies(Part) : c # d => CopyBit(Part, c) # CopyBit(Part, d)
  BY <1>1, Zones
<1>5. ~EnableUsed(CopyBit(Part, copies + 1))
  <2>1. CopyBit(Part, copies + 1) \in b1 .. b2 - 1
    BY <1>3, <1>4
  <2>2. \A a \in DOMAIN placed : Written(Part, a.pin) # CopyBit(Part, copies + 1)
    BY <1>4, <2>1, PlacedPins
  <2>3. \A n \in 0 .. dsp - 1 : DspBit(Part, n) # CopyBit(Part, copies + 1)
    BY <1>2, <1>4, <2>1
  <2>4. \A n \in 0 .. sram - 1 : SramBit(Part, n) # CopyBit(Part, copies + 1)
    BY <1>2, <1>4, <2>1
  <2>5. \A c \in 1 .. copies : CopyBit(Part, c) # CopyBit(Part, copies + 1)
    BY <1>3, <1>4
  <2>6. QED
    BY <2>2, <2>3, <2>4, <2>5 DEF EnableUsed
<1>6. PICK l1, l2, l3 \in Nat :
        /\ l1 <= l2 /\ l2 <= l3
        /\ \A n \in 0 .. Srams(Part) - 1 : SramLane(n) \in 0 .. l1 - 1
        /\ \A n \in 0 .. Dsps(Part) - 1 : DspLane(Part, n) \in l1 .. l2 - 1
        /\ \A c \in 1 .. Copies(Part) : CopyLaneBit(Part, c) \in l2 .. l3 - 1
        /\ \A c, d \in 1 .. Copies(Part) : c # d => CopyLaneBit(Part, c) # CopyLaneBit(Part, d)
  BY <1>1, LaneZones
<1>7. ~LaneUsed(CopyLaneBit(Part, copies + 1))
  <2>1. CopyLaneBit(Part, copies + 1) \in l2 .. l3 - 1
    BY <1>3, <1>6
  <2>2. \A n \in 0 .. sram - 1 : SramLane(n) # CopyLaneBit(Part, copies + 1)
    BY <1>2, <1>6, <2>1
  <2>3. \A n \in 0 .. dsp - 1 : DspLane(Part, n) # CopyLaneBit(Part, copies + 1)
    BY <1>2, <1>6, <2>1
  <2>4. \A c \in 1 .. copies : CopyLaneBit(Part, c) # CopyLaneBit(Part, copies + 1)
    BY <1>3, <1>6
  <2>5. QED
    BY <2>2, <2>3, <2>4 DEF LaneUsed
<1>8. QED
  BY <1>5, <1>7

LEMMA FreshSram ==
  ASSUME Laid, pc = "place", sram < Srams(Part)
  PROVE  ~EnableUsed(SramBit(Part, sram)) /\ ~LaneUsed(SramLane(sram))
<1>1. GoodPart(Part)
  BY ModelAddresses DEF Laid
<1>2. /\ copies \in 0 .. Copies(Part) /\ sram \in 0 .. Srams(Part) /\ dsp \in 0 .. Dsps(Part)
      /\ Copies(Part) \in Nat /\ Srams(Part) \in Nat /\ Dsps(Part) \in Nat
  BY <1>1, PartSizes DEF Laid, Shape
<1>3. sram \in 0 .. Srams(Part) - 1 /\ \A n \in 0 .. sram - 1 : n \in 0 .. Srams(Part) - 1 /\ n # sram
  BY <1>2
<1>4. PICK b0, b1, b2, b3 \in Nat :
        /\ b0 <= b1 /\ b1 <= b2 /\ b2 <= b3
        /\ \A pin \in Range(Part.outs) : Written(Part, pin) \in 0 .. b0 - 1
        /\ \A n \in 0 .. Dsps(Part) - 1 : DspBit(Part, n) \in b0 .. b1 - 1
        /\ \A c \in 1 .. Copies(Part) : CopyBit(Part, c) \in b1 .. b2 - 1
        /\ \A n \in 0 .. Srams(Part) - 1 : SramBit(Part, n) \in b2 .. b3 - 1
        /\ \A m, n \in 0 .. Srams(Part) - 1 : m # n => SramBit(Part, m) # SramBit(Part, n)
  BY <1>1, Zones
<1>5. ~EnableUsed(SramBit(Part, sram))
  <2>1. SramBit(Part, sram) \in b2 .. b3 - 1
    BY <1>3, <1>4
  <2>2. \A a \in DOMAIN placed : Written(Part, a.pin) # SramBit(Part, sram)
    BY <1>4, <2>1, PlacedPins
  <2>3. \A n \in 0 .. dsp - 1 : DspBit(Part, n) # SramBit(Part, sram)
    BY <1>2, <1>4, <2>1
  <2>4. \A c \in 1 .. copies : CopyBit(Part, c) # SramBit(Part, sram)
    BY <1>2, <1>4, <2>1
  <2>5. \A n \in 0 .. sram - 1 : SramBit(Part, n) # SramBit(Part, sram)
    BY <1>3, <1>4
  <2>6. QED
    BY <2>2, <2>3, <2>4, <2>5 DEF EnableUsed
<1>6. PICK l1, l2, l3 \in Nat :
        /\ l1 <= l2 /\ l2 <= l3
        /\ \A n \in 0 .. Srams(Part) - 1 : SramLane(n) \in 0 .. l1 - 1
        /\ \A n \in 0 .. Dsps(Part) - 1 : DspLane(Part, n) \in l1 .. l2 - 1
        /\ \A c \in 1 .. Copies(Part) : CopyLaneBit(Part, c) \in l2 .. l3 - 1
        /\ \A m, n \in 0 .. Srams(Part) - 1 : m # n => SramLane(m) # SramLane(n)
  BY <1>1, LaneZones
<1>7. ~LaneUsed(SramLane(sram))
  <2>1. SramLane(sram) \in 0 .. l1 - 1
    BY <1>3, <1>6
  <2>2. \A n \in 0 .. dsp - 1 : DspLane(Part, n) # SramLane(sram)
    BY <1>2, <1>6, <2>1
  <2>3. \A c \in 1 .. copies : CopyLaneBit(Part, c) # SramLane(sram)
    BY <1>2, <1>6, <2>1
  <2>4. \A n \in 0 .. sram - 1 : SramLane(n) # SramLane(sram)
    BY <1>3, <1>6
  <2>5. QED
    BY <2>2, <2>3, <2>4 DEF LaneUsed
<1>8. QED
  BY <1>5, <1>7

LEMMA FreshDsp ==
  ASSUME Laid, pc = "place", dsp < Dsps(Part)
  PROVE  ~EnableUsed(DspBit(Part, dsp)) /\ ~LaneUsed(DspLane(Part, dsp))
<1>1. GoodPart(Part)
  BY ModelAddresses DEF Laid
<1>2. /\ copies \in 0 .. Copies(Part) /\ sram \in 0 .. Srams(Part) /\ dsp \in 0 .. Dsps(Part)
      /\ Copies(Part) \in Nat /\ Srams(Part) \in Nat /\ Dsps(Part) \in Nat
  BY <1>1, PartSizes DEF Laid, Shape
<1>3. dsp \in 0 .. Dsps(Part) - 1 /\ \A n \in 0 .. dsp - 1 : n \in 0 .. Dsps(Part) - 1 /\ n # dsp
  BY <1>2
<1>4. PICK b0, b1, b2, b3 \in Nat :
        /\ b0 <= b1 /\ b1 <= b2 /\ b2 <= b3
        /\ \A pin \in Range(Part.outs) : Written(Part, pin) \in 0 .. b0 - 1
        /\ \A n \in 0 .. Dsps(Part) - 1 : DspBit(Part, n) \in b0 .. b1 - 1
        /\ \A c \in 1 .. Copies(Part) : CopyBit(Part, c) \in b1 .. b2 - 1
        /\ \A n \in 0 .. Srams(Part) - 1 : SramBit(Part, n) \in b2 .. b3 - 1
        /\ \A m, n \in 0 .. Dsps(Part) - 1 : m # n => DspBit(Part, m) # DspBit(Part, n)
  BY <1>1, Zones
<1>5. ~EnableUsed(DspBit(Part, dsp))
  <2>1. DspBit(Part, dsp) \in b0 .. b1 - 1
    BY <1>3, <1>4
  <2>2. \A a \in DOMAIN placed : Written(Part, a.pin) # DspBit(Part, dsp)
    BY <1>4, <2>1, PlacedPins
  <2>3. \A n \in 0 .. sram - 1 : SramBit(Part, n) # DspBit(Part, dsp)
    BY <1>2, <1>4, <2>1
  <2>4. \A c \in 1 .. copies : CopyBit(Part, c) # DspBit(Part, dsp)
    BY <1>2, <1>4, <2>1
  <2>5. \A n \in 0 .. dsp - 1 : DspBit(Part, n) # DspBit(Part, dsp)
    BY <1>3, <1>4
  <2>6. QED
    BY <2>2, <2>3, <2>4, <2>5 DEF EnableUsed
<1>6. PICK l1, l2, l3 \in Nat :
        /\ l1 <= l2 /\ l2 <= l3
        /\ \A n \in 0 .. Srams(Part) - 1 : SramLane(n) \in 0 .. l1 - 1
        /\ \A n \in 0 .. Dsps(Part) - 1 : DspLane(Part, n) \in l1 .. l2 - 1
        /\ \A c \in 1 .. Copies(Part) : CopyLaneBit(Part, c) \in l2 .. l3 - 1
        /\ \A m, n \in 0 .. Dsps(Part) - 1 : m # n => DspLane(Part, m) # DspLane(Part, n)
  BY <1>1, LaneZones
<1>7. ~LaneUsed(DspLane(Part, dsp))
  <2>1. DspLane(Part, dsp) \in l1 .. l2 - 1
    BY <1>3, <1>6
  <2>2. \A n \in 0 .. sram - 1 : SramLane(n) # DspLane(Part, dsp)
    BY <1>2, <1>6, <2>1
  <2>3. \A c \in 1 .. copies : CopyLaneBit(Part, c) # DspLane(Part, dsp)
    BY <1>2, <1>6, <2>1
  <2>4. \A n \in 0 .. dsp - 1 : DspLane(Part, n) # DspLane(Part, dsp)
    BY <1>3, <1>6
  <2>5. QED
    BY <2>2, <2>3, <2>4 DEF LaneUsed
<1>8. QED
  BY <1>5, <1>7

-----------------------------------------------------------------------------
(* The invariant is kept.                                                   *)

Grows(f, g) == DOMAIN f \subseteq DOMAIN g /\ \A k \in DOMAIN f : g[k] = f[k]

LEMMA PutGrows ==
  ASSUME NEW f, NEW key, NEW value, key \notin DOMAIN f
  PROVE  Grows(f, Put(f, key, value))
<1>1. /\ DOMAIN Put(f, key, value) = DOMAIN f \cup {key}
      /\ \A k \in DOMAIN f : k # key => Put(f, key, value)[k] = f[k]
  BY PutAdds
<1>2. QED
  BY <1>1, Zenon DEF Grows

\* What holds an activation goes on holding it.
LEMMA AtStays ==
  ASSUME Grows(enables, enables'), Grows(lanes, lanes'), design' = design,
         NEW p, NEW pos, NEW act, At(p, pos, act)
  PROVE  At(p, pos, act)'
<1>1. <<p, pos>> \in DOMAIN enables' /\ enables'[<<p, pos>>] = enables[<<p, pos>>]
  BY DEF At, Grows
<1>2. \A k \in DOMAIN lanes : k \in DOMAIN lanes' /\ lanes'[k] = lanes[k]
  BY DEF Grows
<1>3. /\ enables'[<<p, pos>>] = [gate |-> Query(design'.parts[p], act.en), inv |-> act.inv]
      /\ \/ pos = Written(design'.parts[p], act.pin)
         \/ \E c \in 1 .. Copies(design'.parts[p]) :
              /\ pos = CopyBit(design'.parts[p], c)
              /\ <<p, CopyLaneBit(design'.parts[p], c)>> \in DOMAIN lanes'
              /\ lanes'[<<p, CopyLaneBit(design'.parts[p], c)>>] = Query(design'.parts[p], <<act.pin, 0>>)
  BY <1>1, <1>2, Zenon DEF At
<1>4. QED
  BY <1>1, <1>3, Zenon DEF At

\* Positions and lanes used are within the partition's.
LEMMA UsedIsInside ==
  ASSUME GoodPart(Part),
         NEW c \in 0 .. Copies(Part), NEW s \in 0 .. Srams(Part), NEW d \in 0 .. Dsps(Part)
  PROVE  /\ \A pin \in Range(Part.outs) : Written(Part, pin) \in 0 .. Words(Part) * W - 1
         /\ c > 0 => /\ CopyBit(Part, c) \in 0 .. Words(Part) * W - 1
                     /\ CopyLaneBit(Part, c) \in 0 .. LaneEnd(Part) - 1
         /\ s > 0 => /\ SramBit(Part, s - 1) \in 0 .. Words(Part) * W - 1
                     /\ SramLane(s - 1) \in 0 .. LaneEnd(Part) - 1
         /\ d > 0 => /\ DspBit(Part, d - 1) \in 0 .. Words(Part) * W - 1
                     /\ DspLane(Part, d - 1) \in 0 .. LaneEnd(Part) - 1
<1>1. Copies(Part) \in Nat /\ Srams(Part) \in Nat /\ Dsps(Part) \in Nat
  BY PartSizes
<1>2. /\ c > 0 => c \in 1 .. Copies(Part)
      /\ s > 0 => s - 1 \in 0 .. Srams(Part) - 1
      /\ d > 0 => d - 1 \in 0 .. Dsps(Part) - 1
  BY <1>1
<1>3. PICK b0, b1, b2, b3 \in Nat :
        /\ b0 <= b1 /\ b1 <= b2 /\ b2 <= b3 /\ b3 = Words(Part) * W
        /\ \A pin \in Range(Part.outs) : Written(Part, pin) \in 0 .. b0 - 1
        /\ \A n \in 0 .. Dsps(Part) - 1 : DspBit(Part, n) \in b0 .. b1 - 1
        /\ \A k \in 1 .. Copies(Part) : CopyBit(Part, k) \in b1 .. b2 - 1
        /\ \A n \in 0 .. Srams(Part) - 1 : SramBit(Part, n) \in b2 .. b3 - 1
  BY Zones
<1>4. PICK l1, l2, l3 \in Nat :
        /\ l1 <= l2 /\ l2 <= l3 /\ l3 = LaneEnd(Part)
        /\ \A n \in 0 .. Srams(Part) - 1 : SramLane(n) \in 0 .. l1 - 1
        /\ \A n \in 0 .. Dsps(Part) - 1 : DspLane(Part, n) \in l1 .. l2 - 1
        /\ \A k \in 1 .. Copies(Part) : CopyLaneBit(Part, k) \in l2 .. l3 - 1
  BY LaneZones
<1>5. \A n \in Int : n \in 0 .. b0 - 1 \/ n \in b0 .. b1 - 1 \/ n \in b1 .. b2 - 1 \/ n \in b2 .. b3 - 1 => n \in 0 .. b3 - 1
  BY <1>3
<1>6. \A n \in Int : n \in 0 .. l1 - 1 \/ n \in l1 .. l2 - 1 \/ n \in l2 .. l3 - 1 => n \in 0 .. l3 - 1
  BY <1>4
<1>7. /\ \A pin \in Range(Part.outs) : Written(Part, pin) \in 0 .. b3 - 1
      /\ c > 0 => CopyBit(Part, c) \in 0 .. b3 - 1
      /\ s > 0 => SramBit(Part, s - 1) \in 0 .. b3 - 1
      /\ d > 0 => DspBit(Part, d - 1) \in 0 .. b3 - 1
  BY <1>2, <1>3, <1>5
<1>8. /\ c > 0 => CopyLaneBit(Part, c) \in 0 .. l3 - 1
      /\ s > 0 => SramLane(s - 1) \in 0 .. l3 - 1
      /\ d > 0 => DspLane(Part, d - 1) \in 0 .. l3 - 1
  BY <1>2, <1>4, <1>6
<1>9. QED
  BY <1>3, <1>4, <1>7, <1>8

\* Counters only go up, and what is used stays used.
LEMMA UsedStays ==
  ASSUME Shape, Shape', design' = design, i' = i,
         copies <= copies', sram <= sram', dsp <= dsp', DOMAIN placed \subseteq DOMAIN placed',
         NEW pos
  PROVE  /\ EnableUsed(pos) => EnableUsed(pos)'
         /\ LaneUsed(pos) => LaneUsed(pos)'
<1>1. Part' = Part
  BY DEF Part
<1>2. /\ copies \in Int /\ sram \in Int /\ dsp \in Int
      /\ copies' \in Int /\ sram' \in Int /\ dsp' \in Int
  BY DEF Shape
<1>3. /\ \A n \in 0 .. dsp - 1 : n \in 0 .. dsp' - 1
      /\ \A n \in 0 .. sram - 1 : n \in 0 .. sram' - 1
      /\ \A c \in 1 .. copies : c \in 1 .. copies'
  <2>1. \A a, b \in Int : a <= b => 0 .. a - 1 \subseteq 0 .. b - 1 /\ 1 .. a \subseteq 1 .. b
    OBVIOUS
  <2>2. QED
    BY <1>2, <2>1, Zenon
<1>4. EnableUsed(pos) => EnableUsed(pos)'
  BY <1>1, <1>3, Zenon DEF EnableUsed
<1>5. LaneUsed(pos) => LaneUsed(pos)'
  BY <1>1, <1>3, Zenon DEF LaneUsed
<1>6. QED
  BY <1>4, <1>5

\* A bit of the partition being laid out that was free is filled with what was looked up.
Fills(pos, q) ==
  /\ enables' = Put(enables, <<i, pos>>, q)
  /\ pos \in 0 .. Words(Part) * W - 1
  /\ ~EnableUsed(pos) /\ EnableUsed(pos)'
  /\ q.gate \in Queries(Part)

Lanes(bit, q) ==
  /\ lanes' = Put(lanes, <<i, bit>>, q)
  /\ bit \in 0 .. LaneEnd(Part) - 1
  /\ ~LaneUsed(bit) /\ LaneUsed(bit)'
  /\ q \in Queries(Part)

LEMMA FillingKeeps ==
  ASSUME Laid, pc = "place", Shape', design' = design, i' = i, pc' = pc,
         copies <= copies', sram <= sram', dsp <= dsp', DOMAIN placed \subseteq DOMAIN placed',
         enables' = enables \/ \E pos, q : Fills(pos, q),
         lanes' = lanes \/ \E bit, q : Lanes(bit, q)
  PROVE  /\ Begun' /\ Keys' /\ Filled' /\ Fetched'
         /\ Grows(enables, enables') /\ Grows(lanes, lanes')
<1> USE DEF Laid
<1>1. Part' = Part /\ Part = design.parts[i]
  BY DEF Part
<1>2. i \in 1 .. i
  BY DesignAssumption DEF Shape
<1>3. \A pos : EnableUsed(pos) => EnableUsed(pos)'
  BY UsedStays
<1>4. \A pos : LaneUsed(pos) => LaneUsed(pos)'
  BY UsedStays
<1>5. Begun'
  BY DEF Begun
<1>6. ASSUME enables' = enables
      PROVE  /\ \A k \in DOMAIN enables' : \E p \in 1 .. i' : \E x \in 0 .. Words(design'.parts[p]) * W - 1 : k = <<p, x>>
             /\ \A k \in DOMAIN enables' : k[1] = i' => EnableUsed(k[2])'
             /\ \A k \in DOMAIN enables' : enables'[k].gate \in Queries(design'.parts[k[1]])
             /\ Grows(enables, enables')
  <2>1. \A k \in DOMAIN enables' : \E p \in 1 .. i' : \E pos \in 0 .. Words(design'.parts[p]) * W - 1 : k = <<p, pos>>
    BY <1>6, Zenon DEF Keys
  <2>2. \A k \in DOMAIN enables' : k[1] = i' => EnableUsed(k[2])'
    BY <1>3, <1>6, Zenon DEF Filled
  <2>3. \A k \in DOMAIN enables' : enables'[k].gate \in Queries(design'.parts[k[1]])
    BY <1>6, Zenon DEF Fetched
  <2>4. Grows(enables, enables')
    BY <1>6 DEF Grows
  <2>5. QED
    BY <2>1, <2>2, <2>3, <2>4
<1>7. ASSUME NEW pos, NEW q, Fills(pos, q)
      PROVE  /\ \A k \in DOMAIN enables' : \E p \in 1 .. i' : \E x \in 0 .. Words(design'.parts[p]) * W - 1 : k = <<p, x>>
             /\ \A k \in DOMAIN enables' : k[1] = i' => EnableUsed(k[2])'
             /\ \A k \in DOMAIN enables' : enables'[k].gate \in Queries(design'.parts[k[1]])
             /\ Grows(enables, enables')
  <2>1. <<i, pos>> \notin DOMAIN enables
    <3>1. <<i, pos>>[1] = i /\ <<i, pos>>[2] = pos
      OBVIOUS
    <3>2. QED
      BY <1>7, <3>1, Zenon DEF Filled, Fills
  <2>2. Grows(enables, enables')
    BY <1>7, <2>1, PutGrows DEF Fills
  <2>3. DOMAIN enables' = DOMAIN enables \cup {<<i, pos>>} /\ enables'[<<i, pos>>] = q
    <3>1. enables' = Put(enables, <<i, pos>>, q)
      BY <1>7 DEF Fills
    <3>2. /\ DOMAIN Put(enables, <<i, pos>>, q) = DOMAIN enables \cup {<<i, pos>>}
          /\ Put(enables, <<i, pos>>, q)[<<i, pos>>] = q
      BY DEF Put
    <3>3. QED
      BY <3>1, <3>2, Zenon
  <2>4. ASSUME NEW k \in DOMAIN enables'
        PROVE  /\ \E p \in 1 .. i' : \E x \in 0 .. Words(design'.parts[p]) * W - 1 : k = <<p, x>>
               /\ k[1] = i' => EnableUsed(k[2])'
               /\ enables'[k].gate \in Queries(design'.parts[k[1]])
    <3>1. CASE k = <<i, pos>>
      <4>1. k[1] = i /\ k[2] = pos
        BY <3>1
      <4>2. pos \in 0 .. Words(design.parts[i]) * W - 1 /\ EnableUsed(pos)' /\ enables'[k].gate \in Queries(design.parts[i])
        BY <1>1, <1>7, <2>3, <3>1, Zenon DEF Fills
      <4>3. QED
        BY <1>2, <3>1, <4>1, <4>2, Zenon
    <3>2. CASE k \in DOMAIN enables
      <4>1. \E p \in 1 .. i : \E x \in 0 .. Words(design.parts[p]) * W - 1 : k = <<p, x>>
        BY <3>2, Zenon DEF Keys
      <4>2. k[1] = i => EnableUsed(k[2])
        BY <3>2, Zenon DEF Filled
      <4>3. enables'[k] = enables[k] /\ enables[k].gate \in Queries(design.parts[k[1]])
        BY <2>2, <3>2, Zenon DEF Fetched, Grows
      <4>4. QED
        BY <1>3, <4>1, <4>2, <4>3, Zenon
    <3>3. QED
      BY <2>3, <3>1, <3>2
  <2>5. QED
    BY <2>2, <2>4
<1>8. ASSUME lanes' = lanes
      PROVE  /\ \A k \in DOMAIN lanes' : \E p \in 1 .. i' : \E x \in 0 .. LaneEnd(design'.parts[p]) - 1 : k = <<p, x>>
             /\ \A k \in DOMAIN lanes' : k[1] = i' => LaneUsed(k[2])'
             /\ \A k \in DOMAIN lanes' : lanes'[k] \in Queries(design'.parts[k[1]])
             /\ Grows(lanes, lanes')
  <2>1. \A k \in DOMAIN lanes' : \E p \in 1 .. i' : \E pos \in 0 .. LaneEnd(design'.parts[p]) - 1 : k = <<p, pos>>
    BY <1>8, Zenon DEF Keys
  <2>2. \A k \in DOMAIN lanes' : k[1] = i' => LaneUsed(k[2])'
    BY <1>4, <1>8, Zenon DEF Filled
  <2>3. \A k \in DOMAIN lanes' : lanes'[k] \in Queries(design'.parts[k[1]])
    BY <1>8, Zenon DEF Fetched
  <2>4. Grows(lanes, lanes')
    BY <1>8 DEF Grows
  <2>5. QED
    BY <2>1, <2>2, <2>3, <2>4
<1>9. ASSUME NEW bit, NEW q, Lanes(bit, q)
      PROVE  /\ \A k \in DOMAIN lanes' : \E p \in 1 .. i' : \E x \in 0 .. LaneEnd(design'.parts[p]) - 1 : k = <<p, x>>
             /\ \A k \in DOMAIN lanes' : k[1] = i' => LaneUsed(k[2])'
             /\ \A k \in DOMAIN lanes' : lanes'[k] \in Queries(design'.parts[k[1]])
             /\ Grows(lanes, lanes')
  <2>1. <<i, bit>> \notin DOMAIN lanes
    <3>1. <<i, bit>>[1] = i /\ <<i, bit>>[2] = bit
      OBVIOUS
    <3>2. QED
      BY <1>9, <3>1, Zenon DEF Filled, Lanes
  <2>2. Grows(lanes, lanes')
    BY <1>9, <2>1, PutGrows DEF Lanes
  <2>3. DOMAIN lanes' = DOMAIN lanes \cup {<<i, bit>>} /\ lanes'[<<i, bit>>] = q
    <3>1. lanes' = Put(lanes, <<i, bit>>, q)
      BY <1>9 DEF Lanes
    <3>2. /\ DOMAIN Put(lanes, <<i, bit>>, q) = DOMAIN lanes \cup {<<i, bit>>}
          /\ Put(lanes, <<i, bit>>, q)[<<i, bit>>] = q
      BY DEF Put
    <3>3. QED
      BY <3>1, <3>2, Zenon
  <2>4. ASSUME NEW k \in DOMAIN lanes'
        PROVE  /\ \E p \in 1 .. i' : \E x \in 0 .. LaneEnd(design'.parts[p]) - 1 : k = <<p, x>>
               /\ k[1] = i' => LaneUsed(k[2])'
               /\ lanes'[k] \in Queries(design'.parts[k[1]])
    <3>1. CASE k = <<i, bit>>
      <4>1. k[1] = i /\ k[2] = bit
        BY <3>1
      <4>2. bit \in 0 .. LaneEnd(design.parts[i]) - 1 /\ LaneUsed(bit)' /\ lanes'[k] \in Queries(design.parts[i])
        BY <1>1, <1>9, <2>3, <3>1, Zenon DEF Lanes
      <4>3. QED
        BY <1>2, <3>1, <4>1, <4>2, Zenon
    <3>2. CASE k \in DOMAIN lanes
      <4>1. \E p \in 1 .. i : \E x \in 0 .. LaneEnd(design.parts[p]) - 1 : k = <<p, x>>
        BY <3>2, Zenon DEF Keys
      <4>2. k[1] = i => LaneUsed(k[2])
        BY <3>2, Zenon DEF Filled
      <4>3. lanes'[k] = lanes[k] /\ lanes[k] \in Queries(design.parts[k[1]])
        BY <2>2, <3>2, Zenon DEF Fetched, Grows
      <4>4. QED
        BY <1>4, <4>1, <4>2, <4>3, Zenon
    <3>3. QED
      BY <2>3, <3>1, <3>2
  <2>5. QED
    BY <2>2, <2>4
<1>10. /\ \A k \in DOMAIN enables' : \E p \in 1 .. i' : \E x \in 0 .. Words(design'.parts[p]) * W - 1 : k = <<p, x>>
       /\ \A k \in DOMAIN enables' : k[1] = i' => EnableUsed(k[2])'
       /\ \A k \in DOMAIN enables' : enables'[k].gate \in Queries(design'.parts[k[1]])
       /\ Grows(enables, enables')
  BY <1>6, <1>7, Zenon
<1>11. /\ \A k \in DOMAIN lanes' : \E p \in 1 .. i' : \E x \in 0 .. LaneEnd(design'.parts[p]) - 1 : k = <<p, x>>
       /\ \A k \in DOMAIN lanes' : k[1] = i' => LaneUsed(k[2])'
       /\ \A k \in DOMAIN lanes' : lanes'[k] \in Queries(design'.parts[k[1]])
       /\ Grows(lanes, lanes')
  BY <1>8, <1>9, Zenon
<1>12. Keys'
  BY <1>10, <1>11, Zenon DEF Keys, W
<1>13. Filled'
  BY <1>10, <1>11, Zenon DEF Filled
<1>14. Fetched'
  BY <1>10, <1>11, Zenon DEF Fetched
<1>15. QED
  BY <1>5, <1>10, <1>11, <1>12, <1>13, <1>14

\* An endpoint that is placed is one more of its kind.
LEMMA StepCounts ==
  ASSUME Laid, pc = "place", e < Len(Part.ends), design' = design, i' = i, e' = e + 1
  PROVE  /\ e' \in 0 .. Len(Part.ends) /\ GoodPart(Part) /\ e + 1 \in DOMAIN Part.ends /\ Part' = Part
         /\ sram = Cardinality(UpTo(Part, "ram", e)) /\ dsp = Cardinality(UpTo(Part, "dsp", e))
         /\ Cardinality(UpTo(Part, "ram", e + 1)) = sram + (IF End.kind = "ram" THEN 1 ELSE 0)
         /\ Cardinality(UpTo(Part, "dsp", e + 1)) = dsp + (IF End.kind = "dsp" THEN 1 ELSE 0)
         /\ End.kind = "ram" => sram < Srams(Part)
         /\ End.kind = "dsp" => dsp < Dsps(Part)
<1> USE DEF Laid
<1>1. GoodPart(Part)
  BY ModelAddresses
<1>2. e \in 0 .. Len(Part.ends) /\ Len(Part.ends) \in Nat /\ DOMAIN Part.ends = 1 .. Len(Part.ends)
  BY <1>1 DEF Shape, GoodPart
<1>3. e' \in 0 .. Len(Part.ends) /\ e + 1 \in DOMAIN Part.ends
  BY <1>2
<1>4. Part' = Part
  BY DEF Part
<1>5. sram = Cardinality(UpTo(Part, "ram", e)) /\ dsp = Cardinality(UpTo(Part, "dsp", e))
  BY DEF Counted
<1>6. \A kind :
        /\ Cardinality(UpTo(Part, kind, e)) \in Nat
        /\ IF Part.ends[e + 1].kind = kind
           THEN /\ Cardinality(UpTo(Part, kind, e + 1)) = Cardinality(UpTo(Part, kind, e)) + 1
                /\ Cardinality(UpTo(Part, kind, e)) < Cardinality(Of(Part, {kind}))
           ELSE UpTo(Part, kind, e + 1) = UpTo(Part, kind, e)
  BY <1>1, <1>2, UpToCounts
<1>7. End = Part.ends[e + 1]
  BY DEF End
<1>8. /\ sram \in Nat
      /\ IF End.kind = "ram" THEN Cardinality(UpTo(Part, "ram", e + 1)) = sram + 1 /\ sram < Srams(Part)
         ELSE Cardinality(UpTo(Part, "ram", e + 1)) = sram
  BY <1>5, <1>6, <1>7 DEF Srams
<1>9. /\ dsp \in Nat
      /\ IF End.kind = "dsp" THEN Cardinality(UpTo(Part, "dsp", e + 1)) = dsp + 1 /\ dsp < Dsps(Part)
         ELSE Cardinality(UpTo(Part, "dsp", e + 1)) = dsp
  BY <1>5, <1>6, <1>7 DEF Dsps
<1>10. QED
  BY <1>1, <1>3, <1>4, <1>5, <1>8, <1>9

\* Activations already placed stay where they are.
LEMMA PlacedStay ==
  ASSUME Laid, pc = "place", design' = design, i' = i, Grows(enables, enables'), Grows(lanes, lanes'),
         placed' = placed
  PROVE  ActsPlaced'
<1>1. Part' = Part
  BY DEF Part
<1>2. ASSUME NEW a \in DOMAIN placed PROVE a \in Activations(Part) /\ a.pin # 0 /\ At(i, placed[a], a)'
  <2>1. a \in Activations(Part) /\ a.pin # 0 /\ At(i, placed[a], a)
    BY DEF Laid, ActsPlaced
  <2>2. At(i, placed[a], a)'
    BY <2>1, AtStays
  <2>3. QED
    BY <2>1, <2>2
<1>3. QED
  BY <1>1, <1>2, Zenon DEF ActsPlaced

LEMMA RamKeeps ==
  ASSUME Laid, PlaceRam
  PROVE  /\ Laid' /\ Grows(enables, enables') /\ Grows(lanes, lanes')
         /\ <<i, SramBit(Part, sram)>> \in DOMAIN enables'
         /\ enables'[<<i, SramBit(Part, sram)>>] = [gate |-> Query(Part, End.re), inv |-> 0]
         /\ <<i, SramLane(sram)>> \in DOMAIN lanes' /\ lanes'[<<i, SramLane(sram)>>] = Query(Part, End.a)
<1>1. /\ pc = "place" /\ e < Len(Part.ends) /\ End.kind = "ram" /\ e' = e + 1 /\ sram' = sram + 1
      /\ pc' = pc /\ design' = design /\ i' = i /\ placed' = placed /\ copies' = copies /\ dsp' = dsp
  BY DEF PlaceRam, Placing
<1>2. /\ e' \in 0 .. Len(Part.ends) /\ GoodPart(Part) /\ e + 1 \in DOMAIN Part.ends /\ Part' = Part
      /\ sram = Cardinality(UpTo(Part, "ram", e)) /\ dsp = Cardinality(UpTo(Part, "dsp", e))
      /\ Cardinality(UpTo(Part, "ram", e + 1)) = sram + 1
      /\ Cardinality(UpTo(Part, "dsp", e + 1)) = dsp + 0
      /\ sram < Srams(Part)
  BY <1>1, StepCounts
<1>3. Shape /\ sram \in Nat /\ dsp \in Nat /\ copies \in Nat /\ Srams(Part) \in Nat
  BY <1>2, PartSizes DEF Laid, Shape
<1>4. Shape'
  <2>1. sram' \in 0 .. Srams(Part)
    BY <1>1, <1>2, <1>3
  <2>2. QED
    BY <1>1, <1>2, <1>3, <2>1 DEF Shape
<1>5. Counted'
  <2>1. dsp + 0 = dsp
    BY <1>3
  <2>2. copies = Cardinality({a \in DOMAIN placed : ~IsFirst(Part, a)})
    BY <1>1 DEF Laid, Counted
  <2>3. QED
    BY <1>1, <1>2, <2>1, <2>2, Zenon DEF Counted
<1>6. PICK pos, bit : pos = SramBit(Part, sram) /\ bit = SramLane(sram)
  OBVIOUS
<1>7. End.re \in Literals(Part) /\ End.a \in Literals(Part)
  BY <1>1, <1>2, EndTypes DEF End
<1>8. ~EnableUsed(pos) /\ ~LaneUsed(bit)
  BY <1>1, <1>2, <1>6, FreshSram, Zenon
<1>9. EnableUsed(pos)' /\ LaneUsed(bit)'
  <2>1. sram \in 0 .. sram' - 1
    BY <1>1, <1>3
  <2>2. \E n \in 0 .. sram' - 1 : pos = SramBit(Part', n)
    BY <1>2, <1>6, <2>1, Zenon
  <2>3. \E n \in 0 .. sram' - 1 : bit = SramLane(n)
    BY <1>6, <2>1, Zenon
  <2>4. EnableUsed(pos)'
    BY <1>2, <2>2, Zenon DEF EnableUsed
  <2>5. LaneUsed(bit)'
    BY <1>2, <2>3, Zenon DEF LaneUsed
  <2>6. QED
    BY <2>4, <2>5
<1>10. pos \in 0 .. Words(Part) * W - 1 /\ bit \in 0 .. LaneEnd(Part) - 1
  <2>1. sram + 1 \in 0 .. Srams(Part) /\ 0 \in 0 .. Copies(Part) /\ 0 \in 0 .. Dsps(Part)
    <3>1. Copies(Part) \in Nat /\ Dsps(Part) \in Nat
      BY <1>2, PartSizes
    <3>2. QED
      BY <1>2, <1>3, <3>1
  <2>2. sram + 1 > 0 /\ (sram + 1) - 1 = sram
    BY <1>3
  <2>3. SramBit(Part, sram) \in 0 .. Words(Part) * W - 1 /\ SramLane(sram) \in 0 .. LaneEnd(Part) - 1
    BY <1>2, <2>1, <2>2, UsedIsInside
  <2>4. QED
    BY <1>6, <2>3, Zenon
<1>11. PICK q, r : q = [gate |-> Query(Part, End.re), inv |-> 0] /\ r = Query(Part, End.a)
  OBVIOUS
<1>12. enables' = Put(enables, <<i, pos>>, q) /\ lanes' = Put(lanes, <<i, bit>>, r)
  <2>1. SramWord * WordBits = SramBit(Part, sram) /\ 4 * sram * WordBits = SramLane(sram)
    BY <1>3, ModelAddresses
  <2>2. QED
    BY <1>6, <1>11, <2>1, Zenon DEF PlaceRam
<1>13. Fills(pos, q) /\ Lanes(bit, r)
  BY <1>7, <1>8, <1>9, <1>10, <1>11, <1>12 DEF Fills, Lanes, Queries
<1>14. /\ Begun' /\ Keys' /\ Filled' /\ Fetched'
       /\ Grows(enables, enables') /\ Grows(lanes, lanes')
  <2>1. copies <= copies' /\ sram <= sram' /\ dsp <= dsp' /\ DOMAIN placed \subseteq DOMAIN placed'
    BY <1>1, <1>3
  <2>2. QED
    BY <1>1, <1>4, <1>13, <2>1, FillingKeeps
<1>15. ActsPlaced'
  BY <1>1, <1>14, PlacedStay
<1>16. Laid'
  BY <1>4, <1>5, <1>14, <1>15, Zenon DEF Laid
<1>17. QED
  <2>1. /\ <<i, pos>> \in DOMAIN enables' /\ enables'[<<i, pos>>] = q
        /\ <<i, bit>> \in DOMAIN lanes' /\ lanes'[<<i, bit>>] = r
    BY <1>12 DEF Put
  <2>2. QED
    BY <1>6, <1>11, <1>14, <1>16, <2>1, Zenon

LEMMA DspKeeps ==
  ASSUME Laid, PlaceDsp
  PROVE  /\ Laid' /\ Grows(enables, enables') /\ Grows(lanes, lanes')
         /\ <<i, DspBit(Part, dsp)>> \in DOMAIN enables'
         /\ enables'[<<i, DspBit(Part, dsp)>>] = [gate |-> Query(Part, One), inv |-> 0]
         /\ <<i, DspLane(Part, dsp)>> \in DOMAIN lanes' /\ lanes'[<<i, DspLane(Part, dsp)>>] = Query(Part, End.a)
<1>1. /\ pc = "place" /\ e < Len(Part.ends) /\ End.kind = "dsp" /\ e' = e + 1 /\ dsp' = dsp + 1
      /\ pc' = pc /\ design' = design /\ i' = i /\ placed' = placed /\ copies' = copies /\ sram' = sram
  BY DEF PlaceDsp, Placing
<1>2. /\ e' \in 0 .. Len(Part.ends) /\ GoodPart(Part) /\ e + 1 \in DOMAIN Part.ends /\ Part' = Part
      /\ sram = Cardinality(UpTo(Part, "ram", e)) /\ dsp = Cardinality(UpTo(Part, "dsp", e))
      /\ Cardinality(UpTo(Part, "ram", e + 1)) = sram + 0
      /\ Cardinality(UpTo(Part, "dsp", e + 1)) = dsp + 1
      /\ dsp < Dsps(Part)
  BY <1>1, StepCounts
<1>3. Shape /\ sram \in Nat /\ dsp \in Nat /\ copies \in Nat /\ Dsps(Part) \in Nat
  BY <1>2, PartSizes DEF Laid, Shape
<1>4. Shape'
  <2>1. dsp' \in 0 .. Dsps(Part)
    BY <1>1, <1>2, <1>3
  <2>2. QED
    BY <1>1, <1>2, <1>3, <2>1 DEF Shape
<1>5. Counted'
  <2>1. sram + 0 = sram
    BY <1>3
  <2>2. copies = Cardinality({a \in DOMAIN placed : ~IsFirst(Part, a)})
    BY <1>1 DEF Laid, Counted
  <2>3. QED
    BY <1>1, <1>2, <2>1, <2>2, Zenon DEF Counted
<1>6. PICK pos, bit : pos = DspBit(Part, dsp) /\ bit = DspLane(Part, dsp)
  OBVIOUS
<1>7. One \in Literals(Part) /\ End.a \in Literals(Part)
  BY <1>1, <1>2, EndTypes, OneIsLiteral DEF End
<1>8. ~EnableUsed(pos) /\ ~LaneUsed(bit)
  BY <1>1, <1>2, <1>6, FreshDsp, Zenon
<1>9. EnableUsed(pos)' /\ LaneUsed(bit)'
  <2>1. dsp \in 0 .. dsp' - 1
    BY <1>1, <1>3
  <2>2. \E n \in 0 .. dsp' - 1 : pos = DspBit(Part', n)
    BY <1>2, <1>6, <2>1, Zenon
  <2>3. \E n \in 0 .. dsp' - 1 : bit = DspLane(Part', n)
    BY <1>2, <1>6, <2>1, Zenon
  <2>4. EnableUsed(pos)'
    BY <1>2, <2>2, Zenon DEF EnableUsed
  <2>5. LaneUsed(bit)'
    BY <1>2, <2>3, Zenon DEF LaneUsed
  <2>6. QED
    BY <2>4, <2>5
<1>10. pos \in 0 .. Words(Part) * W - 1 /\ bit \in 0 .. LaneEnd(Part) - 1
  <2>1. dsp + 1 \in 0 .. Dsps(Part) /\ 0 \in 0 .. Copies(Part) /\ 0 \in 0 .. Srams(Part)
    <3>1. Copies(Part) \in Nat /\ Srams(Part) \in Nat
      BY <1>2, PartSizes
    <3>2. QED
      BY <1>2, <1>3, <3>1
  <2>2. dsp + 1 > 0 /\ (dsp + 1) - 1 = dsp
    BY <1>3
  <2>3. DspBit(Part, dsp) \in 0 .. Words(Part) * W - 1 /\ DspLane(Part, dsp) \in 0 .. LaneEnd(Part) - 1
    BY <1>2, <2>1, <2>2, UsedIsInside
  <2>4. QED
    BY <1>6, <2>3, Zenon
<1>11. PICK q, r : q = [gate |-> Query(Part, One), inv |-> 0] /\ r = Query(Part, End.a)
  OBVIOUS
<1>12. enables' = Put(enables, <<i, pos>>, q) /\ lanes' = Put(lanes, <<i, bit>>, r)
  <2>1. DspWord * WordBits = DspBit(Part, dsp) /\ (4 * Srams(Part) + 4 * dsp) * WordBits = DspLane(Part, dsp)
    BY <1>3, ModelAddresses
  <2>2. QED
    BY <1>6, <1>11, <2>1, Zenon DEF PlaceDsp
<1>13. Fills(pos, q) /\ Lanes(bit, r)
  BY <1>7, <1>8, <1>9, <1>10, <1>11, <1>12 DEF Fills, Lanes, Queries
<1>14. /\ Begun' /\ Keys' /\ Filled' /\ Fetched'
       /\ Grows(enables, enables') /\ Grows(lanes, lanes')
  <2>1. copies <= copies' /\ sram <= sram' /\ dsp <= dsp' /\ DOMAIN placed \subseteq DOMAIN placed'
    BY <1>1, <1>3
  <2>2. QED
    BY <1>1, <1>4, <1>13, <2>1, FillingKeeps
<1>15. ActsPlaced'
  BY <1>1, <1>14, PlacedStay
<1>16. Laid'
  BY <1>4, <1>5, <1>14, <1>15, Zenon DEF Laid
<1>17. QED
  <2>1. /\ <<i, pos>> \in DOMAIN enables' /\ enables'[<<i, pos>>] = q
        /\ <<i, bit>> \in DOMAIN lanes' /\ lanes'[<<i, bit>>] = r
    BY <1>12 DEF Put
  <2>2. QED
    BY <1>6, <1>11, <1>14, <1>16, <2>1, Zenon

\* Placing an activation keeps the invariant, and the activation is then at its position.
LEMMA ActKeeps ==
  ASSUME Laid, pc = "place", e < Len(Part.ends), End.kind \in {"po", "io", "dff"},
         NEW act, act = Activation(End), act.pin # 0, PlaceActivation(act),
         UNCHANGED <<pc, design, i, sram, dsp>>, e' = e + 1,
         NEW pos, pos = Position(act)
  PROVE  Laid' /\ Grows(enables, enables') /\ Grows(lanes, lanes') /\ At(i, pos, act)'
<1>1. /\ e' \in 0 .. Len(Part.ends) /\ GoodPart(Part) /\ e + 1 \in DOMAIN Part.ends /\ Part' = Part
      /\ sram = Cardinality(UpTo(Part, "ram", e)) /\ dsp = Cardinality(UpTo(Part, "dsp", e))
      /\ Cardinality(UpTo(Part, "ram", e + 1)) = sram + 0
      /\ Cardinality(UpTo(Part, "dsp", e + 1)) = dsp + 0
  BY StepCounts
<1>2. Shape /\ sram \in Nat /\ dsp \in Nat /\ copies \in Nat /\ Copies(Part) \in Nat /\ copies \in 0 .. Copies(Part)
  BY <1>1, PartSizes DEF Laid, Shape
<1>3. act \in Activations(Part) /\ act \in ActType(Part) /\ act.pin \in Range(Part.outs) /\ act.en \in Literals(Part)
      /\ act.pin \in Nat
  <2>1. e + 1 \in Asked(Part)
    BY <1>1 DEF Asked, Of, End
  <2>2. act \in Activations(Part) /\ act \in ActType(Part)
    BY <1>1, <2>1, ActivationTypes DEF End
  <2>3. Range(Part.outs) \subseteq Nat
    BY <1>1 DEF GoodPart, Range
  <2>4. QED
    BY <2>2, <2>3 DEF ActType
<1>4. placed' = Put(placed, act, pos)
  BY Zenon DEF PlaceActivation
<1>5. /\ DOMAIN placed' = DOMAIN placed \cup {act} /\ placed'[act] = pos
      /\ \A a \in DOMAIN placed : a # act => placed'[a] = placed[a]
  BY <1>4 DEF Put
<1> DEFINE New == act \notin DOMAIN placed
           Copy == New /\ ~IsFirst(Part, act)
<1>6. /\ IsFiniteSet(Copied) \/ ~New
      /\ copies = Cardinality(Copied)
      /\ Copy => copies < Copies(Part) /\ Cardinality(Copied \cup {act}) = copies + 1
  <2>1. copies = Cardinality(Copied)
    BY DEF Laid, Counted, Copied
  <2>2. QED
    BY <1>3, <2>1, RoomForCopy
<1>7. copies' = IF Copy THEN copies + 1 ELSE copies
  BY <1>2 DEF PlaceActivation
<1>8. copies' \in 0 .. Copies(Part) /\ copies <= copies'
  <2> HIDE DEF Copy, New
  <2> QED BY <1>2, <1>6, <1>7
<1>9. Shape'
  BY <1>1, <1>2, <1>8 DEF Shape
<1>10. Counted'
  <2>1. {a \in DOMAIN placed' : ~IsFirst(Part', a)} = IF Copy THEN Copied \cup {act} ELSE Copied
    BY <1>1, <1>5 DEF Copied
  <2>2. Cardinality({a \in DOMAIN placed' : ~IsFirst(Part', a)}) = copies'
    <3> HIDE DEF Copy, New
    <3> QED BY <1>6, <1>7, <2>1
  <2>3. sram + 0 = sram /\ dsp + 0 = dsp
    BY <1>2
  <2>4. QED
    BY <1>1, <2>2, <2>3, Zenon DEF Counted
<1>11. PICK q, r, bit : /\ q = [gate |-> Query(Part, act.en), inv |-> act.inv]
                        /\ r = Query(Part, <<act.pin, 0>>) /\ bit = CopyLaneBit(Part, copies + 1)
  OBVIOUS
<1>12. /\ enables' = IF New THEN Put(enables, <<i, pos>>, q) ELSE enables
       /\ lanes' = IF Copy THEN Put(lanes, <<i, bit>>, r) ELSE lanes
  <2>1. bit = CopyLane
    BY <1>2, <1>11, ModelAddresses
  <2>2. QED
    BY <1>11, <2>1, Zenon DEF PlaceActivation
<1>13. q.gate \in Queries(Part) /\ r \in Queries(Part)
  <2>1. <<act.pin, 0>> \in Literals(Part)
    BY <1>3 DEF Literals
  <2>2. QED
    BY <1>3, <1>11, <2>1 DEF Queries
<1>14. New /\ ~Copy => pos = Written(Part, act.pin) /\ IsFirst(Part, act)
  BY Zenon DEF Position
<1>15. Copy => pos = CopyBit(Part, copies + 1)
  <2>1. CopyPos = CopyBit(Part, copies + 1)
    BY <1>2, ModelAddresses
  <2>2. QED
    BY <2>1, Zenon DEF Position
<1>16. New => Fills(pos, q)
  <2>1. CASE New /\ ~Copy
    <3>1. ~EnableUsed(pos)
      BY <1>3, <1>14, <2>1, FreshFirst, Zenon
    <3>2. EnableUsed(pos)'
      <4>1. act \in DOMAIN placed' /\ IsFirst(Part', act) /\ pos = Written(Part', act.pin)
        BY <1>1, <1>5, <1>14, <2>1
      <4>2. QED
        BY <4>1, Zenon DEF EnableUsed
    <3>3. Written(Part, act.pin) \in 0 .. Words(Part) * W - 1
      <4>1. 0 \in 0 .. Copies(Part) /\ 0 \in 0 .. Srams(Part) /\ 0 \in 0 .. Dsps(Part)
        BY <1>1, PartSizes
      <4>2. QED
        BY <1>1, <1>3, <4>1, UsedIsInside
    <3>4. QED
      BY <1>12, <1>13, <1>14, <2>1, <3>1, <3>2, <3>3, Zenon DEF Fills
  <2>2. CASE Copy
    <3>1. ~EnableUsed(pos)
      BY <1>6, <1>15, <2>2, FreshCopy, Zenon
    <3>2. EnableUsed(pos)'
      <4>1. copies + 1 \in 1 .. copies'
        BY <1>2, <1>7, <2>2
      <4>2. QED
        BY <1>1, <1>15, <2>2, <4>1, Zenon DEF EnableUsed
    <3>3. CopyBit(Part, copies + 1) \in 0 .. Words(Part) * W - 1
      <4>1. copies + 1 \in 0 .. Copies(Part) /\ copies + 1 > 0 /\ 0 \in 0 .. Srams(Part) /\ 0 \in 0 .. Dsps(Part)
        <5>1. Srams(Part) \in Nat /\ Dsps(Part) \in Nat
          BY <1>1, PartSizes
        <5>2. QED
          BY <1>2, <1>6, <2>2, <5>1
      <4>2. QED
        BY <1>1, <4>1, UsedIsInside
    <3>4. QED
      BY <1>12, <1>13, <1>15, <2>2, <3>1, <3>2, <3>3, Zenon DEF Fills
  <2>3. QED
    BY <2>1, <2>2
<1>17. Copy => Lanes(bit, r)
  <2>1. SUFFICES ASSUME Copy PROVE Lanes(bit, r)
    OBVIOUS
  <2>2. ~LaneUsed(bit)
    BY <1>6, <1>11, <2>1, FreshCopy, Zenon
  <2>3. LaneUsed(bit)'
    <3>1. copies + 1 \in 1 .. copies'
      BY <1>2, <1>7, <2>1
    <3>2. QED
      BY <1>1, <1>11, <3>1, Zenon DEF LaneUsed
  <2>4. CopyLaneBit(Part, copies + 1) \in 0 .. LaneEnd(Part) - 1
    <3>1. copies + 1 \in 0 .. Copies(Part) /\ copies + 1 > 0 /\ 0 \in 0 .. Srams(Part) /\ 0 \in 0 .. Dsps(Part)
      <4>1. Srams(Part) \in Nat /\ Dsps(Part) \in Nat
        BY <1>1, PartSizes
      <4>2. QED
        BY <1>2, <1>6, <2>1, <4>1
    <3>2. QED
      BY <1>1, <3>1, UsedIsInside
  <2>5. QED
    BY <1>11, <1>12, <1>13, <2>1, <2>2, <2>3, <2>4, Zenon DEF Lanes
<1>18. /\ Begun' /\ Keys' /\ Filled' /\ Fetched'
       /\ Grows(enables, enables') /\ Grows(lanes, lanes')
  <2>1. sram <= sram' /\ dsp <= dsp' /\ DOMAIN placed \subseteq DOMAIN placed'
    BY <1>2, <1>5
  <2>2. enables' = enables \/ \E x, y : Fills(x, y)
    BY <1>12, <1>16, Zenon
  <2>3. lanes' = lanes \/ \E x, y : Lanes(x, y)
    BY <1>12, <1>17, Zenon
  <2>4. QED
    <3> HIDE DEF New, Copy
    <3> QED BY <1>8, <1>9, <2>1, <2>2, <2>3, FillingKeeps
<1>19. At(i, pos, act)'
  <2>1. CASE ~New
    <3>1. pos = placed[act]
      BY <2>1, Zenon DEF Position
    <3>2. At(i, pos, act)
      BY <2>1, <3>1, Zenon DEF Laid, ActsPlaced
    <3>3. PICK p : p = i
      OBVIOUS
    <3>4. At(p, pos, act)'
      BY <1>18, <3>2, <3>3, AtStays
    <3>5. p = i'
      BY <3>3
    <3>6. QED
      BY <3>4, <3>5, Zenon
  <2>2. CASE New
    <3>1. <<i, pos>> \in DOMAIN enables' /\ enables'[<<i, pos>>] = q
      BY <1>12, <2>2 DEF Put
    <3>2. \/ pos = Written(Part, act.pin)
          \/ \E c \in 1 .. Copies(Part) :
               /\ pos = CopyBit(Part, c)
               /\ <<i, CopyLaneBit(Part, c)>> \in DOMAIN lanes'
               /\ lanes'[<<i, CopyLaneBit(Part, c)>>] = Query(Part, <<act.pin, 0>>)
      <4>1. CASE ~Copy
        BY <1>14, <2>2, <4>1
      <4>2. CASE Copy
        <5>1. <<i, bit>> \in DOMAIN lanes' /\ lanes'[<<i, bit>>] = r
          BY <1>12, <4>2 DEF Put
        <5>2. copies + 1 \in 1 .. Copies(Part)
          BY <1>2, <1>6, <4>2
        <5>3. QED
          BY <1>11, <1>15, <4>2, <5>1, <5>2, Zenon
      <4>3. QED
        BY <4>1, <4>2
    <3>3. Part = design'.parts[i'] /\ i' = i
      BY DEF Part
    <3>4. QED
      BY <1>11, <3>1, <3>2, <3>3, Zenon DEF At
  <2>3. QED
    BY <2>1, <2>2
<1>20. ActsPlaced'
  <2>1. ASSUME NEW a \in DOMAIN placed'
        PROVE  a \in Activations(Part') /\ a.pin # 0 /\ At(i, placed[a], a)'
    <3>1. CASE a = act
      BY <1>1, <1>3, <1>5, <1>19, <3>1, Zenon
    <3>2. CASE a # act
      <4>1. a \in DOMAIN placed /\ placed'[a] = placed[a]
        BY <1>5, <3>2
      <4>2. a \in Activations(Part) /\ a.pin # 0 /\ At(i, placed[a], a)
        BY <4>1, Zenon DEF Laid, ActsPlaced
      <4>3. PICK p, x : p = i /\ x = placed[a]
        OBVIOUS
      <4>4. At(p, x, a)'
        BY <1>18, <4>2, <4>3, AtStays
      <4>5. p = i' /\ x = placed'[a]
        BY <4>1, <4>3
      <4>6. QED
        BY <1>1, <4>2, <4>4, <4>5, Zenon
    <3>3. QED
      BY <3>1, <3>2
  <2>2. QED
    BY <2>1, Zenon DEF ActsPlaced
<1>21. QED
  BY <1>9, <1>10, <1>18, <1>19, <1>20, Zenon DEF Laid

LEMMA NoneAtFirst ==
  ASSUME NEW p, GoodPart(p), NEW kind
  PROVE  Cardinality(UpTo(p, kind, 0)) = 0
<1>1. UpTo(p, kind, 0) = {}
  BY DEF UpTo, Of, GoodPart
<1>2. QED
  BY <1>1, FS_EmptySet

LEMMA EmptyPlaced == DOMAIN <<>> = {}
  OBVIOUS

LEMMA SizesAreNat ==
  ASSUME design \in Designs, NEW p \in DOMAIN design.parts
  PROVE  /\ GoodPart(design.parts[p])
         /\ 0 \in 0 .. Copies(design.parts[p]) /\ 0 \in 0 .. Srams(design.parts[p])
         /\ 0 \in 0 .. Dsps(design.parts[p]) /\ 0 \in 0 .. Len(design.parts[p].ends)
<1>1. GoodPart(design.parts[p])
  BY PartsAreGood
<1>2. Copies(design.parts[p]) \in Nat /\ Srams(design.parts[p]) \in Nat /\ Dsps(design.parts[p]) \in Nat
  BY <1>1, PartSizes
<1>3. Len(design.parts[p].ends) \in Nat
  BY <1>1 DEF GoodPart
<1>4. QED
  BY <1>1, <1>2, <1>3

LEMMA LaidInit ==
  ASSUME Init
  PROVE  Laid
<1>1. /\ pc = "arrange" /\ design \in Designs /\ i = 1 /\ e = 0 /\ placed = <<>> /\ copies = 0
      /\ sram = 0 /\ dsp = 0 /\ enables = <<>> /\ lanes = <<>>
  BY DEF Init
<1>2. 1 \in DOMAIN design.parts
  BY <1>1, DesignAssumption
<1>3. /\ 0 \in 0 .. Copies(Part) /\ 0 \in 0 .. Srams(Part)
      /\ 0 \in 0 .. Dsps(Part) /\ 0 \in 0 .. Len(Part.ends)
  BY <1>1, <1>2, SizesAreNat DEF Part
<1>4. Shape
  BY <1>1, <1>2, <1>3 DEF Shape
<1>5. Keys /\ Fetched
  BY <1>1, EmptyPlaced DEF Keys, Fetched
<1>6. QED
  BY <1>1, <1>4, <1>5 DEF Laid, Begun, Counted, Filled, ActsPlaced

\* A partition is begun with nothing filled.
LEMMA BeginPart ==
  ASSUME Shape', pc' = "place", e' = 0, placed' = <<>>, copies' = 0, sram' = 0, dsp' = 0,
         \A k \in DOMAIN enables' : k[1] # i', \A k \in DOMAIN lanes' : k[1] # i',
         Keys', Fetched'
  PROVE  Laid'
<1>1. GoodPart(Part')
  BY PartsAreGood DEF Shape, Part
<1>2. Counted'
  <2>1. {a \in DOMAIN placed' : ~IsFirst(Part', a)} = {}
    BY EmptyPlaced
  <2>2. Cardinality({a \in DOMAIN placed' : ~IsFirst(Part', a)}) = 0
    BY <2>1, FS_EmptySet, Zenon
  <2>3. Cardinality(UpTo(Part', "ram", e')) = 0 /\ Cardinality(UpTo(Part', "dsp", e')) = 0
    BY <1>1, NoneAtFirst
  <2>4. QED
    BY <2>2, <2>3, Zenon DEF Counted
<1>3. Filled'
  BY Zenon DEF Filled
<1>4. ActsPlaced'
  BY EmptyPlaced, Zenon DEF ActsPlaced
<1>5. Begun'
  BY DEF Begun
<1>6. QED
  BY <1>2, <1>3, <1>4, <1>5, Zenon DEF Laid

LEMMA ArrangeKeeps ==
  ASSUME Laid, ArrangeParts
  PROVE  Laid' /\ Grows(enables, enables') /\ Grows(lanes, lanes')
<1>1. /\ pc = "arrange" /\ pc' = "place" /\ design' = design /\ i' = i /\ e' = e /\ placed' = placed
      /\ copies' = copies /\ sram' = sram /\ dsp' = dsp /\ enables' = enables /\ lanes' = lanes
  BY DEF ArrangeParts
<1>2. e = 0 /\ placed = <<>> /\ copies = 0 /\ sram = 0 /\ dsp = 0 /\ enables = <<>> /\ lanes = <<>>
  BY <1>1 DEF Laid, Begun
<1>3. Shape'
  <2>1. Part' = Part
    BY <1>1 DEF Part
  <2>2. QED
    BY <1>1, <2>1 DEF Laid, Shape
<1>4. DOMAIN enables' = {} /\ DOMAIN lanes' = {}
  BY <1>1, <1>2, EmptyPlaced, Zenon
<1>5. Keys' /\ Fetched'
  BY <1>4, Zenon DEF Keys, Fetched
<1>6. Laid'
  BY <1>1, <1>2, <1>3, <1>4, <1>5, BeginPart
<1>7. QED
  BY <1>1, <1>6 DEF Grows

LEMMA EndKeeps ==
  ASSUME Laid, EndPart
  PROVE  Laid' /\ Grows(enables, enables') /\ Grows(lanes, lanes')
<1>1. /\ pc = "place" /\ e = Len(Part.ends) /\ design' = design /\ enables' = enables /\ lanes' = lanes
  BY DEF EndPart
<1>2. Grows(enables, enables') /\ Grows(lanes, lanes')
  BY <1>1 DEF Grows
<1>3. CASE pc' = "panic" /\ UNCHANGED <<i, e, placed, copies, sram, dsp>>
  <2>1. Part' = Part
    BY <1>1, <1>3 DEF Part
  <2>2. Shape'
    BY <1>1, <1>3, <2>1 DEF Laid, Shape
  <2>3. Keys' /\ Fetched'
    BY <1>1, <1>3, Zenon DEF Laid, Keys, Fetched, W
  <2>4. Counted' /\ Filled' /\ ActsPlaced' /\ Begun'
    BY <1>3 DEF Counted, Filled, ActsPlaced, Begun
  <2>5. QED
    BY <1>2, <2>2, <2>3, <2>4 DEF Laid
<1>4. /\ i \in DOMAIN design.parts /\ design \in Designs
      /\ DOMAIN design.parts = 1 .. Len(design.parts) /\ Len(design.parts) \in Nat
  BY DesignAssumption DEF Laid, Shape
<1>5. ASSUME placed' = <<>>, copies' = 0, sram' = 0, dsp' = 0, i < Len(design.parts), i' = i + 1, e' = 0, pc' = pc
      PROVE  Laid'
  <2>1. i' \in DOMAIN design'.parts /\ design' \in Designs /\ i' # i /\ i \in Nat
    BY <1>1, <1>4, <1>5
  <2>2. /\ 0 \in 0 .. Copies(Part') /\ 0 \in 0 .. Srams(Part')
        /\ 0 \in 0 .. Dsps(Part') /\ 0 \in 0 .. Len(Part'.ends)
    BY <1>1, <1>4, <1>5, <2>1, SizesAreNat DEF Part
  <2>3. Shape'
    BY <1>1, <1>5, <2>1, <2>2 DEF Shape
  <2>4. \A p \in 1 .. i : p \in 1 .. i' /\ p # i'
    BY <1>5, <2>1
  <2>5. (\A k \in DOMAIN enables : k[1] # i') /\ (\A k \in DOMAIN lanes : k[1] # i')
    BY <2>4 DEF Laid, Keys
  <2>6. Keys'
    <3>1. \A k \in DOMAIN enables :
            \E p \in 1 .. i' : \E pos \in 0 .. Words(design.parts[p]) * W - 1 : k = <<p, pos>>
      BY <2>4, Zenon DEF Laid, Keys
    <3>2. \A k \in DOMAIN lanes :
            \E p \in 1 .. i' : \E pos \in 0 .. LaneEnd(design.parts[p]) - 1 : k = <<p, pos>>
      BY <2>4, Zenon DEF Laid, Keys
    <3>3. QED
      BY <1>1, <3>1, <3>2, Zenon DEF Keys, W
  <2>7. Fetched'
    BY <1>1, Zenon DEF Laid, Fetched
  <2>8. QED
    BY <1>1, <1>5, <2>3, <2>5, <2>6, <2>7, BeginPart
<1>6. ASSUME placed' = <<>>, copies' = 0, sram' = 0, dsp' = 0, ~(i < Len(design.parts)), pc' = "offsets", i' = i, e' = e
      PROVE  Laid'
  <2>1. i = Len(design.parts) /\ Part' = Part
    BY <1>1, <1>4, <1>6 DEF Part
  <2>2. /\ 0 \in 0 .. Copies(Part) /\ 0 \in 0 .. Srams(Part)
        /\ 0 \in 0 .. Dsps(Part)
    BY <1>4, SizesAreNat DEF Part
  <2>3. Shape'
    BY <1>1, <1>6, <2>1, <2>2 DEF Laid, Shape
  <2>4. Keys' /\ Fetched'
    BY <1>1, <1>6, Zenon DEF Laid, Keys, Fetched, W
  <2>5. Counted' /\ Filled' /\ ActsPlaced' /\ Begun'
    BY <1>6 DEF Counted, Filled, ActsPlaced, Begun
  <2>6. QED
    BY <2>3, <2>4, <2>5 DEF Laid
<1>7. QED
  BY <1>2, <1>3, <1>5, <1>6 DEF EndPart

\* What neither places nor fills anything keeps the invariant.
LEMMA RestKeeps ==
  ASSUME Laid, UNCHANGED <<design, i, placed, copies, sram, dsp, enables, lanes>>,
         \/ pc' = "panic" /\ e' = e
         \/ pc = "offsets" /\ pc' = "done" /\ e' = e
         \/ pc' = pc /\ e' = e
         \/ pc' = pc /\ pc = "place" /\ e < Len(Part.ends) /\ End.kind = "dff" /\ e' = e + 1
  PROVE  Laid' /\ Grows(enables, enables') /\ Grows(lanes, lanes')
<1>1. Part' = Part
  BY DEF Part
<1>2. Grows(enables, enables') /\ Grows(lanes, lanes')
  BY DEF Grows
<1>3. Shape'
  <2>1. e' \in 0 .. Len(Part.ends)
    BY StepCounts DEF Laid, Shape
  <2>2. QED
    BY <1>1, <2>1 DEF Laid, Shape
<1>4. Keys' /\ Fetched'
  BY Zenon DEF Laid, Keys, Fetched, W
<1>5. Filled'
  <2>1. pc' = "place" => pc = "place"
    OBVIOUS
  <2>2. \A pos : EnableUsed(pos)' <=> EnableUsed(pos)
    BY <1>1, Zenon DEF EnableUsed
  <2>3. \A pos : LaneUsed(pos)' <=> LaneUsed(pos)
    BY <1>1, Zenon DEF LaneUsed
  <2>4. QED
    BY <2>1, <2>2, <2>3, Zenon DEF Laid, Filled
<1>6. ActsPlaced'
  <2>1. pc' = "place" => pc = "place"
    OBVIOUS
  <2>2. CASE pc = "place"
    BY <1>2, <2>2, PlacedStay
  <2>3. CASE pc # "place"
    BY <2>1, <2>3 DEF ActsPlaced
  <2>4. QED
    BY <2>2, <2>3
<1>7. Begun'
  BY DEF Laid, Begun, Shape
<1>8. Counted'
  <2>1. CASE pc' = "place" /\ e' = e
    BY <1>1, <2>1, Zenon DEF Laid, Counted
  <2>2. CASE pc' = pc /\ pc = "place" /\ e < Len(Part.ends) /\ End.kind = "dff" /\ e' = e + 1
    <3>1. /\ Cardinality(UpTo(Part, "ram", e + 1)) = sram + 0
          /\ Cardinality(UpTo(Part, "dsp", e + 1)) = dsp + 0
      BY <2>2, StepCounts
    <3>2. sram + 0 = sram /\ dsp + 0 = dsp
      BY DEF Laid, Shape
    <3>3. copies = Cardinality({a \in DOMAIN placed : ~IsFirst(Part, a)})
      BY <2>2 DEF Laid, Counted
    <3>4. QED
      BY <1>1, <2>2, <3>1, <3>2, <3>3, Zenon DEF Counted
  <2>3. CASE pc' # "place"
    BY <2>3 DEF Counted
  <2>4. QED
    BY <2>1, <2>2, <2>3
<1>9. QED
  BY <1>2, <1>3, <1>4, <1>5, <1>6, <1>7, <1>8 DEF Laid

\* The endpoint that is placed as an activation is there afterwards.
LEMMA EndPlaced ==
  ASSUME Laid, pc = "place", e < Len(Part.ends), End.kind \in {"po", "io", "dff"},
         Activation(End).pin # 0, PlaceActivation(Activation(End)),
         UNCHANGED <<pc, design, i, sram, dsp>>, e' = e + 1
  PROVE  /\ Laid' /\ Grows(enables, enables') /\ Grows(lanes, lanes')
         /\ \E pos, act : /\ pos = Position(Activation(End)) /\ act = Activation(End)
                          /\ At(i, pos, act)'
<1>1. PICK act : act = Activation(End)
  OBVIOUS
<1>2. PICK pos : pos = Position(act)
  OBVIOUS
<1>3. PlaceActivation(act)
  BY <1>1, Zenon DEF PlaceActivation
<1>4. Laid' /\ Grows(enables, enables') /\ Grows(lanes, lanes') /\ At(i, pos, act)'
  BY <1>1, <1>2, <1>3, ActKeeps
<1>5. pos = Position(Activation(End))
  BY <1>1, <1>2, Zenon
<1>6. QED
  BY <1>1, <1>4, <1>5, Zenon

LEMMA LaidStep ==
  ASSUME Laid, [Next]_vars
  PROVE  Laid' /\ Grows(enables, enables') /\ Grows(lanes, lanes') /\ design' = design
<1>1. CASE ArrangeParts
  BY <1>1, ArrangeKeeps DEF ArrangeParts
<1>2. CASE PlaceOutput
  <2>1. Activation(End).pin # 0
    BY <1>2 DEF PlaceOutput, Placing, Activation
  <2>2. QED
    BY <1>2, <2>1, EndPlaced DEF PlaceOutput, Placing
<1>3. CASE PlaceStagedPin
  <2>1. Activation(End).pin # 0
    BY <1>3 DEF PlaceStagedPin, Placing, Activation
  <2>2. QED
    BY <1>3, <2>1, EndPlaced DEF PlaceStagedPin, Placing
<1>4. CASE PlaceFlop
  <2>1. Activation(End).pin # 0
    BY <1>4 DEF PlaceFlop, Placing, Activation
  <2>2. QED
    BY <1>4, <2>1, EndPlaced DEF PlaceFlop, Placing
<1>5. CASE PlaceZeroFlop
  BY <1>5, RestKeeps DEF PlaceZeroFlop, Placing
<1>6. CASE RefuseConstant
  BY <1>6, RestKeeps DEF RefuseConstant
<1>7. CASE PlaceRam
  BY <1>7, RamKeeps DEF PlaceRam
<1>8. CASE PlaceDsp
  BY <1>8, DspKeeps DEF PlaceDsp
<1>9. CASE EndPart
  BY <1>9, EndKeeps DEF EndPart
<1>10. CASE AllocState
  BY <1>10, RestKeeps DEF AllocState
<1>11. CASE UNCHANGED vars
  BY <1>11, RestKeeps DEF vars
<1>12. QED
  BY <1>1, <1>2, <1>3, <1>4, <1>5, <1>6, <1>7, <1>8, <1>9, <1>10, <1>11 DEF Next

\* What the flattener has filled of a partition, and where it has placed its activations,
\* agrees with its counters throughout (flatten.rs:281-602).
THEOREM LaidHolds == Spec => []Laid
<1>1. Init => Laid
  BY LaidInit
<1>2. Laid /\ [Next]_vars => Laid'
  BY LaidStep
<1>3. QED
  BY <1>1, <1>2, PTL DEF Spec

-----------------------------------------------------------------------------
(* Nothing is outside the words reserved for it, and what is gathered lies  *)
(* in the words of the tree.                                                *)

\* Everything placed is inside the words that were reserved for it: no counter passes
\* what init_afters_writeouts counted, and no position or lane leaves its partition
\* (flatten.rs:281-602).
THEOREM TypesHold == Spec => []TypeOK
<1>1. Laid => TypeOK
  <2>1. SUFFICES ASSUME Laid PROVE TypeOK
    OBVIOUS
  <2>2. copies <= Copies(Part) /\ sram <= Srams(Part) /\ dsp <= Dsps(Part)
    BY <2>1, SizesAreNat DEF Laid, Shape, Part
  <2>3. \A x \in DOMAIN enables : x[2] \in 0 .. Words(design.parts[x[1]]) * WordBits - 1
    BY <2>1 DEF Laid, Keys, W
  <2>4. ASSUME NEW x \in DOMAIN lanes
        PROVE  x[2] \in 0 .. LaneOfCopy(x[1], SramAt(x[1])) * WordBits - 1
    <3>1. PICK p \in 1 .. i : \E pos \in 0 .. LaneEnd(design.parts[p]) - 1 : x = <<p, pos>>
      BY <2>1 DEF Laid, Keys
    <3>2. p \in DOMAIN design.parts /\ design \in Designs
      BY <2>1, DesignAssumption DEF Laid, Shape
    <3>3. /\ GoodPart(design.parts[p]) /\ SramAt(p) = CopyAt(p) + CopyWords(design.parts[p])
          /\ CopyAt(p) \in Nat
      BY <3>2, KernelWords
    <3>4. Srams(design.parts[p]) \in Nat /\ Dsps(design.parts[p]) \in Nat /\ CopyWords(design.parts[p]) \in Nat
      BY <3>3, PartSizes
    <3>5. LaneOfCopy(p, SramAt(p)) = 4 * Srams(design.parts[p]) + 4 * Dsps(design.parts[p]) + CopyWords(design.parts[p])
      BY <3>3, <3>4 DEF LaneOfCopy
    <3>6. LaneOfCopy(p, SramAt(p)) * WordBits = LaneEnd(design.parts[p])
      BY <3>5 DEF LaneEnd, W
    <3>7. QED
      BY <3>1, <3>6
  <2>5. pc \in {"arrange", "place", "offsets", "done", "panic"}
    BY <2>1 DEF Laid, Shape
  <2>6. QED
    BY <2>2, <2>3, <2>4, <2>5 DEF TypeOK
<1>2. QED
  BY <1>1, LaidHolds, PTL

\* Whatever a lane or an enable gathers is a constant or among the words of the tree,
\* before those that the leaders of SRAMs, DSPs and copies overwrite
\* (kernel_v1_impl.cuh:443-500, 541-600; flatten.rs:345-371).
THEOREM GathersApart == Spec => []GatherApart
<1>1. Laid => GatherApart
  <2>1. SUFFICES ASSUME Laid, NEW x \in DOMAIN lanes \cup DOMAIN enables, NEW q,
                        \/ x \in DOMAIN lanes /\ q = lanes[x]
                        \/ x \in DOMAIN enables /\ q = enables[x].gate
                 PROVE  q.set0 = 1 \/ q.pos \div WordBits < DspAt(x[1])
    BY DEF GatherApart
  <2>2. x[1] \in DOMAIN design.parts /\ design \in Designs
    <3>1. design \in Designs /\ i \in DOMAIN design.parts /\ DOMAIN design.parts = 1 .. Len(design.parts)
      BY <2>1, DesignAssumption DEF Laid, Shape
    <3>2. \E p \in 1 .. i : x[1] = p
      BY <2>1 DEF Laid, Keys
    <3>3. QED
      BY <3>1, <3>2, DesignAssumption
  <2>3. PICK iv \in Literals(design.parts[x[1]]) : q = Query(design.parts[x[1]], iv)
    BY <2>1, Zenon DEF Laid, Fetched, Queries
  <2>4. GoodPart(design.parts[x[1]]) /\ DspAt(x[1]) = NormalWords(design.parts[x[1]])
    BY <2>2, KernelWords
  <2>5. QED
    BY <2>3, <2>4, QueryFinds DEF W
<1>2. QED
  BY <1>1, LaidHolds, PTL

-----------------------------------------------------------------------------
(* The arrangement gives every partition its own words.                    *)

LoadMap == [1 .. NumBlocks -> Nat]

\* The block with the least work is one of the blocks.
LEMMA LeastIsBlock ==
  ASSUME NEW load \in LoadMap
  PROVE  Least(load) \in 1 .. NumBlocks
<1> DEFINE T == {load[b] : b \in 1 .. NumBlocks}
<1>1. T \in SUBSET Nat /\ T # {}
  BY SizeAssumption DEF LoadMap
<1>2. PICK v \in T : \A w \in T : v <= w
  <2> HIDE DEF T
  <2> QED BY <1>1, LeastNumber
<1> DEFINE U == {b \in 1 .. NumBlocks : load[b] = v}
<1>3. U \in SUBSET Nat /\ U # {}
  BY <1>2
<1>4. PICK b \in U : \A c \in U : b <= c
  <2> HIDE DEF U
  <2> QED BY <1>3, LeastNumber
<1>5. DOMAIN load = 1 .. NumBlocks /\ NumBlocks \in Nat
  BY SizeAssumption DEF LoadMap
<1>6. ASSUME NEW c \in 1 .. NumBlocks, c # b PROVE load[b] < load[c] \/ (load[b] = load[c] /\ b < c)
  <2>1. load[c] \in Nat /\ v \in Nat /\ load[b] = v /\ v <= load[c]
    BY <1>1, <1>2, <1>4 DEF LoadMap
  <2>2. CASE load[c] = v
    BY <1>4, <1>6, <2>1, <2>2
  <2>3. CASE load[c] # v
    BY <2>1, <2>3
  <2>4. QED
    BY <2>2, <2>3
<1>7. b \in DOMAIN load /\ \A c \in DOMAIN load \ {b} : load[b] < load[c] \/ (load[b] = load[c] /\ b < c)
  BY <1>4, <1>5, <1>6
<1>8. Least(load) \in DOMAIN load
  BY <1>7, Zenon DEF Least
<1>9. QED
  BY <1>5, <1>8

LEMMA BlockForIsBlock ==
  ASSUME NEW load \in LoadMap, NEW n \in Nat \ {0}
  PROVE  BlockFor(n, load) \in 1 .. NumBlocks
<1>1. CASE n <= NumBlocks
  BY <1>1, SizeAssumption DEF BlockFor
<1>2. CASE ~(n <= NumBlocks)
  BY <1>2, LeastIsBlock DEF BlockFor
<1>3. QED
  BY <1>1, <1>2

Added(load, n) ==
  [load EXCEPT ![BlockFor(n, load)] = @ + design.parts[n].stages + 3]

Accumulates(f) ==
  f = [n \in 0 .. Len(design.parts) |-> IF n = 0 THEN [b \in 1 .. NumBlocks |-> 0] ELSE Added(f[n - 1], n)]

LEMMA LoadsDef ==
  ASSUME \E f : Accumulates(f)
  PROVE  Accumulates(Loads)
<1> DEFINE w == CHOOSE f : Accumulates(f)
<1>1. Accumulates(w)
  OBVIOUS
<1>2. Loads = w
  BY DEF Loads, Accumulates, Added
<1>3. QED
  BY <1>1, <1>2, Zenon

LEMMA AddedIsLoad ==
  ASSUME design \in Designs, NEW load \in LoadMap, NEW n \in DOMAIN design.parts
  PROVE  Added(load, n) \in LoadMap
<1>1. design.parts[n].stages \in Nat
  BY DesignAssumption
<1>2. PICK b \in 1 .. NumBlocks, s \in Nat : b = BlockFor(n, load) /\ s = design.parts[n].stages
  BY <1>1, BlockForIsBlock, DesignAssumption
<1>3. Added(load, n) = [load EXCEPT ![b] = load[b] + s + 3]
  BY <1>2 DEF Added
<1>4. b \in 1 .. NumBlocks => load[b] \in Nat
  BY DEF LoadMap
<1>5. [load EXCEPT ![b] = load[b] + s + 3] \in LoadMap
  BY <1>2, <1>4 DEF LoadMap
<1>6. QED
  BY <1>3, <1>5

LEMMA LoadsAre ==
  ASSUME design \in Designs
  PROVE  \A n \in 0 .. Len(design.parts) : Loads[n] \in LoadMap
<1> DEFINE N == Len(design.parts)
           zero == [b \in 1 .. NumBlocks |-> 0]
           F == [x \in Nat \X LoadMap |-> IF x[1] \in 1 .. N THEN Added(x[2], x[1]) ELSE x[2]]
<1>1. N \in Nat /\ DOMAIN design.parts = 1 .. N
  BY DesignAssumption
<1>2. zero \in LoadMap
  BY DEF LoadMap
<1>3. F \in [Nat \X LoadMap -> LoadMap]
  <2>1. ASSUME NEW x \in Nat \X LoadMap PROVE (IF x[1] \in 1 .. N THEN Added(x[2], x[1]) ELSE x[2]) \in LoadMap
    <3>1. x[2] \in LoadMap
      OBVIOUS
    <3>2. CASE x[1] \in 1 .. N
      BY <1>1, <3>1, <3>2, AddedIsLoad
    <3>3. QED
      BY <3>1, <3>2
  <2>2. QED
    BY <2>1
<1>4. PICK f \in [0 .. N -> LoadMap] : Recurs(f, zero, F, N)
  <2> HIDE DEF N, zero, F
  <2> QED BY <1>1, <1>2, <1>3, RecursionExists
<1>5. Accumulates(f)
  <2>1. ASSUME NEW n \in 0 .. N PROVE f[n] = IF n = 0 THEN zero ELSE Added(f[n - 1], n)
    <3>1. CASE n = 0
      BY <1>4, <3>1 DEF Recurs
    <3>2. CASE n # 0
      <4>1. n \in 1 .. N /\ n - 1 \in 0 .. N /\ n \in Nat
        BY <1>1, <3>2
      <4>2. f[n - 1] \in LoadMap
        BY <1>4, <4>1
      <4>3. f[n] = F[<<n, f[n - 1]>>]
        BY <1>4, <4>1 DEF Recurs
      <4>4. <<n, f[n - 1]>> \in Nat \X LoadMap
        BY <4>1, <4>2
      <4>5. F[<<n, f[n - 1]>>] = Added(f[n - 1], n)
        BY <4>1, <4>4
      <4>6. QED
        BY <3>2, <4>3, <4>5
    <3>3. QED
      BY <3>1, <3>2
  <2>2. QED
    BY <1>4, <2>1 DEF Accumulates
<1>6. Accumulates(Loads)
  BY <1>5, LoadsDef
<1>7. \A n \in 0 .. N : Loads[n] = IF n = 0 THEN zero ELSE Added(Loads[n - 1], n)
  BY <1>6 DEF Accumulates
<1> DEFINE T == {n \in 0 .. N : Loads[n] \in LoadMap}
<1>8. 0 \in T
  <2>1. 0 \in 0 .. N
    BY <1>1
  <2>2. Loads[0] = zero
    BY <1>7, <2>1
  <2>3. QED
    BY <1>2, <2>1, <2>2
<1>9. ASSUME NEW n \in 0 .. N - 1, n \in T PROVE n + 1 \in T
  <2>1. n + 1 \in 1 .. N /\ n + 1 \in 0 .. N /\ n + 1 # 0 /\ (n + 1) - 1 = n
    BY <1>1
  <2>2. Loads[n + 1] = Added(Loads[n], n + 1)
    BY <1>7, <2>1
  <2>3. Loads[n] \in LoadMap
    BY <1>9
  <2>4. Added(Loads[n], n + 1) \in LoadMap
    BY <1>1, <2>1, <2>3, AddedIsLoad
  <2>5. QED
    BY <2>1, <2>2, <2>4
<1>10. \A n \in 0 .. N : n \in T
  <2> HIDE DEF T, N
  <2> QED BY <1>1, <1>8, <1>9, IntervalInduction
<1>11. QED
  BY <1>10

LEMMA BlocksAre ==
  ASSUME design \in Designs, NEW p \in DOMAIN design.parts
  PROVE  Block[p] \in Nat /\ p \in Nat
<1>1. p \in Nat \ {0} /\ p - 1 \in 0 .. Len(design.parts)
  BY DesignAssumption
<1>2. Loads[p - 1] \in LoadMap
  BY <1>1, LoadsAre
<1>3. BlockFor(p, Loads[p - 1]) \in 1 .. NumBlocks
  BY <1>1, <1>2, BlockForIsBlock
<1>4. QED
  BY <1>1, <1>3 DEF Block

\* The partitions are in one order.
LEMMA EarlierOrders ==
  ASSUME design \in Designs
  PROVE  /\ \A p \in DOMAIN design.parts : ~Earlier(p, p)
         /\ \A p, q \in DOMAIN design.parts : p # q => Earlier(p, q) \/ Earlier(q, p)
         /\ \A p, q, r \in DOMAIN design.parts : Earlier(p, q) /\ Earlier(q, r) => Earlier(p, r)
<1>1. \A p \in DOMAIN design.parts : Block[p] \in Nat /\ p \in Nat
  BY BlocksAre
<1>2. \A p \in DOMAIN design.parts : ~Earlier(p, p)
  BY <1>1 DEF Earlier
<1>3. \A p, q \in DOMAIN design.parts : p # q => Earlier(p, q) \/ Earlier(q, p)
  BY <1>1 DEF Earlier
<1>4. \A p, q, r \in DOMAIN design.parts : Earlier(p, q) /\ Earlier(q, r) => Earlier(p, r)
  BY <1>1 DEF Earlier
<1>5. QED
  BY <1>2, <1>3, <1>4

WordsOf(q) == {q} \X (1 .. Words(design.parts[q]))

LEMMA WordsOfCount ==
  ASSUME design \in Designs, NEW q \in DOMAIN design.parts
  PROVE  IsFiniteSet(WordsOf(q)) /\ Cardinality(WordsOf(q)) = Words(design.parts[q])
         /\ Words(design.parts[q]) \in Nat
<1>1. Words(design.parts[q]) \in Nat
  BY SizesAreNat, PartSizes
<1>2. IsFiniteSet({q}) /\ Cardinality({q}) = 1
  BY FS_Singleton
<1>3. IsFiniteSet(1 .. Words(design.parts[q])) /\ Cardinality(1 .. Words(design.parts[q])) = Words(design.parts[q])
  BY <1>1, FromOne
<1>4. /\ IsFiniteSet(WordsOf(q))
      /\ Cardinality(WordsOf(q)) = Cardinality({q}) * Cardinality(1 .. Words(design.parts[q]))
  BY <1>2, <1>3, FS_Product DEF WordsOf
<1>5. QED
  BY <1>1, <1>2, <1>3, <1>4

LEMMA WordsBeforeAreFinite ==
  ASSUME design \in Designs, NEW p
  PROVE  /\ IsFiniteSet(WordsBefore(p)) /\ Cardinality(WordsBefore(p)) \in Nat
         /\ WordsBefore(p) = UNION {WordsOf(q) : q \in {x \in DOMAIN design.parts : Earlier(x, p)}}
<1> DEFINE X == {x \in DOMAIN design.parts : Earlier(x, p)}
           f == [q \in X |-> WordsOf(q)]
<1>1. IsFiniteSet(X)
  <2>1. IsFiniteSet(DOMAIN design.parts)
    BY DesignAssumption, FromOne
  <2>2. QED
    BY <2>1, FS_Subset
<1>2. IsFiniteSet({f[q] : q \in X})
  <2>1. f \in [X -> {WordsOf(q) : q \in X}]
    OBVIOUS
  <2>2. QED
    <3> HIDE DEF f, X
    <3> QED BY <1>1, <2>1, ImageIsFinite
<1>3. {f[q] : q \in X} = {WordsOf(q) : q \in X}
  OBVIOUS
<1>4. \A Y \in {WordsOf(q) : q \in X} : IsFiniteSet(Y)
  BY WordsOfCount
<1>5. IsFiniteSet(UNION {WordsOf(q) : q \in X})
  <2> HIDE DEF f, X
  <2> QED BY <1>2, <1>3, <1>4, FS_UNION
<1>6. WordsBefore(p) = UNION {WordsOf(q) : q \in X}
  BY DEF WordsBefore, WordsOf
<1>7. IsFiniteSet(WordsBefore(p))
  BY <1>5, <1>6
<1>8. QED
  BY <1>6, <1>7, FS_CardinalityType

\* The words of an earlier partition are all before those of a later one.
LEMMA WordsFollow ==
  ASSUME design \in Designs, NEW q \in DOMAIN design.parts, NEW p \in DOMAIN design.parts, Earlier(q, p)
  PROVE  Cardinality(WordsBefore(q)) + Words(design.parts[q]) <= Cardinality(WordsBefore(p))
<1>1. /\ IsFiniteSet(WordsBefore(q)) /\ Cardinality(WordsBefore(q)) \in Nat
      /\ IsFiniteSet(WordsBefore(p)) /\ Cardinality(WordsBefore(p)) \in Nat
      /\ WordsBefore(q) = UNION {WordsOf(r) : r \in {x \in DOMAIN design.parts : Earlier(x, q)}}
      /\ WordsBefore(p) = UNION {WordsOf(r) : r \in {x \in DOMAIN design.parts : Earlier(x, p)}}
  BY WordsBeforeAreFinite
<1>2. IsFiniteSet(WordsOf(q)) /\ Cardinality(WordsOf(q)) = Words(design.parts[q]) /\ Words(design.parts[q]) \in Nat
  BY WordsOfCount
<1>3. WordsBefore(q) \cup WordsOf(q) \subseteq WordsBefore(p)
  BY <1>1, EarlierOrders
<1>4. WordsBefore(q) \cap WordsOf(q) = {}
  <2>1. \A r \in DOMAIN design.parts : r # q => WordsOf(r) \cap WordsOf(q) = {}
    BY DEF WordsOf
  <2>2. QED
    BY <1>1, <2>1, EarlierOrders
<1>5. Cardinality(WordsBefore(q) \cup WordsOf(q)) = Cardinality(WordsBefore(q)) + Cardinality(WordsOf(q)) - Cardinality({})
  BY <1>1, <1>2, <1>4, FS_Union
<1>6. Cardinality({}) = 0
  BY FS_EmptySet
<1>7. Cardinality(WordsBefore(q) \cup WordsOf(q)) <= Cardinality(WordsBefore(p))
  BY <1>1, <1>3, FS_Subset
<1>8. QED
  BY <1>1, <1>2, <1>5, <1>6, <1>7

Started ==
  pc # "arrange" => start = [p \in DOMAIN design.parts |-> StatesStart + Cardinality(WordsBefore(p))]

LEMMA StartedStep ==
  ASSUME Shape, Started, [Next]_vars
  PROVE  Started'
<1>1. design' = design
  BY DEF Next, ArrangeParts, PlaceOutput, PlaceStagedPin, PlaceFlop, PlaceZeroFlop, RefuseConstant,
         PlaceRam, PlaceDsp, EndPart, AllocState, vars
<1>2. (start' = start /\ (pc = "arrange" => pc' = "arrange")) \/ ArrangeParts
  BY DEF Next, PlaceOutput, PlaceStagedPin, PlaceFlop, PlaceZeroFlop, RefuseConstant,
         PlaceRam, PlaceDsp, EndPart, AllocState, vars, Placing
<1>3. Loads' = Loads
  BY <1>1, SMT DEF Loads
<1>4. \A p : WordsBefore(p)' = WordsBefore(p)
  BY <1>1, <1>3, SMT DEF WordsBefore, Earlier, Block
<1>5. CASE start' = start /\ (pc = "arrange" => pc' = "arrange")
  BY <1>1, <1>4, <1>5, Zenon DEF Started
<1>6. CASE ArrangeParts
  BY <1>1, <1>4, <1>6, Zenon DEF ArrangeParts, Started
<1>7. QED
  BY <1>2, <1>5, <1>6

\* A partition starts behind the words of all those before it in block order
\* (flatten.rs:1095-1105).
THEOREM StartsAreKept == Spec => []Started
<1>1. Init => Started
  BY DEF Init, Started
<1>2. Laid => Shape
  BY DEF Laid
<1>3. Shape /\ Started /\ [Next]_vars => Started'
  BY StartedStep
<1>4. QED
  BY <1>1, <1>2, <1>3, LaidHolds, PTL DEF Spec

\* No two partitions commit the same word, and none an input or the word kept at zero,
\* whichever way the blocks were filled (flatten.rs:1029-1034, 1095-1105).
THEOREM WordsApart == Spec => []NoWordShared
<1>1. Shape /\ Started /\ TypeOK => NoWordShared
  <2>1. SUFFICES ASSUME Shape, Started, pc = "done", NEW p \in DOMAIN design.parts
                 PROVE  LET wordsOf(x) == start[x] .. start[x] + Words(design.parts[x]) - 1
                        IN /\ \A w \in wordsOf(p) : w > ZeroWord
                           /\ \A q \in DOMAIN design.parts \ {p} : wordsOf(p) \cap wordsOf(q) = {}
    BY DEF NoWordShared
  <2>2. design \in Designs
    BY <2>1 DEF Shape
  <2>3. \A q \in DOMAIN design.parts :
          /\ start[q] = InputWords + 1 + Cardinality(WordsBefore(q))
          /\ Cardinality(WordsBefore(q)) \in Nat /\ Words(design.parts[q]) \in Nat
    BY <2>1, <2>2, WordsBeforeAreFinite, WordsOfCount DEF Started, StatesStart, ZeroWord
  <2>4. \A w \in start[p] .. start[p] + Words(design.parts[p]) - 1 : w > ZeroWord
    BY <2>1, <2>3, SizeAssumption DEF ZeroWord
  <2>5. ASSUME NEW q \in DOMAIN design.parts, NEW r \in DOMAIN design.parts, Earlier(q, r)
        PROVE  start[q] + Words(design.parts[q]) <= start[r]
    <3>1. Cardinality(WordsBefore(q)) + Words(design.parts[q]) <= Cardinality(WordsBefore(r))
      BY <2>2, <2>5, WordsFollow
    <3>2. QED
      BY <2>3, <3>1, SizeAssumption
  <2>6. ASSUME NEW q \in DOMAIN design.parts \ {p}
        PROVE  (start[p] .. start[p] + Words(design.parts[p]) - 1)
                 \cap (start[q] .. start[q] + Words(design.parts[q]) - 1) = {}
    <3>1. Earlier(p, q) \/ Earlier(q, p)
      BY <2>1, <2>2, <2>6, EarlierOrders
    <3>2. \/ start[p] + Words(design.parts[p]) <= start[q]
          \/ start[q] + Words(design.parts[q]) <= start[p]
      BY <2>1, <2>5, <2>6, <3>1
    <3>3. start[p] \in Nat /\ start[q] \in Nat /\ Words(design.parts[p]) \in Nat /\ Words(design.parts[q]) \in Nat
      BY <2>1, <2>3, <2>6, SizeAssumption
    <3>4. QED
      BY <3>2, <3>3
  <2>7. QED
    BY <2>4, <2>6
<1>2. Laid => Shape
  BY DEF Laid
<1>3. QED
  BY <1>1, <1>2, StartsAreKept, LaidHolds, TypesHold, PTL

-----------------------------------------------------------------------------
(* Every endpoint is read from where it is committed.                      *)

Logic(iv) == [pin |-> iv[1], inv |-> iv[2], en |-> One]

\* Partition p holds an activation at a position of the state vector.
HoldsAct(p, g, act) ==
  /\ p \in DOMAIN design.parts /\ act \in ActType(design.parts[p]) /\ act.pin # 0
  /\ \E pos : At(p, pos, act) /\ g = start[p] * W + pos

HasLogic(g, iv) == \E p : HoldsAct(p, g, Logic(iv))

\* Endpoint k of partition p is the n-th SRAM there, or the n-th DSP.
RamHeld(p, k, n) ==
  /\ inputMap[<<p, k>>] = start[p] * W + SramBit(design.parts[p], n)
  /\ <<p, SramBit(design.parts[p], n)>> \in DOMAIN enables
  /\ enables[<<p, SramBit(design.parts[p], n)>>] =
       [gate |-> Query(design.parts[p], design.parts[p].ends[k].re), inv |-> 0]
  /\ <<p, SramLane(n)>> \in DOMAIN lanes
  /\ lanes[<<p, SramLane(n)>>] = Query(design.parts[p], design.parts[p].ends[k].a)

DspHeld(p, k, n) ==
  /\ inputMap[<<p, k>>] = start[p] * W + DspBit(design.parts[p], n)
  /\ <<p, DspBit(design.parts[p], n)>> \in DOMAIN enables
  /\ enables[<<p, DspBit(design.parts[p], n)>>] = [gate |-> Query(design.parts[p], One), inv |-> 0]
  /\ <<p, DspLane(design.parts[p], n)>> \in DOMAIN lanes
  /\ lanes[<<p, DspLane(design.parts[p], n)>>] = Query(design.parts[p], design.parts[p].ends[k].a)

\* Where endpoint k of partition p went.
EndHeld(p, k) ==
  LET part == design.parts[p]
      end  == design.parts[p].ends[k]
  IN /\ end.kind = "po" => end.iv \in DOMAIN outputMap
     /\ end.kind = "io" => end.iv \in DOMAIN stagedMap
     /\ (end.kind = "dff" /\ end.d[1] # 0) \/ end.kind \in {"ram", "dsp"} => <<p, k>> \in DOMAIN inputMap
     /\ end.kind = "dff" /\ end.d[1] # 0 => HoldsAct(p, inputMap[<<p, k>>], Activation(end))
     /\ end.kind = "ram" => RamHeld(p, k, Cardinality(UpTo(part, "ram", k - 1)))
     /\ end.kind = "dsp" => DspHeld(p, k, Cardinality(UpTo(part, "dsp", k - 1)))

\* The endpoints that have been placed.
LaidOut(p, k) ==
  /\ p \in DOMAIN design.parts /\ k \in DOMAIN design.parts[p].ends
  /\ p < i \/ (p = i /\ k <= e)

MapsHold ==
  /\ pc = "arrange" => inputMap = <<>> /\ stagedMap = <<>> /\ outputMap = <<>>
  /\ \A iv \in DOMAIN stagedMap : HasLogic(stagedMap[iv], iv)
  /\ \A iv \in DOMAIN outputMap : iv \in Latched \/ HasLogic(outputMap[iv], iv)
  /\ \A p, k : LaidOut(p, k) => EndHeld(p, k)

LEMMA HoldsActStays ==
  ASSUME Grows(enables, enables'), Grows(lanes, lanes'), design' = design, start' = start,
         NEW p, NEW g, NEW act, HoldsAct(p, g, act)
  PROVE  HoldsAct(p, g, act)'
<1>1. /\ p \in DOMAIN design.parts /\ act \in ActType(design.parts[p]) /\ act.pin # 0
  BY DEF HoldsAct
<1>2. PICK pos : At(p, pos, act) /\ g = start[p] * W + pos
  BY DEF HoldsAct
<1>3. At(p, pos, act)'
  BY <1>2, AtStays
<1>4. g = start'[p] * W + pos
  BY <1>2
<1>5. p \in DOMAIN design'.parts /\ act \in ActType(design'.parts[p])
  BY <1>1
<1>6. QED
  BY <1>1, <1>3, <1>4, <1>5, Zenon DEF HoldsAct, W

LEMMA HasLogicStays ==
  ASSUME Grows(enables, enables'), Grows(lanes, lanes'), design' = design, start' = start,
         NEW g, NEW iv, HasLogic(g, iv)
  PROVE  HasLogic(g, iv)'
<1>1. PICK p : HoldsAct(p, g, Logic(iv))
  BY DEF HasLogic
<1>2. PICK act : act = Logic(iv)
  OBVIOUS
<1>3. HoldsAct(p, g, act)
  BY <1>1, <1>2
<1>4. HoldsAct(p, g, act)'
  BY <1>3, HoldsActStays
<1>5. HoldsAct(p, g, Logic(iv))'
  BY <1>2, <1>4
<1>6. QED
  BY <1>5, Zenon DEF HasLogic

\* What has been placed stays placed when more is.
LEMMA EndHeldStays ==
  ASSUME Grows(enables, enables'), Grows(lanes, lanes'), design' = design, start' = start,
         DOMAIN stagedMap \subseteq DOMAIN stagedMap', DOMAIN outputMap \subseteq DOMAIN outputMap',
         NEW p, NEW k, EndHeld(p, k),
         <<p, k>> \in DOMAIN inputMap => <<p, k>> \in DOMAIN inputMap' /\ inputMap'[<<p, k>>] = inputMap[<<p, k>>]
  PROVE  EndHeld(p, k)'
<1>1. PICK part, end : part = design.parts[p] /\ end = design.parts[p].ends[k]
  OBVIOUS
<1>2. part = design'.parts[p] /\ end = design'.parts[p].ends[k]
  BY <1>1
<1>3. end.kind = "po" => end.iv \in DOMAIN outputMap'
  BY <1>1, Zenon DEF EndHeld
<1>4. end.kind = "io" => end.iv \in DOMAIN stagedMap'
  BY <1>1, Zenon DEF EndHeld
<1>5. (end.kind = "dff" /\ end.d[1] # 0) \/ end.kind \in {"ram", "dsp"} =>
        <<p, k>> \in DOMAIN inputMap' /\ inputMap'[<<p, k>>] = inputMap[<<p, k>>]
  BY <1>1, Zenon DEF EndHeld
<1>6. ASSUME end.kind = "dff", end.d[1] # 0
      PROVE  HoldsAct(p, inputMap[<<p, k>>], Activation(end))'
  <2>1. PICK g, act : g = inputMap[<<p, k>>] /\ act = Activation(end)
    OBVIOUS
  <2>2. HoldsAct(p, g, act)
    BY <1>1, <1>6, <2>1, Zenon DEF EndHeld
  <2>3. HoldsAct(p, g, act)'
    BY <2>2, HoldsActStays
  <2>4. g = inputMap'[<<p, k>>]
    BY <1>5, <1>6, <2>1
  <2>5. QED
    BY <2>1, <2>3, <2>4, Zenon
<1>7. ASSUME end.kind = "ram"
      PROVE  RamHeld(p, k, Cardinality(UpTo(part, "ram", k - 1)))'
  <2>1. PICK n : n = Cardinality(UpTo(part, "ram", k - 1))
    OBVIOUS
  <2>2. RamHeld(p, k, n)
    BY <1>1, <1>7, <2>1, Zenon DEF EndHeld
  <2>3. RamHeld(p, k, n)'
    <3>1. inputMap'[<<p, k>>] = inputMap[<<p, k>>]
      BY <1>5, <1>7
    <3>2. /\ \A x \in DOMAIN enables : x \in DOMAIN enables' /\ enables'[x] = enables[x]
          /\ \A x \in DOMAIN lanes : x \in DOMAIN lanes' /\ lanes'[x] = lanes[x]
      BY DEF Grows
    <3>3. QED
      BY <2>2, <3>1, <3>2, Zenon DEF RamHeld, W
  <2>4. QED
    BY <2>1, <2>3, Zenon
<1>8. ASSUME end.kind = "dsp"
      PROVE  DspHeld(p, k, Cardinality(UpTo(part, "dsp", k - 1)))'
  <2>1. PICK n : n = Cardinality(UpTo(part, "dsp", k - 1))
    OBVIOUS
  <2>2. DspHeld(p, k, n)
    BY <1>1, <1>8, <2>1, Zenon DEF EndHeld
  <2>3. DspHeld(p, k, n)'
    <3>1. inputMap'[<<p, k>>] = inputMap[<<p, k>>]
      BY <1>5, <1>8
    <3>2. /\ \A x \in DOMAIN enables : x \in DOMAIN enables' /\ enables'[x] = enables[x]
          /\ \A x \in DOMAIN lanes : x \in DOMAIN lanes' /\ lanes'[x] = lanes[x]
      BY DEF Grows
    <3>3. QED
      BY <2>2, <3>1, <3>2, Zenon DEF DspHeld, W
  <2>4. QED
    BY <2>1, <2>3, Zenon
<1>9. QED
  BY <1>2, <1>3, <1>4, <1>5, <1>6, <1>7, <1>8, Zenon DEF EndHeld

LEMMA LatchedStays ==
  ASSUME design' = design
  PROVE  Latched' = Latched
  BY SMT DEF Latched, Ends, EndAt

LEMMA PlacingKeeps ==
  ASSUME Laid, MapsHold, Grows(enables, enables'), Grows(lanes, lanes'),
         design' = design, start' = start, i' = i, pc = "place", pc' = pc, e' = e + 1, e < Len(Part.ends),
         stagedMap' = stagedMap \/ \E iv, g : stagedMap' = Put(stagedMap, iv, g) /\ HasLogic(g, iv)',
         outputMap' = outputMap
           \/ \E iv, g : outputMap' = Put(outputMap, iv, g) /\ (iv \in Latched \/ HasLogic(g, iv)'),
         inputMap' = inputMap \/ \E g : inputMap' = Put(inputMap, <<i, e + 1>>, g),
         EndHeld(i, e)'
  PROVE  MapsHold'
<1>1. Latched' = Latched
  BY LatchedStays
<1>2. \A iv \in DOMAIN stagedMap' : HasLogic(stagedMap[iv], iv)'
  <2>1. SUFFICES ASSUME NEW iv \in DOMAIN stagedMap', NEW g, g = stagedMap'[iv] PROVE HasLogic(g, iv)'
    OBVIOUS
  <2>2. ASSUME iv \in DOMAIN stagedMap, g = stagedMap[iv] PROVE HasLogic(g, iv)'
    <3>1. HasLogic(g, iv)
      BY <2>2, Zenon DEF MapsHold
    <3>2. QED
      BY <3>1, HasLogicStays
  <2>3. CASE stagedMap' = stagedMap
    BY <2>1, <2>2, <2>3
  <2>4. ASSUME NEW v, NEW h, stagedMap' = Put(stagedMap, v, h), HasLogic(h, v)' PROVE HasLogic(g, iv)'
    <3>1. CASE iv = v
      <4>1. g = h
        BY <2>1, <2>4, <3>1 DEF Put
      <4>2. QED
        BY <2>4, <3>1, <4>1
    <3>2. CASE iv # v
      <4>1. iv \in DOMAIN stagedMap /\ g = stagedMap[iv]
        BY <2>1, <2>4, <3>2 DEF Put
      <4>2. QED
        BY <2>2, <4>1
    <3>3. QED
      BY <3>1, <3>2
  <2>5. QED
    BY <2>3, <2>4
<1>3. \A iv \in DOMAIN outputMap' : iv \in Latched \/ HasLogic(outputMap[iv], iv)'
  <2>1. SUFFICES ASSUME NEW iv \in DOMAIN outputMap', NEW g, g = outputMap'[iv], iv \notin Latched PROVE HasLogic(g, iv)'
    OBVIOUS
  <2>2. ASSUME iv \in DOMAIN outputMap, g = outputMap[iv] PROVE HasLogic(g, iv)'
    <3>1. HasLogic(g, iv)
      BY <2>1, <2>2, Zenon DEF MapsHold
    <3>2. QED
      BY <3>1, HasLogicStays
  <2>3. CASE outputMap' = outputMap
    BY <2>1, <2>2, <2>3
  <2>4. ASSUME NEW v, NEW h, outputMap' = Put(outputMap, v, h), v \in Latched \/ HasLogic(h, v)' PROVE HasLogic(g, iv)'
    <3>1. CASE iv = v
      <4>1. g = h
        BY <2>1, <2>4, <3>1 DEF Put
      <4>2. QED
        BY <2>1, <2>4, <3>1, <4>1
    <3>2. CASE iv # v
      <4>1. iv \in DOMAIN outputMap /\ g = outputMap[iv]
        BY <2>1, <2>4, <3>2 DEF Put
      <4>2. QED
        BY <2>2, <4>1
    <3>3. QED
      BY <3>1, <3>2
  <2>5. QED
    BY <2>3, <2>4
<1>4. ASSUME NEW p, NEW k, LaidOut(p, k)' PROVE EndHeld(p, k)'
  <2>1. CASE p = i /\ k = e + 1
    <3>1. p = i' /\ k = e'
      BY <2>1
    <3>2. QED
      BY <3>1
  <2>2. CASE ~(p = i /\ k = e + 1)
    <3>1. LaidOut(p, k)
      <4>1. /\ p \in DOMAIN design.parts /\ k \in DOMAIN design.parts[p].ends
            /\ p < i \/ (p = i /\ k <= e + 1)
        BY <1>4 DEF LaidOut
      <4>2. e \in Int /\ k \in Int
        <5>1. design \in Designs
          BY DEF Laid, Shape
        <5>2. GoodPart(design.parts[p])
          BY <4>1, <5>1, PartsAreGood
        <5>3. QED
          BY <4>1, <5>2, EndTypes DEF Laid, Shape
      <4>3. k <= e + 1 /\ k # e + 1 => k <= e
        BY <4>2
      <4>4. QED
        BY <2>2, <4>1, <4>3 DEF LaidOut
    <3>2. EndHeld(p, k)
      BY <3>1, Zenon DEF MapsHold
    <3>3. <<p, k>> # <<i, e + 1>>
      BY <2>2
    <3>4. <<p, k>> \in DOMAIN inputMap => <<p, k>> \in DOMAIN inputMap' /\ inputMap'[<<p, k>>] = inputMap[<<p, k>>]
      BY <3>3 DEF Put
    <3>5. DOMAIN stagedMap \subseteq DOMAIN stagedMap' /\ DOMAIN outputMap \subseteq DOMAIN outputMap'
      <4>1. \A f, key, value : DOMAIN f \subseteq DOMAIN Put(f, key, value)
        BY DEF Put
      <4>2. QED
        BY <4>1
    <3>6. QED
      BY <3>2, <3>4, <3>5, EndHeldStays
  <2>3. QED
    BY <2>1, <2>2
<1>5. pc' # "arrange"
  OBVIOUS
<1>6. QED
  BY <1>1, <1>2, <1>3, <1>4, <1>5, Zenon DEF MapsHold

LEMMA MapsStay ==
  ASSUME MapsHold, Grows(enables, enables'), Grows(lanes, lanes'),
         design' = design, start' = start, UNCHANGED <<inputMap, stagedMap, outputMap>>,
         pc' = "arrange" => pc = "arrange",
         \A p, k : LaidOut(p, k)' => LaidOut(p, k)
  PROVE  MapsHold'
<1>1. Latched' = Latched
  BY LatchedStays
<1>2. \A iv \in DOMAIN stagedMap' : HasLogic(stagedMap[iv], iv)'
  <2>1. SUFFICES ASSUME NEW iv \in DOMAIN stagedMap, NEW g, g = stagedMap[iv] PROVE HasLogic(g, iv)'
    OBVIOUS
  <2>2. HasLogic(g, iv)
    BY <2>1, Zenon DEF MapsHold
  <2>3. QED
    BY <2>2, HasLogicStays
<1>3. \A iv \in DOMAIN outputMap' : iv \in Latched \/ HasLogic(outputMap[iv], iv)'
  <2>1. SUFFICES ASSUME NEW iv \in DOMAIN outputMap, NEW g, g = outputMap[iv], iv \notin Latched PROVE HasLogic(g, iv)'
    OBVIOUS
  <2>2. HasLogic(g, iv)
    BY <2>1, Zenon DEF MapsHold
  <2>3. QED
    BY <2>2, HasLogicStays
<1>4. ASSUME NEW p, NEW k, LaidOut(p, k)' PROVE EndHeld(p, k)'
  <2>1. EndHeld(p, k)
    BY <1>4, Zenon DEF MapsHold
  <2>2. QED
    BY <2>1, EndHeldStays
<1>5. pc' = "arrange" => inputMap' = <<>> /\ stagedMap' = <<>> /\ outputMap' = <<>>
  BY DEF MapsHold
<1>6. QED
  BY <1>1, <1>2, <1>3, <1>4, <1>5, Zenon DEF MapsHold

LEMMA EndHolds ==
  ASSUME Laid, pc = "place", e < Len(Part.ends), End.kind \in {"po", "io", "dff"},
         Activation(End).pin # 0, PlaceActivation(Activation(End)),
         UNCHANGED <<pc, design, start, i, sram, dsp>>, e' = e + 1
  PROVE  /\ Laid' /\ Grows(enables, enables') /\ Grows(lanes, lanes')
         /\ \E p, g, act : /\ p = i /\ act = Activation(End) /\ g = Global(Position(Activation(End)))
                           /\ HoldsAct(p, g, act)'
<1>1. /\ Laid' /\ Grows(enables, enables') /\ Grows(lanes, lanes')
  BY EndPlaced
<1>2. PICK pos, act : /\ pos = Position(Activation(End)) /\ act = Activation(End)
                      /\ At(i, pos, act)'
  BY EndPlaced
<1>3. PICK p, g : p = i /\ g = Global(pos)
  OBVIOUS
<1>4. p \in DOMAIN design'.parts /\ act \in ActType(design'.parts[p]) /\ act.pin # 0
  <2>1. GoodPart(Part) /\ e + 1 \in DOMAIN Part.ends
    BY StepCounts
  <2>2. e + 1 \in Asked(Part)
    BY <2>1 DEF Asked, Of, End
  <2>3. act \in ActType(Part)
    BY <1>2, <2>1, <2>2, ActivationTypes DEF End
  <2>4. p \in DOMAIN design.parts /\ Part = design.parts[p]
    BY <1>3 DEF Laid, Shape, Part
  <2>5. QED
    BY <1>2, <2>3, <2>4
<1>5. At(p, pos, act)'
  <2>1. p = i'
    BY <1>3
  <2>2. QED
    BY <1>2, <2>1, Zenon
<1>6. g = start'[p] * W + pos
  BY <1>3 DEF Global, W
<1>7. HoldsAct(p, g, act)'
  BY <1>4, <1>5, <1>6, Zenon DEF HoldsAct, W
<1>8. g = Global(Position(Activation(End)))
  BY <1>2, <1>3, Zenon
<1>9. QED
  BY <1>1, <1>2, <1>3, <1>7, <1>8, Zenon

LEMMA EndIs ==
  ASSUME Laid, pc = "place", e < Len(Part.ends), design' = design, i' = i, e' = e + 1
  PROVE  /\ design'.parts[i'].ends[e'] = End /\ design'.parts[i'] = Part
         /\ e' - 1 = e /\ <<i', e'>> = <<i, e + 1>>
         /\ End.kind \in {"po", "io", "dff", "ram", "dsp"}
         /\ design \in Designs /\ i \in DOMAIN design.parts /\ e + 1 \in DOMAIN Part.ends
<1>1. e \in Int
  BY DEF Laid, Shape
<1>2. GoodPart(Part) /\ e + 1 \in DOMAIN Part.ends
  BY StepCounts
<1>3. End.kind \in {"po", "io", "dff", "ram", "dsp"}
  BY <1>2, EndTypes DEF End
<1>4. design \in Designs /\ i \in DOMAIN design.parts
  BY DEF Laid, Shape
<1>5. QED
  BY <1>1, <1>2, <1>3, <1>4 DEF End, Part

LEMMA OutputHeld ==
  ASSUME Laid, MapsHold, PlaceOutput
  PROVE  MapsHold'
<1>1. /\ pc = "place" /\ e < Len(Part.ends) /\ End.kind = "po" /\ End.iv[1] # 0 /\ e' = e + 1
      /\ PlaceActivation(Activation(End))
      /\ outputMap' = Put(outputMap, End.iv, Global(Position(Activation(End))))
      /\ UNCHANGED <<pc, design, start, i, sram, dsp, inputMap, stagedMap, off>>
  BY DEF PlaceOutput, Placing
<1>2. Activation(End) = Logic(End.iv) /\ Activation(End).pin # 0
  BY <1>1 DEF Activation, Logic
<1>3. Laid' /\ Grows(enables, enables') /\ Grows(lanes, lanes')
  BY <1>1, <1>2, EndHolds
<1>4. PICK p, g, act : /\ p = i /\ act = Activation(End) /\ g = Global(Position(Activation(End)))
                       /\ HoldsAct(p, g, act)'
  BY <1>1, <1>2, EndHolds
<1>5. PICK iv : iv = End.iv
  OBVIOUS
<1>6. HasLogic(g, iv)'
  <2>1. act = Logic(iv)
    BY <1>2, <1>4, <1>5
  <2>2. HoldsAct(p, g, Logic(iv))'
    BY <1>4, <2>1
  <2>3. QED
    BY <2>2, Zenon DEF HasLogic
<1>7. outputMap' = Put(outputMap, iv, g)
  BY <1>1, <1>4, <1>5, Zenon
<1>8. /\ design'.parts[i'].ends[e'] = End /\ End.kind = "po"
  BY <1>1, EndIs
<1>9. EndHeld(i, e)'
  <2>1. End.iv \in DOMAIN outputMap'
    BY <1>5, <1>7 DEF Put
  <2>2. QED
    BY <1>8, <2>1 DEF EndHeld
<1>10. QED
  BY <1>1, <1>3, <1>6, <1>7, <1>9, PlacingKeeps

LEMMA StagedPinHeld ==
  ASSUME Laid, MapsHold, PlaceStagedPin
  PROVE  MapsHold'
<1>1. /\ pc = "place" /\ e < Len(Part.ends) /\ End.kind = "io" /\ End.iv[1] # 0 /\ e' = e + 1
      /\ PlaceActivation(Activation(End))
      /\ stagedMap' = Put(stagedMap, End.iv, Global(Position(Activation(End))))
      /\ UNCHANGED <<pc, design, start, i, sram, dsp, inputMap, outputMap, off>>
  BY DEF PlaceStagedPin, Placing
<1>2. Activation(End) = Logic(End.iv) /\ Activation(End).pin # 0
  BY <1>1 DEF Activation, Logic
<1>3. Laid' /\ Grows(enables, enables') /\ Grows(lanes, lanes')
  BY <1>1, <1>2, EndHolds
<1>4. PICK p, g, act : /\ p = i /\ act = Activation(End) /\ g = Global(Position(Activation(End)))
                       /\ HoldsAct(p, g, act)'
  BY <1>1, <1>2, EndHolds
<1>5. PICK iv : iv = End.iv
  OBVIOUS
<1>6. HasLogic(g, iv)'
  <2>1. act = Logic(iv)
    BY <1>2, <1>4, <1>5
  <2>2. HoldsAct(p, g, Logic(iv))'
    BY <1>4, <2>1
  <2>3. QED
    BY <2>2, Zenon DEF HasLogic
<1>7. stagedMap' = Put(stagedMap, iv, g)
  BY <1>1, <1>4, <1>5, Zenon
<1>8. /\ design'.parts[i'].ends[e'] = End /\ End.kind = "io"
  BY <1>1, EndIs
<1>9. EndHeld(i, e)'
  <2>1. End.iv \in DOMAIN stagedMap'
    BY <1>5, <1>7 DEF Put
  <2>2. QED
    BY <1>8, <2>1 DEF EndHeld
<1>10. QED
  BY <1>1, <1>3, <1>6, <1>7, <1>9, PlacingKeeps

\* A flip-flop without enable, or a literal that one with an enable registers.
LEMMA FlopHeld ==
  ASSUME Laid, MapsHold, PlaceFlop
  PROVE  MapsHold'
<1>1. /\ pc = "place" /\ e < Len(Part.ends) /\ End.kind = "dff" /\ End.d[1] # 0 /\ e' = e + 1
      /\ PlaceActivation(Activation(End))
      /\ outputMap' = Put(outputMap, End.d, Global(Position(Activation(End))))
      /\ inputMap' = Put(inputMap, <<i, e + 1>>, Global(Position(Activation(End))))
      /\ UNCHANGED <<pc, design, start, i, sram, dsp, stagedMap, off>>
  BY DEF PlaceFlop, Placing
<1>2. /\ Activation(End) = [pin |-> End.d[1], inv |-> End.d[2], en |-> End.en]
      /\ Activation(End).pin # 0
  BY <1>1 DEF Activation
<1>3. Laid' /\ Grows(enables, enables') /\ Grows(lanes, lanes')
  BY <1>1, <1>2, EndHolds
<1>4. PICK p, g, act : /\ p = i /\ act = Activation(End) /\ g = Global(Position(Activation(End)))
                       /\ HoldsAct(p, g, act)'
  BY <1>1, <1>2, EndHolds
<1>5. PICK iv : iv = End.d
  OBVIOUS
<1>6. iv \in Latched \/ HasLogic(g, iv)'
  <2>1. CASE End.en = One
    <3>1. act = Logic(iv)
      BY <1>2, <1>4, <1>5, <2>1 DEF Logic
    <3>2. HoldsAct(p, g, Logic(iv))'
      BY <1>4, <3>1
    <3>3. QED
      BY <3>2, Zenon DEF HasLogic
  <2>2. CASE End.en # One
    <3>1. i \in DOMAIN design.parts /\ e + 1 \in DOMAIN Part.ends
      BY <1>1, EndIs
    <3>2. PICK x : x = <<i, e + 1>>
      OBVIOUS
    <3>3. EndAt(x) = End
      BY <3>2 DEF EndAt, End, Part
    <3>4. x \in Ends("dff")
      <4>1. x \in UNION {{q} \X DOMAIN design.parts[q].ends : q \in DOMAIN design.parts}
        BY <3>1, <3>2 DEF Part
      <4>2. QED
        BY <1>1, <3>3, <4>1 DEF Ends
    <3>5. QED
      BY <1>5, <2>2, <3>3, <3>4 DEF Latched
  <2>3. QED
    BY <2>1, <2>2
<1>7. outputMap' = Put(outputMap, iv, g) /\ inputMap' = Put(inputMap, <<i, e + 1>>, g)
  BY <1>1, <1>4, <1>5, Zenon
<1>8. /\ design'.parts[i'].ends[e'] = End /\ <<i', e'>> = <<i, e + 1>> /\ End.kind = "dff"
  BY <1>1, EndIs
<1>9. EndHeld(i, e)'
  <2>1. <<i', e'>> \in DOMAIN inputMap' /\ inputMap'[<<i', e'>>] = g
    BY <1>7, <1>8 DEF Put
  <2>2. HoldsAct(i, inputMap[<<i, e>>], Activation(design.parts[i].ends[e]))'
    BY <1>1, <1>4, <1>8, <2>1
  <2>3. QED
    BY <1>8, <2>1, <2>2 DEF EndHeld
<1>10. QED
  BY <1>1, <1>3, <1>6, <1>7, <1>9, PlacingKeeps

LEMMA ZeroFlopHeld ==
  ASSUME Laid, MapsHold, PlaceZeroFlop
  PROVE  MapsHold'
<1>1. /\ pc = "place" /\ e < Len(Part.ends) /\ End.kind = "dff" /\ End.d = <<0, 0>> /\ e' = e + 1
      /\ inputMap' = Put(inputMap, <<i, e + 1>>, ZeroPos)
      /\ UNCHANGED <<pc, design, start, i, placed, copies, sram, dsp, enables, lanes, stagedMap,
                 outputMap, off>>
  BY DEF PlaceZeroFlop, Placing
<1>2. /\ design'.parts[i'].ends[e'] = End /\ <<i', e'>> = <<i, e + 1>>
  BY <1>1, EndIs
<1>3. EndHeld(i, e)'
  BY <1>1, <1>2 DEF EndHeld
<1>4. Grows(enables, enables') /\ Grows(lanes, lanes')
  BY <1>1 DEF Grows
<1>5. QED
  BY <1>1, <1>3, <1>4, PlacingKeeps

LEMMA RamIsHeld ==
  ASSUME Laid, MapsHold, PlaceRam
  PROVE  MapsHold'
<1>1. /\ pc = "place" /\ e < Len(Part.ends) /\ End.kind = "ram" /\ e' = e + 1
      /\ inputMap' = Put(inputMap, <<i, e + 1>>, Global(SramWord * WordBits))
      /\ outputMap' = Put(outputMap, <<End.rd, 0>>, Global(SramWord * WordBits))
      /\ UNCHANGED <<pc, design, start, i, placed, copies, dsp, stagedMap, off>>
  BY DEF PlaceRam, Placing
<1>2. /\ Laid' /\ Grows(enables, enables') /\ Grows(lanes, lanes')
      /\ <<i, SramBit(Part, sram)>> \in DOMAIN enables'
      /\ enables'[<<i, SramBit(Part, sram)>>] = [gate |-> Query(Part, End.re), inv |-> 0]
      /\ <<i, SramLane(sram)>> \in DOMAIN lanes' /\ lanes'[<<i, SramLane(sram)>>] = Query(Part, End.a)
  BY RamKeeps
<1>3. /\ design'.parts[i'].ends[e'] = End /\ design'.parts[i'] = Part /\ e' - 1 = e /\ <<i', e'>> = <<i, e + 1>>
      /\ i \in DOMAIN design.parts /\ e + 1 \in DOMAIN Part.ends
  BY <1>1, EndIs
<1>4. SramWord * WordBits = SramBit(Part, sram)
  BY ModelAddresses DEF Laid
<1>5. PICK g, iv : g = Global(SramWord * WordBits) /\ iv = <<End.rd, 0>>
  OBVIOUS
<1>6. g = start'[i'] * W + SramBit(Part, sram)
  BY <1>1, <1>4, <1>5 DEF Global, W
<1>7. iv \in Latched
  <2>1. PICK x : x = <<i, e + 1>>
    OBVIOUS
  <2>2. EndAt(x) = End
    BY <2>1 DEF EndAt, End, Part
  <2>3. x \in Ends("ram")
    <3>1. x \in UNION {{q} \X DOMAIN design.parts[q].ends : q \in DOMAIN design.parts}
      BY <1>3, <2>1 DEF Part
    <3>2. QED
      BY <1>1, <2>2, <3>1 DEF Ends
  <2>4. QED
    BY <1>5, <2>2, <2>3 DEF Latched
<1>8. sram = Cardinality(UpTo(Part, "ram", e))
  BY <1>1, StepCounts
<1>9. PICK n : n = sram
  OBVIOUS
<1>10. <<i', e'>> \in DOMAIN inputMap' /\ inputMap'[<<i', e'>>] = g
  BY <1>1, <1>3, <1>5 DEF Put
<1>11. RamHeld(i, e, n)'
  <2>1. /\ inputMap'[<<i', e'>>] = start'[i'] * W + SramBit(design'.parts[i'], n)
        /\ <<i', SramBit(design'.parts[i'], n)>> \in DOMAIN enables'
        /\ enables'[<<i', SramBit(design'.parts[i'], n)>>] =
             [gate |-> Query(design'.parts[i'], design'.parts[i'].ends[e'].re), inv |-> 0]
        /\ <<i', SramLane(n)>> \in DOMAIN lanes'
        /\ lanes'[<<i', SramLane(n)>>] = Query(design'.parts[i'], design'.parts[i'].ends[e'].a)
    BY <1>1, <1>2, <1>3, <1>6, <1>9, <1>10, Zenon
  <2>2. QED
    BY <2>1, Zenon DEF RamHeld, W
<1>12. EndHeld(i, e)'
  <2>1. n = Cardinality(UpTo(design'.parts[i'], "ram", e' - 1))
    BY <1>3, <1>8, <1>9, Zenon
  <2>2. RamHeld(i, e, Cardinality(UpTo(design.parts[i], "ram", e - 1)))'
    BY <1>11, <2>1
  <2>3. QED
    BY <1>1, <1>3, <1>10, <2>2 DEF EndHeld
<1>13. QED
  <2>1. outputMap' = Put(outputMap, iv, g) /\ inputMap' = Put(inputMap, <<i, e + 1>>, g)
    BY <1>1, <1>5, Zenon
  <2>2. QED
    BY <1>1, <1>2, <1>7, <1>12, <2>1, PlacingKeeps

LEMMA DspIsHeld ==
  ASSUME Laid, MapsHold, PlaceDsp
  PROVE  MapsHold'
<1>1. /\ pc = "place" /\ e < Len(Part.ends) /\ End.kind = "dsp" /\ e' = e + 1
      /\ inputMap' = Put(inputMap, <<i, e + 1>>, Global(DspWord * WordBits))
      /\ UNCHANGED <<pc, design, start, i, placed, copies, sram, stagedMap, outputMap, off>>
  BY DEF PlaceDsp, Placing
<1>2. /\ Laid' /\ Grows(enables, enables') /\ Grows(lanes, lanes')
      /\ <<i, DspBit(Part, dsp)>> \in DOMAIN enables'
      /\ enables'[<<i, DspBit(Part, dsp)>>] = [gate |-> Query(Part, One), inv |-> 0]
      /\ <<i, DspLane(Part, dsp)>> \in DOMAIN lanes' /\ lanes'[<<i, DspLane(Part, dsp)>>] = Query(Part, End.a)
  BY DspKeeps
<1>3. /\ design'.parts[i'].ends[e'] = End /\ design'.parts[i'] = Part /\ e' - 1 = e /\ <<i', e'>> = <<i, e + 1>>
      /\ i \in DOMAIN design.parts /\ e + 1 \in DOMAIN Part.ends
  BY <1>1, EndIs
<1>4. DspWord * WordBits = DspBit(Part, dsp)
  BY ModelAddresses DEF Laid
<1>5. PICK g : g = Global(DspWord * WordBits)
  OBVIOUS
<1>6. g = start'[i'] * W + DspBit(Part, dsp)
  BY <1>1, <1>4, <1>5 DEF Global, W
<1>7. dsp = Cardinality(UpTo(Part, "dsp", e))
  BY <1>1, StepCounts
<1>8. PICK n : n = dsp
  OBVIOUS
<1>9. <<i', e'>> \in DOMAIN inputMap' /\ inputMap'[<<i', e'>>] = g
  BY <1>1, <1>3, <1>5 DEF Put
<1>10. DspHeld(i, e, n)'
  <2>1. /\ inputMap'[<<i', e'>>] = start'[i'] * W + DspBit(design'.parts[i'], n)
        /\ <<i', DspBit(design'.parts[i'], n)>> \in DOMAIN enables'
        /\ enables'[<<i', DspBit(design'.parts[i'], n)>>] =
             [gate |-> Query(design'.parts[i'], One), inv |-> 0]
        /\ <<i', DspLane(design'.parts[i'], n)>> \in DOMAIN lanes'
        /\ lanes'[<<i', DspLane(design'.parts[i'], n)>>] = Query(design'.parts[i'], design'.parts[i'].ends[e'].a)
    BY <1>1, <1>2, <1>3, <1>6, <1>8, <1>9, Zenon
  <2>2. QED
    BY <2>1, Zenon DEF DspHeld, W
<1>11. EndHeld(i, e)'
  <2>1. n = Cardinality(UpTo(design'.parts[i'], "dsp", e' - 1))
    BY <1>3, <1>7, <1>8, Zenon
  <2>2. DspHeld(i, e, Cardinality(UpTo(design.parts[i], "dsp", e - 1)))'
    BY <1>10, <2>1
  <2>3. QED
    BY <1>1, <1>3, <1>9, <2>2 DEF EndHeld
<1>12. QED
  <2>1. inputMap' = Put(inputMap, <<i, e + 1>>, g)
    BY <1>1, <1>5, Zenon
  <2>2. QED
    BY <1>1, <1>2, <1>11, <2>1, PlacingKeeps

LEMMA MapsStep ==
  ASSUME Laid, MapsHold, [Next]_vars
  PROVE  MapsHold'
<1>1. Laid' /\ Grows(enables, enables') /\ Grows(lanes, lanes') /\ design' = design
  BY LaidStep
<1>2. CASE ArrangeParts
  <2>1. /\ pc = "arrange" /\ pc' = "place" /\ i' = i /\ e' = e
        /\ UNCHANGED <<inputMap, stagedMap, outputMap>>
    BY <1>2 DEF ArrangeParts
  <2>2. inputMap = <<>> /\ stagedMap = <<>> /\ outputMap = <<>> /\ i = 1 /\ e = 0
    BY <2>1 DEF MapsHold, Laid, Begun
  <2>3. \A p, k : ~LaidOut(p, k)'
    <3>1. SUFFICES ASSUME NEW p, NEW k, LaidOut(p, k)' PROVE FALSE
      OBVIOUS
    <3>2. /\ p \in DOMAIN design.parts /\ k \in DOMAIN design.parts[p].ends
          /\ p < 1 \/ (p = 1 /\ k <= 0)
      BY <1>1, <2>1, <2>2, <3>1 DEF LaidOut
    <3>3. p \in 1 .. Len(design.parts) /\ GoodPart(design.parts[p])
      BY <3>2, PartsAreGood, DesignAssumption DEF Laid, Shape
    <3>4. k \in 1 .. Len(design.parts[p].ends)
      BY <3>2, <3>3 DEF GoodPart
    <3>5. QED
      BY <3>2, <3>3, <3>4
  <2>4. DOMAIN stagedMap' = {} /\ DOMAIN outputMap' = {}
    BY <2>1, <2>2, EmptyPlaced, Zenon
  <2>5. QED
    BY <2>1, <2>3, <2>4, Zenon DEF MapsHold
<1>3. CASE PlaceOutput
  BY <1>3, OutputHeld
<1>4. CASE PlaceStagedPin
  BY <1>4, StagedPinHeld
<1>5. CASE PlaceFlop
  BY <1>5, FlopHeld
<1>6. CASE PlaceZeroFlop
  BY <1>6, ZeroFlopHeld
<1>7. CASE PlaceRam
  BY <1>7, RamIsHeld
<1>8. CASE PlaceDsp
  BY <1>8, DspIsHeld
<1>9. CASE RefuseConstant \/ AllocState \/ UNCHANGED vars
  <2>1. UNCHANGED <<start, i, e, inputMap, stagedMap, outputMap>> /\ (pc' = "arrange" => pc = "arrange")
    BY <1>9 DEF RefuseConstant, AllocState, vars
  <2>2. \A p, k : LaidOut(p, k)' => LaidOut(p, k)
    BY <1>1, <2>1 DEF LaidOut
  <2>3. QED
    BY <1>1, <2>1, <2>2, MapsStay
<1>10. CASE EndPart
  <2>1. /\ UNCHANGED <<start, inputMap, stagedMap, outputMap>> /\ pc = "place" /\ pc' # "arrange"
        /\ e = Len(Part.ends)
        /\ (i' = i /\ e' = e) \/ (i' = i + 1 /\ e' = 0)
    BY <1>10 DEF EndPart
  <2>2. ASSUME NEW p, NEW k, LaidOut(p, k)' PROVE LaidOut(p, k)
    <3>1. /\ p \in DOMAIN design.parts /\ k \in DOMAIN design.parts[p].ends
          /\ p < i' \/ (p = i' /\ k <= e')
      BY <1>1, <2>2 DEF LaidOut
    <3>2. design \in Designs /\ p \in Nat /\ i \in Nat
      BY <3>1, DesignAssumption DEF Laid, Shape
    <3>3. DOMAIN design.parts[p].ends = 1 .. Len(design.parts[p].ends) /\ Len(design.parts[p].ends) \in Nat
      BY <3>1, <3>2, PartsAreGood DEF GoodPart
    <3>4. p = i => k <= e
      BY <2>1, <3>1, <3>3 DEF Part
    <3>5. p < i \/ p = i
      BY <2>1, <3>1, <3>2, <3>3
    <3>6. QED
      BY <3>1, <3>4, <3>5 DEF LaidOut
  <2>3. QED
    BY <1>1, <2>1, <2>2, MapsStay
<1>11. QED
  BY <1>2, <1>3, <1>4, <1>5, <1>6, <1>7, <1>8, <1>9, <1>10 DEF Next

LEMMA MapsInit ==
  ASSUME Init
  PROVE  MapsHold
<1>1. /\ design \in Designs /\ i = 1 /\ e = 0 /\ inputMap = <<>> /\ stagedMap = <<>> /\ outputMap = <<>>
  BY DEF Init
<1>2. ASSUME NEW p, NEW k, LaidOut(p, k) PROVE FALSE
  <2>1. /\ p \in DOMAIN design.parts /\ k \in DOMAIN design.parts[p].ends
        /\ p < 1 \/ (p = 1 /\ k <= 0)
    BY <1>1, <1>2 DEF LaidOut
  <2>2. p \in 1 .. Len(design.parts) /\ GoodPart(design.parts[p])
    BY <1>1, <2>1, PartsAreGood, DesignAssumption
  <2>3. k \in 1 .. Len(design.parts[p].ends)
    BY <2>1, <2>2 DEF GoodPart
  <2>4. QED
    BY <2>1, <2>2, <2>3
<1>3. DOMAIN stagedMap = {} /\ DOMAIN outputMap = {}
  BY <1>1, EmptyPlaced, Zenon
<1>4. QED
  BY <1>1, <1>2, <1>3, Zenon DEF MapsHold

\* Every endpoint laid out so far is found where it is (flatten.rs:391-595).
THEOREM MapsAreHeld == Spec => []MapsHold
<1>1. Init => MapsHold
  BY MapsInit
<1>2. Laid /\ MapsHold /\ [Next]_vars => MapsHold'
  BY MapsStep
<1>3. QED
  BY <1>1, <1>2, LaidHolds, PTL DEF Spec

-----------------------------------------------------------------------------
(* What the kernel commits at the end is what is read.                     *)

LEMMA HeldIsCommitted ==
  ASSUME design \in Designs, NEW p, NEW g, NEW act, HoldsAct(p, g, act), start[p] \in Nat
  PROVE  Commits(p, g) = [value |-> <<"pin", act.pin, act.inv>>, gate |-> AsLiteral(act.en)]
<1>1. PICK pos : At(p, pos, act) /\ g = start[p] * W + pos
  BY DEF HoldsAct
<1>2. PICK first \in Nat : start[p] = first
  OBVIOUS
<1>3. p \in DOMAIN design.parts /\ act \in ActType(design.parts[p]) /\ act.pin # 0
  BY DEF HoldsAct
<1>4. Commits(p, first * W + pos) = [value |-> <<"pin", act.pin, act.inv>>, gate |-> AsLiteral(act.en)]
  BY <1>1, <1>2, <1>3, CommitsAt
<1>5. g = first * W + pos
  BY <1>1, <1>2
<1>6. QED
  BY <1>4, <1>5

\* The kinds of endpoints, by partition and number.
LEMMA EndsAre ==
  ASSUME NEW kind, NEW x \in Ends(kind)
  PROVE  \E p, k :
           /\ p \in DOMAIN design.parts /\ k \in DOMAIN design.parts[p].ends
           /\ x = <<p, k>> /\ EndAt(x) = design.parts[p].ends[k] /\ design.parts[p].ends[k].kind = kind
<1>1. PICK p \in DOMAIN design.parts : x \in {p} \X DOMAIN design.parts[p].ends
  BY DEF Ends
<1>2. PICK k \in DOMAIN design.parts[p].ends : x = <<p, k>>
  BY <1>1
<1>3. EndAt(x) = design.parts[p].ends[k] /\ EndAt(x).kind = kind
  BY <1>2 DEF EndAt, Ends
<1>4. QED
  BY <1>2, <1>3

LEMMA AllLaidOut ==
  ASSUME Laid, MapsHold, pc = "done", NEW p \in DOMAIN design.parts, NEW k \in DOMAIN design.parts[p].ends
  PROVE  EndHeld(p, k)
<1>1. i = Len(design.parts) /\ e = Len(design.parts[i].ends) /\ design \in Designs
  BY DEF Laid, Shape, Part
<1>2. p \in 1 .. Len(design.parts) /\ Len(design.parts) \in Nat /\ GoodPart(design.parts[p])
  BY <1>1, PartsAreGood, DesignAssumption
<1>3. k \in 1 .. Len(design.parts[p].ends) /\ Len(design.parts[p].ends) \in Nat
  BY <1>2 DEF GoodPart
<1>4. p < i \/ (p = i /\ k <= e)
  BY <1>1, <1>2, <1>3
<1>5. QED
  BY <1>4 DEF MapsHold, LaidOut

LEMMA StartsAreNat ==
  ASSUME Laid, Started, pc = "done", NEW p \in DOMAIN design.parts
  PROVE  start[p] \in Nat
<1>1. Cardinality(WordsBefore(p)) \in Nat
  BY WordsBeforeAreFinite DEF Laid, Shape
<1>2. start[p] = StatesStart + Cardinality(WordsBefore(p))
  BY DEF Started
<1>3. QED
  BY <1>1, <1>2, SizeAssumption DEF StatesStart, ZeroWord

LEMMA LogicIsShown ==
  ASSUME Laid, Started, pc = "done", NEW g, NEW iv, HasLogic(g, iv)
  PROVE  HoldsLogic(g, iv)
<1>1. PICK p : HoldsAct(p, g, Logic(iv))
  BY DEF HasLogic
<1>2. p \in DOMAIN design.parts
  BY <1>1 DEF HoldsAct
<1>3. Commits(p, g) = [value |-> <<"pin", Logic(iv).pin, Logic(iv).inv>>, gate |-> AsLiteral(Logic(iv).en)]
  BY <1>1, <1>2, StartsAreNat, HeldIsCommitted DEF Laid, Shape
<1>4. Commits(p, g) = [value |-> AsLiteral(iv), gate |-> AsLiteral(One)]
  BY <1>3 DEF Logic, AsLiteral
<1>5. QED
  BY <1>2, <1>4 DEF HoldsLogic

\* A flip-flop or a staged pin is read from where exactly its input is committed, in its
\* polarity and under its own enable (flatten.rs:391-433, 495-511, 565-595 against
\* kernel_v1_impl.cuh:476-616).
THEOREM FlopsAreCommitted == Spec => []FlopsCommitted
<1>1. Laid /\ Started /\ MapsHold => FlopsCommitted
  <2> SUFFICES ASSUME Laid, Started, MapsHold, pc = "done"
               PROVE  /\ \A x \in Ends("dff") :
                           EndAt(x).d[1] # 0 =>
                             Commits(x[1], inputMap[x]) = [value |-> AsLiteral(EndAt(x).d), gate |-> AsLiteral(EndAt(x).en)]
                      /\ \A x \in Ends("io") : HoldsLogic(stagedMap[EndAt(x).iv], EndAt(x).iv)
    BY DEF FlopsCommitted
  <2>1. ASSUME NEW x \in Ends("dff"), EndAt(x).d[1] # 0
        PROVE  Commits(x[1], inputMap[x]) = [value |-> AsLiteral(EndAt(x).d), gate |-> AsLiteral(EndAt(x).en)]
    <3>1. PICK p, k :
            /\ p \in DOMAIN design.parts /\ k \in DOMAIN design.parts[p].ends
            /\ x = <<p, k>> /\ EndAt(x) = design.parts[p].ends[k] /\ design.parts[p].ends[k].kind = "dff"
      BY EndsAre
    <3>2. HoldsAct(p, inputMap[x], Activation(EndAt(x)))
      BY <2>1, <3>1, AllLaidOut DEF EndHeld
    <3>3. Activation(EndAt(x)) = [pin |-> EndAt(x).d[1], inv |-> EndAt(x).d[2], en |-> EndAt(x).en]
      BY <3>1 DEF Activation
    <3>4. PICK act : act = Activation(EndAt(x))
      OBVIOUS
    <3>5. Commits(p, inputMap[x]) = [value |-> <<"pin", act.pin, act.inv>>, gate |-> AsLiteral(act.en)]
      <4>1. HoldsAct(p, inputMap[x], act) /\ start[p] \in Nat /\ design \in Designs
        BY <3>1, <3>2, <3>4, StartsAreNat DEF Laid, Shape
      <4>2. QED
        BY <4>1, HeldIsCommitted
    <3>6. x[1] = p
      BY <3>1
    <3>7. QED
      BY <3>3, <3>4, <3>5, <3>6 DEF AsLiteral
  <2>2. ASSUME NEW x \in Ends("io") PROVE HoldsLogic(stagedMap[EndAt(x).iv], EndAt(x).iv)
    <3>1. PICK p, k :
            /\ p \in DOMAIN design.parts /\ k \in DOMAIN design.parts[p].ends
            /\ x = <<p, k>> /\ EndAt(x) = design.parts[p].ends[k] /\ design.parts[p].ends[k].kind = "io"
      BY EndsAre
    <3>2. EndAt(x).iv \in DOMAIN stagedMap
      BY <3>1, AllLaidOut DEF EndHeld
    <3>3. HasLogic(stagedMap[EndAt(x).iv], EndAt(x).iv)
      BY <3>2, Zenon DEF MapsHold
    <3>4. QED
      BY <3>3, LogicIsShown
  <2>3. QED
    BY <2>1, <2>2
<1>2. QED
  BY <1>1, StartsAreKept, LaidHolds, MapsAreHeld, PTL

\* A primary output is read from where its literal is committed in every cycle, unless a
\* gated flip-flop or an SRAM registers the same literal (flatten.rs:495-502).
THEOREM OutputsAreCommitted == Spec => []OutputsCommitted
<1>1. Laid /\ Started /\ MapsHold => OutputsCommitted
  <2> SUFFICES ASSUME Laid, Started, MapsHold, pc = "done", NEW x \in Ends("po")
               PROVE  EndAt(x).iv \in Latched \/ ShowsLogic(x)
    BY DEF OutputsCommitted
  <2>1. PICK p, k :
          /\ p \in DOMAIN design.parts /\ k \in DOMAIN design.parts[p].ends
          /\ x = <<p, k>> /\ EndAt(x) = design.parts[p].ends[k] /\ design.parts[p].ends[k].kind = "po"
    BY EndsAre
  <2>2. EndAt(x).iv \in DOMAIN outputMap
    BY <2>1, AllLaidOut DEF EndHeld
  <2>3. EndAt(x).iv \in Latched \/ HasLogic(outputMap[EndAt(x).iv], EndAt(x).iv)
    BY <2>2, Zenon DEF MapsHold
  <2>4. QED
    BY <2>3, LogicIsShown DEF ShowsLogic
<1>2. QED
  BY <1>1, StartsAreKept, LaidHolds, MapsAreHeld, PTL

LEMMA IndexIs ==
  ASSUME design \in Designs, NEW p \in DOMAIN design.parts, NEW k \in DOMAIN design.parts[p].ends,
         NEW kind, design.parts[p].ends[k].kind = kind
  PROVE  /\ IndexOf(<<p, k>>) = Cardinality(UpTo(design.parts[p], kind, k - 1))
         /\ IndexOf(<<p, k>>) \in 0 .. Cardinality(Of(design.parts[p], {kind})) - 1
<1> DEFINE part == design.parts[p]
           U == UpTo(part, kind, k - 1)
           Y == {y \in Ends(kind) : y[1] = p /\ y[2] < k}
           f == [j \in U |-> <<p, j>>]
<1>1. GoodPart(part) /\ DOMAIN part.ends = 1 .. Len(part.ends) /\ Len(part.ends) \in Nat
  BY PartsAreGood DEF GoodPart
<1>2. k \in Nat /\ k - 1 \in 0 .. Len(part.ends) /\ k - 1 < Len(part.ends) /\ (k - 1) + 1 = k
  BY <1>1
<1>3. IsFiniteSet(U) /\ Cardinality(U) \in Nat /\ Cardinality(U) < Cardinality(Of(part, {kind}))
  <2>1. part.ends[(k - 1) + 1].kind = kind
    BY <1>2
  <2>2. QED
    BY <1>1, <1>2, <2>1, UpToCounts
<1>4. Y = {<<p, j>> : j \in U}
  <2>1. ASSUME NEW y \in Y PROVE \E j \in U : y = <<p, j>>
    <3>1. PICK q, j :
            /\ q \in DOMAIN design.parts /\ j \in DOMAIN design.parts[q].ends
            /\ y = <<q, j>> /\ design.parts[q].ends[j].kind = kind
      BY EndsAre
    <3>2. q = p /\ j < k /\ j \in Nat
      BY <1>1, <3>1
    <3>3. j \in U
      BY <1>2, <3>1, <3>2 DEF UpTo, Of
    <3>4. QED
      BY <3>1, <3>2, <3>3
  <2>2. ASSUME NEW j \in U PROVE <<p, j>> \in Y
    <3>1. j \in DOMAIN part.ends /\ part.ends[j].kind = kind /\ j <= k - 1
      BY DEF UpTo, Of
    <3>2. j < k
      BY <1>1, <1>2, <3>1
    <3>3. <<p, j>> \in UNION {{q} \X DOMAIN design.parts[q].ends : q \in DOMAIN design.parts}
      BY <3>1
    <3>4. EndAt(<<p, j>>).kind = kind
      BY <3>1 DEF EndAt
    <3>5. QED
      BY <3>2, <3>3, <3>4 DEF Ends
  <2>3. QED
    BY <2>1, <2>2
<1>5. f \in Bijection(U, Y)
  <2>1. f \in [U -> Y]
    BY <1>4
  <2>2. \A a, b \in U : f[a] = f[b] => a = b
    OBVIOUS
  <2>3. \A y \in Y : \E a \in U : f[a] = y
    BY <1>4
  <2>4. QED
    <3> HIDE DEF U, Y, f
    <3> QED BY <2>1, <2>2, <2>3 DEF Bijection, Injection, Surjection, IsInjective
<1>6. Cardinality(Y) = Cardinality(U)
  <2> HIDE DEF U, Y, f
  <2> QED BY <1>3, <1>5, FS_Bijection DEF ExistsBijection
<1>7. IndexOf(<<p, k>>) = Cardinality(Y)
  BY DEF IndexOf, EndAt
<1>8. Cardinality(Of(part, {kind})) \in Nat
  BY <1>1, EndsAreFinite
<1>9. QED
  <2>1. IndexOf(<<p, k>>) = Cardinality(U)
    BY <1>6, <1>7, Zenon
  <2>2. Cardinality(U) \in 0 .. Cardinality(Of(part, {kind})) - 1
    <3> HIDE DEF U
    <3> QED BY <1>3, <1>8
  <2>3. QED
    BY <2>1, <2>2, Zenon

\* A position within the words of the SRAMs or of the DSPs.
LEMMA MemoryComputed ==
  ASSUME design \in Designs, NEW p \in DOMAIN design.parts, NEW n \in Nat
  PROVE  /\ n < Srams(design.parts[p]) =>
              /\ SramBit(design.parts[p], n) \in Nat
              /\ Computed(p, SramBit(design.parts[p], n)) = <<"ram", n * W, 0>>
         /\ n < Dsps(design.parts[p]) =>
              /\ DspBit(design.parts[p], n) \in Nat
              /\ Computed(p, DspBit(design.parts[p], n)) = <<"dsp", 2 * n * W, 0>>
<1> DEFINE part == design.parts[p]
<1>1. /\ GoodPart(part) /\ DspAt(p) \in Nat /\ CopyAt(p) \in Nat /\ SramAt(p) \in Nat
      /\ DspAt(p) = NormalWords(part)
      /\ CopyAt(p) = DspAt(p) + 2 * Dsps(part)
      /\ SramAt(p) = CopyAt(p) + CopyWords(part)
  BY KernelWords
<1>2. CopyWords(part) \in Nat /\ Srams(part) \in Nat /\ Dsps(part) \in Nat
  BY <1>1, PartSizes
<1>3. \A a \in Nat : (a * W) \div W = a /\ a * W \in Nat
  <2>1. SUFFICES ASSUME NEW a \in Nat PROVE (a * W) \div W = a /\ a * W \in Nat
    OBVIOUS
  <2>2. a * W \in Nat
    BY WordsAreBits
  <2>3. a + 1 \in Nat /\ a < a + 1 /\ a <= a
    OBVIOUS
  <2>4. a * W < (a + 1) * W
    BY <2>3, FewerWords, Zenon
  <2>5. (a * W) \div W \in a .. (a + 1) - 1
    <3>1. PICK b \in Nat : b = a * W /\ b < (a + 1) * W
      BY <2>2, <2>4
    <3>2. a * W <= b
      BY <3>1
    <3>3. b \div W \in a .. (a + 1) - 1
      BY <2>3, <3>1, <3>2, WordOf
    <3>4. QED
      BY <3>1, <3>3
  <2>6. QED
    BY <2>2, <2>5
<1>4. ASSUME n < Srams(part)
      PROVE  /\ SramBit(part, n) \in Nat
             /\ Computed(p, SramBit(part, n)) = <<"ram", n * W, 0>>
  <2>1. PICK w \in Nat, pos \in Nat : w = SramAt(p) + n /\ pos = w * W /\ pos \div W = w
    <3>1. SramAt(p) + n \in Nat
      BY <1>1
    <3>2. QED
      BY <1>3, <3>1
  <2>2. SramBit(part, n) = pos
    <3>1. SramsAt(part) = SramAt(p)
      BY <1>1 DEF SramsAt, CopiesAt, DspWords
    <3>2. QED
      BY <2>1, <3>1 DEF SramBit
  <2>3. pos - SramAt(p) * W = n * W
    <3>1. SramAt(p) \in Int /\ n \in Int
      BY <1>1
    <3>2. (SramAt(p) + n) * W = SramAt(p) * W + n * W /\ SramAt(p) * W \in Int /\ n * W \in Int
      BY <3>1, PlusWords, WordsAreBits, Zenon
    <3>3. QED
      BY <2>1, <3>2
  <2>4. pos \div WordBits >= SramAt(p)
    BY <1>1, <2>1 DEF W
  <2>5. Computed(p, pos) = <<"ram", pos - SramAt(p) * WordBits, 0>>
    BY <2>4, Zenon DEF Computed
  <2>6. QED
    BY <2>2, <2>3, <2>5 DEF W
<1>5. ASSUME n < Dsps(part)
      PROVE  /\ DspBit(part, n) \in Nat
             /\ Computed(p, DspBit(part, n)) = <<"dsp", 2 * n * W, 0>>
  <2>1. PICK w \in Nat, pos \in Nat : w = DspAt(p) + 2 * n /\ pos = w * W /\ pos \div W = w
    <3>1. DspAt(p) + 2 * n \in Nat
      BY <1>1
    <3>2. QED
      BY <1>3, <3>1
  <2>2. DspBit(part, n) = pos
    BY <1>1, <2>1 DEF DspBit, DspWords
  <2>3. pos - DspAt(p) * W = 2 * n * W
    <3>1. DspAt(p) \in Int /\ 2 * n \in Int
      BY <1>1
    <3>2. (DspAt(p) + 2 * n) * W = DspAt(p) * W + 2 * n * W /\ DspAt(p) * W \in Int /\ 2 * n * W \in Int
      BY <3>1, PlusWords, WordsAreBits, Zenon
    <3>3. QED
      BY <2>1, <3>2
  <2>4. /\ ~(pos \div WordBits >= SramAt(p)) /\ ~(pos \div WordBits >= CopyAt(p))
        /\ pos \div WordBits >= DspAt(p)
    BY <1>1, <1>2, <1>5, <2>1 DEF W
  <2>5. Computed(p, pos) = <<"dsp", pos - DspAt(p) * WordBits, 0>>
    BY <2>4, Zenon DEF Computed
  <2>6. QED
    BY <2>2, <2>3, <2>5 DEF W
<1>6. QED
  BY <1>4, <1>5

\* A bit that is filled without inversion is committed as computed.
LEMMA CommitsPlain ==
  ASSUME design \in Designs, NEW p \in DOMAIN design.parts, start[p] \in Nat, NEW pos \in Nat,
         NEW iv \in Literals(design.parts[p]), NEW kind, NEW n,
         <<p, pos>> \in DOMAIN enables, enables[<<p, pos>>] = [gate |-> Query(design.parts[p], iv), inv |-> 0],
         Computed(p, pos) = <<kind, n, 0>>
  PROVE  Commits(p, start[p] * W + pos) = [value |-> <<kind, n, 0>>, gate |-> AsLiteral(iv)]
<1>1. (start[p] * W + pos) - start[p] * WordBits = pos
  <2>1. start[p] * W \in Nat
    BY WordsAreBits
  <2>2. QED
    BY <2>1 DEF W
<1>2. PICK en, c : en = enables[<<p, pos>>] /\ c = Computed(p, pos)
  OBVIOUS
<1>3. Commits(p, start[p] * W + pos) =
        [value |-> <<c[1], c[2], (c[3] + en.inv) % 2>>, gate |-> Literal(p, en.gate)]
  BY <1>1, <1>2, Zenon DEF Commits
<1>4. Literal(p, en.gate) = AsLiteral(iv)
  BY <1>2, ReadsLiteral
<1>5. c[1] = kind /\ c[2] = n /\ (c[3] + en.inv) % 2 = 0
  BY <1>2
<1>6. QED
  BY <1>3, <1>4, <1>5, Zenon

\* An SRAM's read data and a DSP's result are read from the words that hold those of that
\* SRAM or DSP, and its inputs come by its own lanes (flatten.rs:446-483, 512-563).
THEOREM MemoriesAreCommitted == Spec => []MemoriesCommitted
<1>1. Laid /\ Started /\ MapsHold => MemoriesCommitted
  <2> SUFFICES ASSUME Laid, Started, MapsHold, pc = "done"
               PROVE  MemoriesCommitted
    BY DEF MemoriesCommitted
  <2>1. design \in Designs
    BY DEF Laid, Shape
  <2>2. ASSUME NEW x \in Ends("ram")
        PROVE  /\ Commits(x[1], inputMap[x]) = [value |-> <<"ram", IndexOf(x) * WordBits, 0>>, gate |-> AsLiteral(EndAt(x).re)]
               /\ Gathered(x[1], 4 * IndexOf(x) * WordBits) = AsLiteral(EndAt(x).a)
    <3>1. PICK p, k :
            /\ p \in DOMAIN design.parts /\ k \in DOMAIN design.parts[p].ends
            /\ x = <<p, k>> /\ EndAt(x) = design.parts[p].ends[k] /\ design.parts[p].ends[k].kind = "ram"
      BY EndsAre
    <3>2. /\ IndexOf(<<p, k>>) = Cardinality(UpTo(design.parts[p], "ram", k - 1))
          /\ IndexOf(<<p, k>>) \in 0 .. Cardinality(Of(design.parts[p], {"ram"})) - 1
      BY <2>1, <3>1, IndexIs
    <3>3. PICK n \in Nat : n = IndexOf(x) /\ n < Srams(design.parts[p])
      <4>1. Srams(design.parts[p]) \in Nat
        BY <2>1, <3>1, SizesAreNat, PartSizes
      <4>2. QED
        BY <3>1, <3>2, <4>1 DEF Srams
    <3>4. RamHeld(p, k, n)
      <4>1. EndHeld(p, k)
        BY <3>1, AllLaidOut
      <4>2. RamHeld(p, k, Cardinality(UpTo(design.parts[p], "ram", k - 1)))
        BY <3>1, <4>1, Zenon DEF EndHeld
      <4>3. QED
        BY <3>1, <3>2, <3>3, <4>2
    <3>5. EndAt(x).re \in Literals(design.parts[p]) /\ EndAt(x).a \in Literals(design.parts[p])
      BY <2>1, <3>1, PartsAreGood, EndTypes
    <3>6. PICK pos \in Nat : pos = SramBit(design.parts[p], n) /\ Computed(p, pos) = <<"ram", n * W, 0>>
      BY <2>1, <3>1, <3>3, MemoryComputed
    <3>7. /\ inputMap[x] = start[p] * W + pos /\ <<p, pos>> \in DOMAIN enables
          /\ enables[<<p, pos>>] = [gate |-> Query(design.parts[p], EndAt(x).re), inv |-> 0]
          /\ <<p, SramLane(n)>> \in DOMAIN lanes
          /\ lanes[<<p, SramLane(n)>>] = Query(design.parts[p], EndAt(x).a)
      BY <3>1, <3>4, <3>6 DEF RamHeld
    <3>8. start[p] \in Nat
      BY <3>1, StartsAreNat
    <3>9. Commits(p, start[p] * W + pos) = [value |-> <<"ram", n * W, 0>>, gate |-> AsLiteral(EndAt(x).re)]
      BY <2>1, <3>1, <3>5, <3>6, <3>7, <3>8, CommitsPlain
    <3>10. Gathered(p, SramLane(n)) = AsLiteral(EndAt(x).a)
      BY <2>1, <3>1, <3>5, <3>7, ReadsLiteral DEF Gathered
    <3>11. x[1] = p /\ SramLane(n) = 4 * IndexOf(x) * WordBits /\ n * W = IndexOf(x) * WordBits
      BY <3>1, <3>3 DEF SramLane, W
    <3>12. QED
      BY <3>7, <3>9, <3>10, <3>11, Zenon
  <2>3. ASSUME NEW x \in Ends("dsp")
        PROVE  /\ Commits(x[1], inputMap[x]) = [value |-> <<"dsp", 2 * IndexOf(x) * WordBits, 0>>, gate |-> AsLiteral(One)]
               /\ Gathered(x[1], (4 * Srams(design.parts[x[1]]) + 4 * IndexOf(x)) * WordBits) = AsLiteral(EndAt(x).a)
    <3>1. PICK p, k :
            /\ p \in DOMAIN design.parts /\ k \in DOMAIN design.parts[p].ends
            /\ x = <<p, k>> /\ EndAt(x) = design.parts[p].ends[k] /\ design.parts[p].ends[k].kind = "dsp"
      BY EndsAre
    <3>2. /\ IndexOf(<<p, k>>) = Cardinality(UpTo(design.parts[p], "dsp", k - 1))
          /\ IndexOf(<<p, k>>) \in 0 .. Cardinality(Of(design.parts[p], {"dsp"})) - 1
      BY <2>1, <3>1, IndexIs
    <3>3. PICK n \in Nat : n = IndexOf(x) /\ n < Dsps(design.parts[p])
      <4>1. Dsps(design.parts[p]) \in Nat
        BY <2>1, <3>1, SizesAreNat, PartSizes
      <4>2. QED
        BY <3>1, <3>2, <4>1 DEF Dsps
    <3>4. DspHeld(p, k, n)
      <4>1. EndHeld(p, k)
        BY <3>1, AllLaidOut
      <4>2. DspHeld(p, k, Cardinality(UpTo(design.parts[p], "dsp", k - 1)))
        BY <3>1, <4>1, Zenon DEF EndHeld
      <4>3. QED
        BY <3>1, <3>2, <3>3, <4>2
    <3>5. One \in Literals(design.parts[p]) /\ EndAt(x).a \in Literals(design.parts[p])
      BY <2>1, <3>1, PartsAreGood, EndTypes, OneIsLiteral
    <3>6. PICK pos \in Nat : pos = DspBit(design.parts[p], n) /\ Computed(p, pos) = <<"dsp", 2 * n * W, 0>>
      BY <2>1, <3>1, <3>3, MemoryComputed
    <3>7. /\ inputMap[x] = start[p] * W + pos /\ <<p, pos>> \in DOMAIN enables
          /\ enables[<<p, pos>>] = [gate |-> Query(design.parts[p], One), inv |-> 0]
          /\ <<p, DspLane(design.parts[p], n)>> \in DOMAIN lanes
          /\ lanes[<<p, DspLane(design.parts[p], n)>>] = Query(design.parts[p], EndAt(x).a)
      BY <3>1, <3>4, <3>6 DEF DspHeld
    <3>8. start[p] \in Nat
      BY <3>1, StartsAreNat
    <3>9. Commits(p, start[p] * W + pos) = [value |-> <<"dsp", 2 * n * W, 0>>, gate |-> AsLiteral(One)]
      BY <2>1, <3>1, <3>5, <3>6, <3>7, <3>8, CommitsPlain
    <3>10. Gathered(p, DspLane(design.parts[p], n)) = AsLiteral(EndAt(x).a)
      BY <2>1, <3>1, <3>5, <3>7, ReadsLiteral DEF Gathered
    <3>11. /\ x[1] = p /\ DspLane(design.parts[p], n) = (4 * Srams(design.parts[p]) + 4 * IndexOf(x)) * WordBits
           /\ 2 * n * W = 2 * IndexOf(x) * WordBits
      BY <3>1, <3>3 DEF DspLane, W
    <3>12. QED
      BY <3>7, <3>9, <3>10, <3>11, Zenon
  <2>4. QED
    BY <2>2, <2>3 DEF MemoriesCommitted
<1>2. QED
  BY <1>1, StartsAreKept, LaidHolds, MapsAreHeld, PTL

-----------------------------------------------------------------------------
(* State kept with the SRAMs.                                              *)

LEMMA StatefulAre ==
  ASSUME design \in Designs, NEW x \in Stateful
  PROVE  \/ \E p, k :
              /\ p \in DOMAIN design.parts /\ k \in DOMAIN design.parts[p].ends
              /\ x = <<p, k>> /\ design.parts[p].ends[k].kind = "dsp"
              /\ p \in Nat \ {0} /\ k \in Nat \ {0} /\ x \in Ends("dsp")
         \/ \E n \in 1 .. design.srls : x = <<0, n>>
<1>1. CASE x \in Ends("dsp")
  <2>1. PICK p, k :
          /\ p \in DOMAIN design.parts /\ k \in DOMAIN design.parts[p].ends
          /\ x = <<p, k>> /\ EndAt(x) = design.parts[p].ends[k] /\ design.parts[p].ends[k].kind = "dsp"
    BY <1>1, EndsAre
  <2>2. p \in 1 .. Len(design.parts) /\ Len(design.parts) \in Nat /\ GoodPart(design.parts[p])
    BY <2>1, PartsAreGood, DesignAssumption
  <2>3. k \in 1 .. Len(design.parts[p].ends) /\ Len(design.parts[p].ends) \in Nat
    BY <2>1, <2>2 DEF GoodPart
  <2>4. QED
    BY <1>1, <2>1, <2>2, <2>3
<1>2. CASE x \notin Ends("dsp")
  BY <1>2 DEF Stateful
<1>3. QED
  BY <1>1, <1>2

LEMMA AllocatedOrders ==
  ASSUME design \in Designs
  PROVE  /\ \A x \in Stateful : ~AllocatedBefore(x, x)
         /\ \A x, y \in Stateful : x # y => AllocatedBefore(x, y) \/ AllocatedBefore(y, x)
         /\ \A x, y, z \in Stateful : AllocatedBefore(x, y) /\ AllocatedBefore(y, z) => AllocatedBefore(x, z)
<1>1. ASSUME NEW x \in Stateful
      PROVE  /\ x = <<x[1], x[2]>> /\ x[1] \in Nat /\ x[2] \in Nat
             /\ x[1] # 0 => x[1] \in DOMAIN design.parts
  <2>1. CASE \E p, k : /\ p \in DOMAIN design.parts /\ x = <<p, k>> /\ p \in Nat \ {0} /\ k \in Nat \ {0}
    BY <2>1
  <2>2. CASE \E n \in 1 .. design.srls : x = <<0, n>>
    BY <2>2, DesignAssumption
  <2>3. QED
    BY <2>1, <2>2, StatefulAre
<1>2. /\ \A p \in DOMAIN design.parts : ~Earlier(p, p)
      /\ \A p, q \in DOMAIN design.parts : p # q => Earlier(p, q) \/ Earlier(q, p)
      /\ \A p, q, r \in DOMAIN design.parts : Earlier(p, q) /\ Earlier(q, r) => Earlier(p, r)
  BY EarlierOrders
<1>3. \A x \in Stateful : ~AllocatedBefore(x, x)
  BY <1>1, <1>2 DEF AllocatedBefore
<1>4. ASSUME NEW x \in Stateful, NEW y \in Stateful, x # y
      PROVE  AllocatedBefore(x, y) \/ AllocatedBefore(y, x)
  <2>1. x[1] # y[1] \/ x[2] # y[2]
    BY <1>1, <1>4
  <2>2. CASE x[1] = y[1]
    BY <1>1, <2>1, <2>2 DEF AllocatedBefore
  <2>3. CASE x[1] # y[1]
    BY <1>1, <1>2, <2>3 DEF AllocatedBefore
  <2>4. QED
    BY <2>2, <2>3
<1>5. ASSUME NEW x \in Stateful, NEW y \in Stateful, NEW z \in Stateful,
             AllocatedBefore(x, y), AllocatedBefore(y, z)
      PROVE  AllocatedBefore(x, z)
  <2>1. CASE x[1] = 0 \/ y[1] = 0 \/ z[1] = 0
    BY <1>1, <1>5, <2>1 DEF AllocatedBefore
  <2>2. CASE x[1] # 0 /\ y[1] # 0 /\ z[1] # 0
    <3>1. /\ x[1] \in DOMAIN design.parts /\ y[1] \in DOMAIN design.parts /\ z[1] \in DOMAIN design.parts
          /\ x[2] \in Nat /\ y[2] \in Nat /\ z[2] \in Nat
      BY <1>1, <2>2
    <3>2. Earlier(x[1], y[1]) \/ (x[1] = y[1] /\ x[2] < y[2])
      BY <1>5, <2>2 DEF AllocatedBefore
    <3>3. Earlier(y[1], z[1]) \/ (y[1] = z[1] /\ y[2] < z[2])
      BY <1>5, <2>2 DEF AllocatedBefore
    <3>4. Earlier(x[1], z[1]) \/ (x[1] = z[1] /\ x[2] < z[2])
      BY <1>2, <3>1, <3>2, <3>3
    <3>5. QED
      BY <2>2, <3>4 DEF AllocatedBefore
  <2>3. QED
    BY <2>1, <2>2
<1>6. QED
  BY <1>3, <1>4, <1>5

LEMMA StatefulIsFinite ==
  ASSUME design \in Designs
  PROVE  /\ IsFiniteSet(Ends("dsp")) /\ IsFiniteSet(Ends("ram"))
         /\ IsFiniteSet({<<0, n>> : n \in 1 .. design.srls})
         /\ Cardinality({<<0, n>> : n \in 1 .. design.srls}) = design.srls
         /\ IsFiniteSet(Stateful)
<1> DEFINE At0 == {<<0, n>> : n \in 1 .. design.srls}
           f == [n \in 1 .. design.srls |-> <<0, n>>]
           E == [p \in DOMAIN design.parts |-> {p} \X DOMAIN design.parts[p].ends]
           All == UNION {{p} \X DOMAIN design.parts[p].ends : p \in DOMAIN design.parts}
<1>1. IsFiniteSet(All)
  <2>1. IsFiniteSet(DOMAIN design.parts)
    BY DesignAssumption, FromOne
  <2>2. ASSUME NEW p \in DOMAIN design.parts PROVE IsFiniteSet({p} \X DOMAIN design.parts[p].ends)
    <3>1. IsFiniteSet(DOMAIN design.parts[p].ends)
      BY PartsAreGood, EndsAreFinite
    <3>2. QED
      BY <3>1, FS_Singleton, FS_Product
  <2>3. IsFiniteSet({E[p] : p \in DOMAIN design.parts})
    <3> DEFINE T == {{p} \X DOMAIN design.parts[p].ends : p \in DOMAIN design.parts}
               D == DOMAIN design.parts
    <3>1. E \in [D -> T]
      OBVIOUS
    <3>2. QED
      <4> HIDE DEF E, T, D
      <4>1. IsFiniteSet({E[p] : p \in D})
        <5>1. IsFiniteSet(D)
          BY <2>1 DEF D
        <5>2. QED
          BY <3>1, <5>1, ImageIsFinite
      <4>2. QED
        BY <4>1 DEF D
  <2>4. {E[p] : p \in DOMAIN design.parts} = {{p} \X DOMAIN design.parts[p].ends : p \in DOMAIN design.parts}
    OBVIOUS
  <2>5. \A S \in {{p} \X DOMAIN design.parts[p].ends : p \in DOMAIN design.parts} : IsFiniteSet(S)
    BY <2>2
  <2>6. QED
    <3> HIDE DEF E
    <3> QED BY <2>3, <2>4, <2>5, FS_UNION
<1>2. \A kind : Ends(kind) \subseteq All
  BY DEF Ends
<1>3. IsFiniteSet(Ends("dsp")) /\ IsFiniteSet(Ends("ram"))
  <2> HIDE DEF All
  <2> QED BY <1>1, <1>2, FS_Subset
<1>4. design.srls \in Nat
  BY DesignAssumption
<1>5. IsFiniteSet(1 .. design.srls) /\ Cardinality(1 .. design.srls) = design.srls
  BY <1>4, FromOne
<1>6. f \in Bijection(1 .. design.srls, At0)
  <2>1. f \in [1 .. design.srls -> At0]
    OBVIOUS
  <2>2. \A a, b \in 1 .. design.srls : f[a] = f[b] => a = b
    OBVIOUS
  <2>3. \A y \in At0 : \E a \in 1 .. design.srls : f[a] = y
    OBVIOUS
  <2>4. QED
    <3> HIDE DEF f, At0
    <3> QED BY <2>1, <2>2, <2>3 DEF Bijection, Injection, Surjection, IsInjective
<1>7. IsFiniteSet(At0) /\ Cardinality(At0) = design.srls
  <2> HIDE DEF f, At0
  <2> QED BY <1>5, <1>6, FS_Bijection DEF ExistsBijection
<1>8. IsFiniteSet(Stateful)
  BY <1>3, <1>7, FS_Union DEF Stateful
<1>9. QED
  BY <1>3, <1>7, <1>8

StateOf(x) == {x} \X (1 .. StateWords(x))

LEMMA StateOfCount ==
  ASSUME NEW x
  PROVE  StateWords(x) \in 1 .. 2 /\ IsFiniteSet(StateOf(x)) /\ Cardinality(StateOf(x)) = StateWords(x)
<1>1. StateWords(x) \in Nat /\ StateWords(x) \in 1 .. 2
  BY DEF StateWords
<1>2. IsFiniteSet({x}) /\ Cardinality({x}) = 1
  BY FS_Singleton
<1>3. IsFiniteSet(1 .. StateWords(x)) /\ Cardinality(1 .. StateWords(x)) = StateWords(x)
  BY <1>1, FromOne
<1>4. IsFiniteSet(StateOf(x)) /\ Cardinality(StateOf(x)) = Cardinality({x}) * Cardinality(1 .. StateWords(x))
  BY <1>2, <1>3, FS_Product DEF StateOf
<1>5. QED
  BY <1>1, <1>2, <1>3, <1>4

LEMMA StateBeforeIs ==
  ASSUME design \in Designs, NEW x
  PROVE  /\ StateBefore(x) = UNION {StateOf(y) : y \in {z \in Stateful : AllocatedBefore(z, x)}}
         /\ IsFiniteSet(StateBefore(x)) /\ Cardinality(StateBefore(x)) \in Nat
<1>1. StateBefore(x) = UNION {StateOf(y) : y \in {z \in Stateful : AllocatedBefore(z, x)}}
  BY DEF StateBefore, StateOf
<1>2. \A y : StateOf(y) \subseteq {y} \X (1 .. 2)
  BY DEF StateOf, StateWords
<1>3. StateBefore(x) \subseteq Stateful \X (1 .. 2)
  BY <1>1, <1>2
<1>4. IsFiniteSet(Stateful \X (1 .. 2))
  <2>1. \A n \in Nat : IsFiniteSet(1 .. n)
    BY FromOne
  <2>2. QED
    BY <2>1, StatefulIsFinite, FS_Product
<1>5. QED
  BY <1>1, <1>3, <1>4, FS_Subset, FS_CardinalityType

\* What is allocated earlier ends before what is allocated later begins.
LEMMA StateFollows ==
  ASSUME design \in Designs, NEW y \in Stateful, NEW x \in Stateful, AllocatedBefore(y, x)
  PROVE  Cardinality(StateBefore(y)) + StateWords(y) <= Cardinality(StateBefore(x))
<1>1. /\ IsFiniteSet(StateBefore(y)) /\ Cardinality(StateBefore(y)) \in Nat
      /\ IsFiniteSet(StateBefore(x)) /\ Cardinality(StateBefore(x)) \in Nat
      /\ StateBefore(y) = UNION {StateOf(z) : z \in {u \in Stateful : AllocatedBefore(u, y)}}
      /\ StateBefore(x) = UNION {StateOf(z) : z \in {u \in Stateful : AllocatedBefore(u, x)}}
  BY StateBeforeIs
<1>2. IsFiniteSet(StateOf(y)) /\ Cardinality(StateOf(y)) = StateWords(y) /\ StateWords(y) \in Nat
  BY StateOfCount
<1>3. StateBefore(y) \cup StateOf(y) \subseteq StateBefore(x)
  BY <1>1, AllocatedOrders
<1>4. StateBefore(y) \cap StateOf(y) = {}
  <2>1. \A z : z # y => StateOf(z) \cap StateOf(y) = {}
    BY DEF StateOf
  <2>2. QED
    BY <1>1, <2>1, AllocatedOrders
<1>5. Cardinality(StateBefore(y) \cup StateOf(y)) = Cardinality(StateBefore(y)) + Cardinality(StateOf(y)) - Cardinality({})
  BY <1>1, <1>2, <1>4, FS_Union
<1>6. Cardinality({}) = 0
  BY FS_EmptySet
<1>7. Cardinality(StateBefore(y) \cup StateOf(y)) <= Cardinality(StateBefore(x))
  BY <1>1, <1>3, FS_Subset
<1>8. QED
  BY <1>1, <1>2, <1>5, <1>6, <1>7

AllState == 2 * Cardinality(Ends("dsp")) + design.srls

\* And all of it lies within the words of all DSPs and SRLs.
LEMMA StateEnds ==
  ASSUME design \in Designs, NEW x \in Stateful
  PROVE  Cardinality(StateBefore(x)) + StateWords(x) <= AllState
<1> DEFINE Bag1 == Ends("dsp") \X (1 .. 2)
           Bag2 == {<<0, n>> : n \in 1 .. design.srls} \X (1 .. 1)
<1>1. \A n \in Nat : IsFiniteSet(1 .. n) /\ Cardinality(1 .. n) = n
  BY FromOne
<1>2. /\ IsFiniteSet(Ends("dsp")) /\ Cardinality(Ends("dsp")) \in Nat
      /\ IsFiniteSet({<<0, n>> : n \in 1 .. design.srls})
      /\ Cardinality({<<0, n>> : n \in 1 .. design.srls}) = design.srls /\ design.srls \in Nat
  BY StatefulIsFinite, FS_CardinalityType, DesignAssumption
<1>3. IsFiniteSet(Bag1) /\ Cardinality(Bag1) = Cardinality(Ends("dsp")) * Cardinality(1 .. 2)
  BY <1>1, <1>2, FS_Product
<1>4. /\ IsFiniteSet(Bag2)
      /\ Cardinality(Bag2) = Cardinality({<<0, n>> : n \in 1 .. design.srls}) * Cardinality(1 .. 1)
  BY <1>1, <1>2, FS_Product
<1>5. Cardinality(Bag1) = 2 * Cardinality(Ends("dsp")) /\ Cardinality(Bag2) = design.srls
  <2>1. Cardinality(1 .. 2) = 2 /\ Cardinality(1 .. 1) = 1
    BY <1>1
  <2> HIDE DEF Bag1, Bag2
  <2>2. QED
    BY <1>2, <1>3, <1>4, <2>1
<1>6. ASSUME NEW y \in Stateful PROVE StateOf(y) \subseteq Bag1 \cup Bag2
  <2>1. CASE \E p, k : y = <<p, k>> /\ p \in Nat \ {0} /\ y \in Ends("dsp")
    <3>1. StateWords(y) = 2
      BY <2>1 DEF StateWords
    <3>2. QED
      BY <2>1, <3>1 DEF StateOf
  <2>2. CASE \E n \in 1 .. design.srls : y = <<0, n>>
    <3>1. StateWords(y) = 1
      BY <2>2 DEF StateWords
    <3>2. QED
      BY <2>2, <3>1 DEF StateOf
  <2>3. QED
    BY <2>1, <2>2, StatefulAre
<1>7. /\ IsFiniteSet(Bag1 \cup Bag2) /\ Cardinality(Bag1 \cup Bag2) \in Nat
      /\ Cardinality(Bag1 \cup Bag2) <= AllState
  <2> HIDE DEF Bag1, Bag2
  <2>1. /\ IsFiniteSet(Bag1 \cup Bag2) /\ IsFiniteSet(Bag1 \cap Bag2)
        /\ Cardinality(Bag1 \cup Bag2) = Cardinality(Bag1) + Cardinality(Bag2) - Cardinality(Bag1 \cap Bag2)
    BY <1>3, <1>4, FS_Union, FS_Subset
  <2>2. Cardinality(Bag1 \cap Bag2) \in Nat /\ Cardinality(Bag1 \cup Bag2) \in Nat
    BY <2>1, FS_CardinalityType
  <2>3. QED
    BY <1>2, <1>5, <2>1, <2>2 DEF AllState
<1>8. /\ IsFiniteSet(StateBefore(x)) /\ Cardinality(StateBefore(x)) \in Nat
      /\ StateBefore(x) = UNION {StateOf(z) : z \in {u \in Stateful : AllocatedBefore(u, x)}}
  BY StateBeforeIs
<1>9. IsFiniteSet(StateOf(x)) /\ Cardinality(StateOf(x)) = StateWords(x) /\ StateWords(x) \in Nat
  BY StateOfCount
<1>10. StateBefore(x) \cup StateOf(x) \subseteq Bag1 \cup Bag2
  <2> HIDE DEF Bag1, Bag2
  <2> QED BY <1>6, <1>8
<1>11. StateBefore(x) \cap StateOf(x) = {}
  <2>1. \A z : z # x => StateOf(z) \cap StateOf(x) = {}
    BY DEF StateOf
  <2>2. QED
    BY <1>8, <2>1, AllocatedOrders
<1>12. Cardinality(StateBefore(x) \cup StateOf(x)) = Cardinality(StateBefore(x)) + Cardinality(StateOf(x)) - Cardinality({})
  BY <1>8, <1>9, <1>11, FS_Union
<1>13. Cardinality({}) = 0
  BY FS_EmptySet
<1>14. Cardinality(StateBefore(x) \cup StateOf(x)) <= Cardinality(Bag1 \cup Bag2)
  <2> HIDE DEF Bag1, Bag2
  <2> QED BY <1>7, <1>10, FS_Subset
<1>15. AllState \in Nat
  BY <1>2 DEF AllState
<1>16. QED
  <2> HIDE DEF Bag1, Bag2
  <2> QED BY <1>7, <1>8, <1>9, <1>12, <1>13, <1>14, <1>15

\* The words of the DSPs of earlier partitions.
PartBase(p) == UNION {StateOf(y) : y \in {z \in Ends("dsp") : Earlier(z[1], p)}}

\* A DSP's offset is that of its partition's first and two for each before it there.
LEMMA StateOfDsp ==
  ASSUME design \in Designs, NEW p \in DOMAIN design.parts, NEW k \in DOMAIN design.parts[p].ends,
         design.parts[p].ends[k].kind = "dsp"
  PROVE  /\ Cardinality(PartBase(p)) \in Nat /\ IndexOf(<<p, k>>) \in Nat
         /\ Cardinality(StateBefore(<<p, k>>)) = Cardinality(PartBase(p)) + 2 * IndexOf(<<p, k>>)
<1> DEFINE Y == {y \in Ends("dsp") : y[1] = p /\ y[2] < k}
           Mine == Y \X (1 .. 2)
<1>1. ASSUME NEW y \in Ends("dsp")
      PROVE  y[1] \in Nat \ {0} /\ y[1] \in DOMAIN design.parts /\ StateOf(y) = {y} \X (1 .. 2) /\ y \in Stateful
  <2>1. y \in Stateful /\ ~\E n : y = <<0, n>>
    <3>1. PICK q, j : q \in DOMAIN design.parts /\ y = <<q, j>>
      BY EndsAre
    <3>2. q # 0
      BY <3>1, DesignAssumption
    <3>3. QED
      BY <3>1, <3>2 DEF Stateful
  <2>2. PICK q, j : y = <<q, j>> /\ q \in DOMAIN design.parts /\ q \in Nat \ {0}
    BY <2>1, StatefulAre
  <2>3. StateWords(y) = 2
    BY <2>2 DEF StateWords
  <2>4. QED
    BY <2>1, <2>2, <2>3 DEF StateOf
<1>2. p \in Nat \ {0}
  BY DesignAssumption
<1>3. ASSUME NEW y \in Stateful
      PROVE  AllocatedBefore(y, <<p, k>>) <=> y \in Y \/ (y \in Ends("dsp") /\ Earlier(y[1], p))
  <2>1. CASE y \in Ends("dsp")
    BY <1>1, <1>2, <2>1 DEF AllocatedBefore
  <2>2. CASE y \notin Ends("dsp")
    <3>1. y[1] = 0
      BY <2>2 DEF Stateful
    <3>2. QED
      BY <1>2, <2>2, <3>1 DEF AllocatedBefore
  <2>3. QED
    BY <2>1, <2>2
<1>4. StateBefore(<<p, k>>) = PartBase(p) \cup Mine
  <2>1. StateBefore(<<p, k>>) = UNION {StateOf(y) : y \in {z \in Stateful : AllocatedBefore(z, <<p, k>>)}}
    BY StateBeforeIs
  <2>2. {z \in Stateful : AllocatedBefore(z, <<p, k>>)} = Y \cup {z \in Ends("dsp") : Earlier(z[1], p)}
    BY <1>1, <1>3
  <2>3. Mine = UNION {StateOf(y) : y \in Y}
    BY <1>1
  <2>4. QED
    <3> HIDE DEF Mine, Y
    <3> QED BY <2>1, <2>2, <2>3 DEF PartBase
<1>5. PartBase(p) \cap Mine = {}
  <2>1. ~Earlier(p, p)
    BY EarlierOrders
  <2>2. \A u \in PartBase(p) : Earlier(u[1][1], p)
    BY DEF PartBase, StateOf
  <2>3. \A u \in Mine : u[1][1] = p
    OBVIOUS
  <2>4. QED
    <3> HIDE DEF Mine, Y
    <3> QED BY <2>1, <2>2, <2>3
<1>6. /\ IsFiniteSet(StateBefore(<<p, k>>)) /\ IsFiniteSet(PartBase(p)) /\ IsFiniteSet(Mine)
      /\ Cardinality(PartBase(p)) \in Nat
  <2>1. IsFiniteSet(StateBefore(<<p, k>>))
    BY StateBeforeIs
  <2>2. PartBase(p) \subseteq StateBefore(<<p, k>>) /\ Mine \subseteq StateBefore(<<p, k>>)
    <3> HIDE DEF Mine, Y
    <3> QED BY <1>4
  <2>3. QED
    <3> HIDE DEF Mine, Y
    <3> QED BY <2>1, <2>2, FS_Subset, FS_CardinalityType
<1>7. IsFiniteSet(Y) /\ Cardinality(Y) = IndexOf(<<p, k>>) /\ IndexOf(<<p, k>>) \in Nat
  <2>1. Y \subseteq Ends("dsp")
    OBVIOUS
  <2>2. IsFiniteSet(Y) /\ Cardinality(Y) \in Nat
    <3> HIDE DEF Mine, Y
    <3> QED BY <2>1, StatefulIsFinite, FS_Subset, FS_CardinalityType
  <2>3. Cardinality(Y) = IndexOf(<<p, k>>)
    BY DEF IndexOf, EndAt
  <2>4. QED
    <3> HIDE DEF Mine, Y
    <3> QED BY <2>2, <2>3
<1>8. Cardinality(Mine) = 2 * IndexOf(<<p, k>>)
  <2>1. \A n \in Nat : IsFiniteSet(1 .. n) /\ Cardinality(1 .. n) = n
    BY FromOne
  <2>2. Cardinality(Mine) = Cardinality(Y) * Cardinality(1 .. 2)
    <3> HIDE DEF Y
    <3> QED BY <1>7, <2>1, FS_Product
  <2>3. Cardinality(1 .. 2) = 2
    BY <2>1
  <2>4. QED
    <3> HIDE DEF Mine, Y
    <3> QED BY <1>7, <2>2, <2>3
<1>9. Cardinality(PartBase(p) \cup Mine) = Cardinality(PartBase(p)) + Cardinality(Mine) - Cardinality({})
  <2> HIDE DEF Mine, Y
  <2> QED BY <1>5, <1>6, FS_Union
<1>10. Cardinality({}) = 0
  BY FS_EmptySet
<1>11. QED
  <2> HIDE DEF Mine, Y
  <2>1. PICK n \in Nat : n = IndexOf(<<p, k>>)
    BY <1>7
  <2>2. PICK b \in Nat : b = Cardinality(PartBase(p))
    BY <1>6
  <2>3. Cardinality(PartBase(p) \cup Mine) = b + 2 * n
    BY <1>8, <1>9, <1>10, <2>1, <2>2
  <2>4. QED
    BY <1>4, <2>1, <2>2, <2>3, Zenon

Allocated ==
  pc = "done" => off = [x \in Stateful |-> TotalSrams + Cardinality(StateBefore(x))]

LEMMA AllocatedStep ==
  ASSUME Allocated, [Next]_vars
  PROVE  Allocated'
<1>1. design' = design
  BY DEF Next, ArrangeParts, PlaceOutput, PlaceStagedPin, PlaceFlop, PlaceZeroFlop, RefuseConstant,
         PlaceRam, PlaceDsp, EndPart, AllocState, vars
<1>2. (off' = off /\ (pc' = "done" => pc = "done")) \/ AllocState
  BY DEF Next, ArrangeParts, PlaceOutput, PlaceStagedPin, PlaceFlop, PlaceZeroFlop, RefuseConstant,
         PlaceRam, PlaceDsp, EndPart, vars, Placing
<1>3. Loads' = Loads
  BY <1>1, SMT DEF Loads
<1>4. \A kind : Ends(kind)' = Ends(kind)
  BY <1>1, SMT DEF Ends, EndAt
<1>5. TotalSrams' = TotalSrams /\ Stateful' = Stateful
  BY <1>1, <1>4, Zenon DEF TotalSrams, Stateful
<1>6. \A x : StateBefore(x)' = StateBefore(x)
  BY <1>1, <1>3, <1>5, SMT DEF StateBefore, AllocatedBefore, Earlier, Block, StateWords
<1>7. CASE off' = off /\ (pc' = "done" => pc = "done")
  BY <1>5, <1>6, <1>7, Zenon DEF Allocated
<1>8. CASE AllocState
  <2>1. off' = [x \in Stateful |-> TotalSrams + Cardinality(StateBefore(x))]
    BY <1>8, Zenon DEF AllocState, Origin
  <2>2. QED
    BY <1>5, <1>6, <2>1, Zenon DEF Allocated
<1>9. QED
  BY <1>2, <1>7, <1>8

\* A DSP or SRL has its offset behind the SRAMs and the state of all those before it
\* (flatten.rs:1116-1153).
THEOREM StateIsAllocated == Spec => []Allocated
<1>1. Init => Allocated
  BY DEF Init, Allocated
<1>2. Allocated /\ [Next]_vars => Allocated'
  BY AllocatedStep
<1>3. QED
  BY <1>1, <1>2, PTL DEF Spec

LEMMA TotalIsNat ==
  ASSUME design \in Designs
  PROVE  TotalSrams \in Nat
<1>1. Cardinality(Ends("ram")) \in Nat
  BY StatefulIsFinite, FS_CardinalityType
<1>2. QED
  BY <1>1, SizeAssumption DEF TotalSrams

\* The kernel reaches a DSP's words from the offset of its partition's first DSP.
LEMMA DspAddressIs ==
  ASSUME design \in Designs, Allocated, pc = "done", NEW x \in Ends("dsp")
  PROVE  /\ x \in Stateful /\ StateWords(x) = 2 /\ x[1] # 0
         /\ DspAddress(x[1], IndexOf(x)) = TotalSrams + Cardinality(StateBefore(x))
<1>1. PICK p, k :
        /\ p \in DOMAIN design.parts /\ k \in DOMAIN design.parts[p].ends
        /\ x = <<p, k>> /\ design.parts[p].ends[k].kind = "dsp"
  BY EndsAre
<1> DEFINE part == design.parts[p]
           T == {j \in DOMAIN part.ends : part.ends[j].kind = "dsp"}
           IsFirstDsp(f) == /\ part.ends[f].kind = "dsp"
                            /\ \A j \in 1 .. f - 1 : part.ends[j].kind # "dsp"
           first == CHOOSE f \in DOMAIN part.ends : IsFirstDsp(f)
<1>2. DOMAIN part.ends = 1 .. Len(part.ends) /\ Len(part.ends) \in Nat
  BY <1>1, PartsAreGood DEF GoodPart
<1>3. PICK f \in T : \A j \in T : f <= j
  <2>1. T \in SUBSET Nat /\ T # {}
    BY <1>1, <1>2
  <2>2. QED
    <3> HIDE DEF T
    <3> QED BY <2>1, LeastNumber
<1>4. f \in DOMAIN part.ends /\ IsFirstDsp(f)
  <2>1. ASSUME NEW j \in 1 .. f - 1, part.ends[j].kind = "dsp" PROVE FALSE
    <3>1. j \in T /\ j < f
      BY <1>2, <2>1
    <3>2. QED
      BY <1>2, <1>3, <3>1
  <2>2. QED
    BY <2>1
<1>5. PICK g : g = first
  OBVIOUS
<1>6. g \in DOMAIN part.ends /\ IsFirstDsp(g)
  <2>1. \E h \in DOMAIN part.ends : IsFirstDsp(h)
    BY <1>4, Zenon
  <2>2. first \in DOMAIN part.ends /\ IsFirstDsp(first)
    <3> HIDE DEF IsFirstDsp, part
    <3> QED BY <2>1, Zenon
  <2>3. QED
    BY <1>5, <2>2, Zenon
<1>7. x \in Stateful /\ <<p, g>> \in Stateful /\ StateWords(x) = 2 /\ p # 0
  <2>1. <<p, g>> \in UNION {{q} \X DOMAIN design.parts[q].ends : q \in DOMAIN design.parts}
    BY <1>1, <1>6
  <2>2. <<p, g>> \in Ends("dsp")
    BY <1>6, <2>1 DEF Ends, EndAt
  <2>3. p # 0
    BY <1>1, DesignAssumption
  <2>4. QED
    BY <1>1, <2>2, <2>3 DEF Stateful, StateWords
<1>8. PICK n \in Nat : n = IndexOf(x)
  BY <1>1, StateOfDsp
<1>9. PICK b \in Nat : b = Cardinality(PartBase(p))
  BY <1>1, StateOfDsp
<1>10. Cardinality(StateBefore(x)) = b + 2 * n
  BY <1>1, <1>8, <1>9, StateOfDsp
<1>11. IndexOf(<<p, g>>) = 0
  <2>1. {y \in Ends("dsp") : y[1] = p /\ y[2] < g} = {}
    <3>1. SUFFICES ASSUME NEW y \in Ends("dsp"), y[1] = p, y[2] < g PROVE FALSE
      OBVIOUS
    <3>2. PICK q, j :
            /\ q \in DOMAIN design.parts /\ j \in DOMAIN design.parts[q].ends
            /\ y = <<q, j>> /\ design.parts[q].ends[j].kind = "dsp"
      BY EndsAre
    <3>3. q = p /\ j < g
      BY <3>1, <3>2
    <3>4. j \in 1 .. g - 1
      BY <1>2, <1>6, <3>2, <3>3
    <3>5. QED
      BY <1>6, <3>2, <3>3, <3>4
  <2>2. EndAt(<<p, g>>).kind = "dsp"
    BY <1>6 DEF EndAt
  <2>3. QED
    BY <2>1, <2>2, FS_EmptySet DEF IndexOf
<1>12. Cardinality(StateBefore(<<p, g>>)) = b
  <2>1. Cardinality(StateBefore(<<p, g>>)) = b + 2 * IndexOf(<<p, g>>)
    BY <1>1, <1>6, <1>9, StateOfDsp
  <2>2. QED
    BY <1>11, <2>1
<1>13. off[<<p, g>>] = TotalSrams + b
  BY <1>7, <1>12, Zenon DEF Allocated
<1>14. DspAddress(x[1], IndexOf(x)) = TotalSrams + b + 2 * n
  <2>1. x[1] = p
    BY <1>1
  <2>2. DspAddress(p, n) = off[<<p, g>>] + 2 * n
    BY <1>5, Zenon DEF DspAddress
  <2>3. QED
    BY <1>8, <1>13, <2>1, <2>2, Zenon
<1>15. TotalSrams + b + 2 * n = TotalSrams + (b + 2 * n)
  BY TotalIsNat
<1>16. QED
  BY <1>1, <1>7, <1>10, <1>14, <1>15, Zenon

\* All state has an offset that a descriptor has room for.
Fits == TotalSrams + AllState <= DescRange

LEMMA SrlAddressIs ==
  ASSUME design \in Designs, Allocated, pc = "done", Fits, NEW n \in 1 .. design.srls
  PROVE  /\ <<0, n>> \in Stateful /\ StateWords(<<0, n>>) = 1
         /\ SrlAddress(n) = TotalSrams + Cardinality(StateBefore(<<0, n>>))
<1>1. <<0, n>> \in Stateful /\ StateWords(<<0, n>>) = 1
  BY DEF Stateful, StateWords
<1>2. PICK b \in Nat : b = Cardinality(StateBefore(<<0, n>>))
  BY StateBeforeIs
<1>3. b + 1 <= AllState
  BY <1>1, <1>2, StateEnds
<1>4. AllState \in Nat
  BY StatefulIsFinite, FS_CardinalityType, DesignAssumption DEF AllState
<1>5. off[<<0, n>>] = TotalSrams + b
  BY <1>1, <1>2, Zenon DEF Allocated
<1>6. TotalSrams + b \in Nat /\ TotalSrams + b < DescRange /\ DescRange \in Nat \ {0}
  BY <1>3, <1>4, TotalIsNat, SizeAssumption DEF Fits
<1>7. (TotalSrams + b) % DescRange = TotalSrams + b
  BY <1>6
<1>8. QED
  BY <1>1, <1>2, <1>5, <1>7, Zenon DEF SrlAddress

\* Wherever the descriptors have room for all of it, the state of no two DSPs or SRLs
\* overlaps, nor any with the SRAMs. The condition is needed: past 2^16 words the
\* descriptor of an SRL wraps around into the SRAMs (flatten.rs:705-714, MCManySrams).
THEOREM StateIsApart == Spec => [](Fits => StateApart)
<1>1. Shape /\ Allocated => (Fits => StateApart)
  <2> SUFFICES ASSUME Shape, Allocated, Fits, pc = "done"
               PROVE  StateApart
    BY DEF StateApart
  <2> DEFINE addr(x) == TotalSrams + Cardinality(StateBefore(x))
             dspWords(x) == {DspAddress(x[1], IndexOf(x)), DspAddress(x[1], IndexOf(x)) + 1}
             srlWords == {SrlAddress(n) : n \in 1 .. design.srls}
             f == [n \in 1 .. design.srls |-> SrlAddress(n)]
  <2>1. design \in Designs
    BY DEF Shape
  <2>2. ASSUME NEW x \in Stateful PROVE addr(x) \in Nat /\ addr(x) >= TotalSrams /\ TotalSrams \in Nat
    <3>1. Cardinality(StateBefore(x)) \in Nat
      BY <2>1, StateBeforeIs
    <3>2. QED
      BY <2>1, <3>1, TotalIsNat
  <2>3. ASSUME NEW x \in Stateful, NEW y \in Stateful, AllocatedBefore(x, y)
        PROVE  addr(x) + StateWords(x) <= addr(y)
    <3>1. Cardinality(StateBefore(x)) + StateWords(x) <= Cardinality(StateBefore(y))
      BY <2>1, <2>3, StateFollows
    <3>2. Cardinality(StateBefore(x)) \in Nat /\ Cardinality(StateBefore(y)) \in Nat /\ StateWords(x) \in Nat
      BY <2>1, StateBeforeIs, StateOfCount
    <3>3. QED
      BY <2>1, <3>1, <3>2, TotalIsNat
  <2>4. ASSUME NEW x \in Stateful, NEW y \in Stateful, x # y
        PROVE  addr(x) + StateWords(x) <= addr(y) \/ addr(y) + StateWords(y) <= addr(x)
    BY <2>1, <2>3, <2>4, AllocatedOrders
  <2>5. ASSUME NEW x \in Ends("dsp")
        PROVE  x \in Stateful /\ StateWords(x) = 2 /\ dspWords(x) = {addr(x), addr(x) + 1} /\ x[1] # 0
    BY <2>1, DspAddressIs
  <2>6. ASSUME NEW n \in 1 .. design.srls
        PROVE  <<0, n>> \in Stateful /\ StateWords(<<0, n>>) = 1 /\ SrlAddress(n) = addr(<<0, n>>)
    BY <2>1, SrlAddressIs
  <2>7. ASSUME NEW x \in Ends("dsp")
        PROVE  /\ \A w \in dspWords(x) : w >= TotalSrams /\ w \notin srlWords
               /\ \A y \in Ends("dsp") \ {x} : dspWords(x) \cap dspWords(y) = {}
    <3>1. x \in Stateful /\ StateWords(x) = 2 /\ dspWords(x) = {addr(x), addr(x) + 1} /\ x[1] # 0
      BY <2>5
    <3>2. PICK a \in Nat : a = addr(x) /\ a >= TotalSrams /\ TotalSrams \in Nat
      BY <2>2, <3>1
    <3>3. ASSUME NEW n \in 1 .. design.srls PROVE SrlAddress(n) \notin {a, a + 1}
      <4>1. <<0, n>> \in Stateful /\ StateWords(<<0, n>>) = 1 /\ SrlAddress(n) = addr(<<0, n>>)
        BY <2>6
      <4>2. x # <<0, n>>
        BY <3>1
      <4>3. PICK c \in Nat : c = addr(<<0, n>>)
        BY <2>2, <4>1
      <4>4. a + 2 <= c \/ c + 1 <= a
        BY <2>4, <3>1, <3>2, <4>1, <4>2, <4>3
      <4>5. SrlAddress(n) = c
        BY <4>1, <4>3, Zenon
      <4>6. QED
        BY <4>4, <4>5
    <3>4. ASSUME NEW y \in Ends("dsp") \ {x} PROVE dspWords(x) \cap dspWords(y) = {}
      <4>1. y \in Stateful /\ StateWords(y) = 2 /\ dspWords(y) = {addr(y), addr(y) + 1}
        BY <2>5
      <4>2. PICK c \in Nat : c = addr(y)
        BY <2>2, <4>1
      <4>3. a + 2 <= c \/ c + 2 <= a
        BY <2>4, <3>1, <3>2, <3>4, <4>1, <4>2
      <4>4. {a, a + 1} \cap {c, c + 1} = {}
        BY <4>3
      <4>5. QED
        BY <3>1, <3>2, <4>1, <4>2, <4>4, Zenon
    <3>5. dspWords(x) = {a, a + 1}
      BY <3>1, <3>2, Zenon
    <3>6. QED
      <4> HIDE DEF dspWords, addr
      <4> QED BY <3>2, <3>3, <3>4, <3>5
  <2>8. \A w \in srlWords : w >= TotalSrams
    BY <2>2, <2>6
  <2>9. Cardinality(srlWords) = design.srls
    <3>1. ASSUME NEW m \in 1 .. design.srls, NEW n \in 1 .. design.srls, m # n
          PROVE  SrlAddress(m) # SrlAddress(n)
      <4>1. /\ <<0, m>> \in Stateful /\ StateWords(<<0, m>>) = 1 /\ SrlAddress(m) = addr(<<0, m>>)
            /\ <<0, n>> \in Stateful /\ StateWords(<<0, n>>) = 1 /\ SrlAddress(n) = addr(<<0, n>>)
        BY <2>6
      <4>2. <<0, m>> # <<0, n>>
        BY <3>1
      <4>3. PICK a \in Nat : a = addr(<<0, m>>)
        BY <2>2, <4>1
      <4>4. PICK c \in Nat : c = addr(<<0, n>>)
        BY <2>2, <4>1
      <4>5. a + 1 <= c \/ c + 1 <= a
        BY <2>4, <4>1, <4>2, <4>3, <4>4
      <4>6. SrlAddress(m) = a /\ SrlAddress(n) = c
        BY <4>1, <4>3, <4>4, Zenon
      <4>7. QED
        BY <4>5, <4>6
    <3>2. f \in Bijection(1 .. design.srls, srlWords)
      <4>1. f \in [1 .. design.srls -> srlWords]
        OBVIOUS
      <4>2. \A a, b \in 1 .. design.srls : f[a] = f[b] => a = b
        BY <3>1
      <4>3. \A w \in srlWords : \E a \in 1 .. design.srls : f[a] = w
        OBVIOUS
      <4>4. QED
        <5> HIDE DEF f, srlWords
        <5> QED BY <4>1, <4>2, <4>3 DEF Bijection, Injection, Surjection, IsInjective
    <3>3. IsFiniteSet(1 .. design.srls) /\ Cardinality(1 .. design.srls) = design.srls
      <4>1. design.srls \in Nat
        BY <2>1, DesignAssumption
      <4>2. QED
        BY <4>1, FromOne
    <3>4. QED
      <4> HIDE DEF f, srlWords
      <4> QED BY <3>2, <3>3, FS_Bijection DEF ExistsBijection
  <2>10. QED
    <3> HIDE DEF addr
    <3> QED BY <2>7, <2>8, <2>9, Zenon DEF StateApart
<1>2. Laid => Shape
  BY DEF Laid
<1>3. QED
  BY <1>1, <1>2, StateIsAllocated, LaidHolds, PTL

=============================================================================
