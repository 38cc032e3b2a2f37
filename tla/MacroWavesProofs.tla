-------------------------- MODULE MacroWavesProofs --------------------------
(***************************************************************************)
(* Theorems about MacroWaves, for every set of netlists and any number of  *)
(* macros, gates and lanes: the waves partition the macros of the cone,    *)
(* and where chains are keyed soundly they are in dependency order.        *)
(***************************************************************************)
EXTENDS MacroWaves, Induction, FiniteSetTheorems, SequenceTheorems, TLAPS

-----------------------------------------------------------------------------
(* Netlists.                                                               *)

LEMMA MaxIs ==
  ASSUME NEW b \in Nat, NEW S \in SUBSET (0 .. b), S # {}
  PROVE  MaxOf(S) \in S /\ \A y \in S : y <= MaxOf(S)
<1>1. \E x \in S : \A y \in S : y <= x
  BY GreatestNumber
<1>2. QED
  BY <1>1 DEF MaxOf

LEMMA NetIs ==
  ASSUME net \in Nets
  PROVE  /\ net.kind \in [Macro -> Kind]
         /\ \A m \in Macro : net.wire[m] \in [Slots[net.kind[m]] -> Pin(net) \cup {NoPin}]
         /\ net.gate \in [Gate -> SUBSET Pin(net)]
         /\ net.targets \subseteq Pin(net)
         /\ Cardinality(Outputs(net)) <= MaxDepth
BY NetAssumption

LEMMA PinIs ==
  ASSUME NEW n, NEW pin \in Pin(n)
  PROVE  /\ IsMacroPin(pin) => /\ pin \in Outputs(n) /\ pin[1] \in Macro
                               /\ pin[2] \in Ports[n.kind[pin[1]]]
                               /\ pin = <<pin[1], pin[2]>>
         /\ ~IsMacroPin(pin) => pin[1] \in Gate /\ pin = <<pin[1], "y">>
<1>1. CASE pin \in Outputs(n)
  BY <1>1 DEF Outputs, IsMacroPin
<1>2. CASE pin \notin Outputs(n)
  BY <1>2, IndexAssumption DEF Pin, IsMacroPin
<1>3. QED
  BY <1>1, <1>2

LEMMA SlotsAre ==
  ASSUME NEW k \in Kind
  PROVE  /\ \A o \in Ports[k] : CombSlots[o] \subseteq Slots[k]
         /\ StateSlots[k] \subseteq Slots[k]
         /\ k = "carry4" => /\ Ports[k] = {"o", "co"} /\ StateSlots[k] = {}
                            /\ "ci" \in CombSlots["o"]
         /\ k # "carry4" => Ports[k] = {"q", "q31"}
BY DEF Kind, Ports, CombSlots, StateSlots, Slots

LEMMA FaninIs ==
  ASSUME net \in Nets, NEW pin \in Pin(net)
  PROVE  Fanin(net, pin) \subseteq Pin(net)
<1>1. CASE IsMacroPin(pin)
  <2>1. pin[1] \in Macro /\ pin[2] \in Ports[net.kind[pin[1]]] /\ net.kind[pin[1]] \in Kind
    BY <1>1, PinIs, NetIs
  <2>2. CombSlots[pin[2]] \subseteq Slots[net.kind[pin[1]]]
    BY <2>1, SlotsAre
  <2>3. net.wire[pin[1]] \in [Slots[net.kind[pin[1]]] -> Pin(net) \cup {NoPin}]
    BY <2>1, NetIs
  <2>4. Wired(net, pin[1], CombSlots[pin[2]]) \subseteq Pin(net)
    BY <2>2, <2>3 DEF Wired
  <2>5. QED
    BY <2>1, <2>4 DEF Fanin
<1>2. CASE ~IsMacroPin(pin)
  <2>1. pin[1] \in Gate /\ pin[1] \notin Macro
    BY <1>2, PinIs DEF IsMacroPin
  <2>2. QED
    BY <2>1, NetIs DEF Fanin
<1>3. QED
  BY <1>1, <1>2

LEMMA StateFaninIs ==
  ASSUME net \in Nets, NEW m \in Macro
  PROVE  StateFanin(m) \subseteq Pin(net)
<1>1. net.kind[m] \in Kind /\ net.wire[m] \in [Slots[net.kind[m]] -> Pin(net) \cup {NoPin}]
  BY NetIs
<1>2. StateSlots[net.kind[m]] \subseteq Slots[net.kind[m]]
  BY <1>1, SlotsAre
<1>3. QED
  BY <1>1, <1>2 DEF StateFanin, Wired

\* A macro reads what its outputs are a function of.
LEMMA EvalFaninIs ==
  ASSUME net \in Nets, NEW m \in Macro
  PROVE  /\ EvalFanin(m) = UNION {Fanin(net, <<m, o>>) : o \in Ports[net.kind[m]]}
         /\ EvalFanin(m) \subseteq Pin(net)
<1>1. \A o \in Ports[net.kind[m]] : Fanin(net, <<m, o>>) = Wired(net, m, CombSlots[o])
  BY DEF Fanin
<1>2. EvalFanin(m) = UNION {Wired(net, m, CombSlots[o]) : o \in Ports[net.kind[m]]}
  BY DEF EvalFanin, Wired
<1>3. EvalFanin(m) = UNION {Fanin(net, <<m, o>>) : o \in Ports[net.kind[m]]}
  BY <1>1, <1>2
<1>4. \A o \in Ports[net.kind[m]] : <<m, o>> \in Pin(net)
  BY DEF Pin, Outputs
<1>5. QED
  BY <1>3, <1>4, FaninIs

-----------------------------------------------------------------------------
(* The cone of the targets.                                                *)

Reaches(f, n) ==
  f = [k \in 0 .. Cardinality(Pin(n)) |->
         IF k = 0 THEN n.targets
         ELSE LET r == f[k - 1] IN r \cup UNION {Fanin(n, pin) : pin \in r}]

LEMMA ConeDef ==
  ASSUME NEW n, \E f : Reaches(f, n)
  PROVE  \E f : Reaches(f, n) /\ ConeOf(n) = f[Cardinality(Pin(n))]
<1> DEFINE w == CHOOSE f : Reaches(f, n)
<1>1. Reaches(w, n)
  OBVIOUS
<1>2. ConeOf(n) = w[Cardinality(Pin(n))]
  BY DEF ConeOf, Reaches
<1>3. QED
  BY <1>1, <1>2

LEMMA PinsFinite ==
  ASSUME net \in Nets
  PROVE  IsFiniteSet(Pin(net)) /\ IsFiniteSet(Outputs(net)) /\ Cardinality(Pin(net)) \in Nat
<1> DEFINE A == Macro \X {"o", "co", "q", "q31"}
           B == Gate \X {"y"}
<1>1. IsFiniteSet(A \cup B) /\ IsFiniteSet(A)
  <2>1. IsFiniteSet({"o", "co", "q", "q31"}) /\ IsFiniteSet({"y"})
    <3>1. IsFiniteSet({"y"})
      BY FS_Singleton
    <3>2. IsFiniteSet({"o"}) /\ IsFiniteSet({"co"}) /\ IsFiniteSet({"q"}) /\ IsFiniteSet({"q31"})
      BY FS_Singleton
    <3>3. IsFiniteSet({"o"} \cup {"co"}) /\ IsFiniteSet({"q"} \cup {"q31"})
      BY <3>2, FS_Union
    <3>4. IsFiniteSet(({"o"} \cup {"co"}) \cup ({"q"} \cup {"q31"}))
      BY <3>3, FS_Union
    <3>5. ({"o"} \cup {"co"}) \cup ({"q"} \cup {"q31"}) = {"o", "co", "q", "q31"}
      OBVIOUS
    <3>6. QED
      BY <3>1, <3>4, <3>5
  <2>2. IsFiniteSet(A) /\ IsFiniteSet(B)
    BY <2>1, IndexAssumption, FS_Product
  <2>3. QED
    BY <2>2, FS_Union
<1>2. Outputs(net) \subseteq A
  <2>1. \A m \in Macro : Ports[net.kind[m]] \subseteq {"o", "co", "q", "q31"}
    <3>1. \A m \in Macro : net.kind[m] \in Kind
      BY NetIs
    <3>2. QED
      BY <3>1, SlotsAre
  <2>2. QED
    BY <2>1 DEF Outputs
<1>3. Pin(net) \subseteq A \cup B
  BY <1>2 DEF Pin
<1>4. QED
  BY <1>1, <1>2, <1>3, FS_Subset, FS_CardinalityType

LEMMA ConeIs ==
  ASSUME net \in Nets
  PROVE  ConeOf(net) \subseteq Pin(net)
<1> DEFINE S == SUBSET Pin(net)
           N == Cardinality(Pin(net))
           F == [x \in Nat \X S |-> x[2] \cup UNION {Fanin(net, pin) : pin \in x[2]}]
<1>1. N \in Nat /\ net.targets \in S
  BY PinsFinite, NetIs
<1>2. F \in [Nat \X S -> S]
  <2>1. ASSUME NEW x \in Nat \X S PROVE x[2] \cup UNION {Fanin(net, pin) : pin \in x[2]} \in S
    <3>1. \A pin \in x[2] : pin \in Pin(net)
      OBVIOUS
    <3>2. QED
      BY <3>1, FaninIs
  <2>2. QED
    BY <2>1
<1>3. \E f \in [0 .. N -> S] : Recurs(f, net.targets, F, N)
  <2> HIDE DEF S, N, F
  <2> QED BY <1>1, <1>2, RecursionExists
<1>4. PICK f \in [0 .. N -> S] : Recurs(f, net.targets, F, N)
  BY <1>3
<1>5. Reaches(f, net)
  <2>1. ASSUME NEW k \in 0 .. N
        PROVE  f[k] = IF k = 0 THEN net.targets
                      ELSE LET r == f[k - 1] IN r \cup UNION {Fanin(net, pin) : pin \in r}
    <3>1. CASE k = 0
      BY <3>1, <1>4 DEF Recurs
    <3>2. CASE k # 0
      <4>1. k \in 1 .. N /\ k - 1 \in 0 .. N /\ k \in Nat
        BY <1>1, <3>2
      <4>2. f[k - 1] \in S
        BY <4>1
      <4>3. f[k] = F[<<k, f[k - 1]>>]
        BY <4>1, <1>4 DEF Recurs
      <4>4. <<k, f[k - 1]>> \in Nat \X S
        BY <4>1, <4>2
      <4>5. F[<<k, f[k - 1]>>] = f[k - 1] \cup UNION {Fanin(net, pin) : pin \in f[k - 1]}
        BY <4>4
      <4>6. QED
        BY <3>2, <4>3, <4>5
    <3>3. QED
      BY <3>1, <3>2
  <2>2. QED
    BY <2>1 DEF Reaches
<1>6. PICK g : Reaches(g, net) /\ ConeOf(net) = g[N]
  BY <1>5, ConeDef
<1> DEFINE T == {k \in 0 .. N : g[k] \subseteq Pin(net)}
<1>7. 0 \in T
  BY <1>1, <1>6 DEF Reaches
<1>8. ASSUME NEW k \in 0 .. N - 1, k \in T PROVE k + 1 \in T
  <2>1. k + 1 \in 0 .. N /\ k + 1 # 0 /\ (k + 1) - 1 = k
    BY <1>1
  <2>2. g[k + 1] = g[k] \cup UNION {Fanin(net, pin) : pin \in g[k]}
    BY <1>6, <2>1 DEF Reaches
  <2>3. g[k] \subseteq Pin(net)
    BY <1>8
  <2>4. QED
    BY <2>1, <2>2, <2>3, FaninIs
<1>9. \A k \in 0 .. N : k \in T
  <2> HIDE DEF T, N
  <2> QED BY <1>1, <1>7, <1>8, IntervalInduction
<1>10. QED
  BY <1>1, <1>6, <1>9

-----------------------------------------------------------------------------
(* The inductive invariant.  First the sweep: depths grow along the pins a *)
(* pin is computed from, and a macro is as deep as any of its outputs.     *)

Crossed == {pin \in swept : IsMacroPin(pin)}

Shapes ==
  /\ pc \in {"sweep", "link", "fixpoint", "heads", "tails", "pack", "done"}
  /\ net \in Nets
  /\ swept \subseteq order /\ order \subseteq Pin(net)
  /\ pinDepth \in [Pin(net) -> Nat]
  /\ macroDepth \in [Macro -> 0 .. MaxDepth]

Counted ==
  pc = "sweep" =>
    /\ \A pin \in Pin(net) : pinDepth[pin] <= Cardinality(Crossed)
    /\ \A m \in Macro : macroDepth[m] <= Cardinality(Crossed)

Passed(pin) ==
  /\ Fanin(net, pin) \subseteq swept
  /\ ~IsMacroPin(pin) => \A q \in Fanin(net, pin) : pinDepth[q] <= pinDepth[pin]
  /\ IsMacroPin(pin) =>
       /\ 1 <= pinDepth[pin] /\ pinDepth[pin] <= macroDepth[pin[1]]
       /\ \A q \in Fanin(net, pin) : pinDepth[q] < pinDepth[pin]

Deep ==
  /\ Counted
  /\ \A pin \in swept : Passed(pin)
  /\ pc # "sweep" => swept = order

\* Chains are links of a scan, and each continues in one macro.
Linked ==
  /\ pc \in {"sweep", "link"} => succ = {}
  /\ succ \subseteq Links
  /\ \A k, l \in succ : k[1] = l[1] => k = l

\* The fixpoint puts a macro behind those it reads.
Settled ==
  pc \in {"heads", "tails", "pack", "done"} =>
    \A m \in InCone : \A p \in Producers(m) : macroDepth[p] < macroDepth[m]

\* A chain runs along the links and is keyed by its head.
Run(c) ==
  /\ c \in [depth : 1 .. MaxDepth, lanes : Seq(InCone)]
  /\ Len(c.lanes) \in 1 .. MaxLanes
  /\ c.depth = macroDepth[c.lanes[1]]
  /\ \A i \in 1 .. Len(c.lanes) - 1 : <<c.lanes[i], c.lanes[i + 1]>> \in succ

In(x, C) == \E c \in C : \E i \in 1 .. Len(c.lanes) : c.lanes[i] = x

Apart(C) ==
  \A b, c \in C : \A i \in 1 .. Len(b.lanes) : \A j \in 1 .. Len(c.lanes) :
    b.lanes[i] = c.lanes[j] => b = c /\ i = j

\* A chain that continues another starts behind one that had no room for it.
Headed(C) ==
  \A c \in C : \A p \in Macro : <<p, c.lanes[1]>> \in succ =>
    \E b \in C : Len(b.lanes) = MaxLanes /\ b.lanes[MaxLanes] = p

\* A chain with room ends where nothing that is left to place continues it.
Filled(C) ==
  \A c \in C : Len(c.lanes) = MaxLanes
               \/ \A x \in Macro : <<c.lanes[Len(c.lanes)], x>> \in succ => In(x, C)

Chained(C) == (\A c \in C : Run(c)) /\ Apart(C) /\ Headed(C)

\* c takes up the lanes behind off of the wave w.
At(w, c, off) ==
  /\ off \in Nat /\ off + Len(c.lanes) <= Len(w.lanes)
  /\ w.depth = c.depth
  /\ \A i \in 1 .. Len(c.lanes) : w.lanes[off + i] = c.lanes[i]

\* The waves ws hold the chains D.
Holds(ws, D) ==
  /\ ws \in Seq([depth : 1 .. MaxDepth, lanes : Seq(InCone)])
  /\ \A k \in 1 .. Len(ws) : Len(ws[k].lanes) \in 1 .. MaxLanes
  /\ \A k \in 1 .. Len(ws) : \A l \in 1 .. Len(ws[k].lanes) :
       \E c \in D : \E off \in Nat : At(ws[k], c, off) /\ l \in off + 1 .. off + Len(c.lanes)
  /\ \A c \in D : \E k \in 1 .. Len(ws) : \E off \in Nat : At(ws[k], c, off)

\* No macro has two lanes.
Single(ws) ==
  \A j, k \in 1 .. Len(ws) :
    \A l \in 1 .. Len(ws[j].lanes) : \A i \in 1 .. Len(ws[k].lanes) :
      ws[j].lanes[l] = ws[k].lanes[i] => j = k /\ l = i

\* Waves come by depth, those of the chains B last.
Sorted(ws, B) ==
  /\ \A j, k \in 1 .. Len(ws) : j <= k => ws[j].depth <= ws[k].depth
  /\ \A k \in 1 .. Len(ws) : \A c \in B : ws[k].depth <= c.depth

\* C are the chains, of which some are packed.
Packed(C) ==
  /\ Chained(C)
  /\ \A m \in InCone : In(m, C)
  /\ chains \subseteq C
  /\ Holds(waves, C \ chains) /\ Single(waves) /\ Sorted(waves, chains)
  /\ pc = "done" => chains = {}

Grouped ==
  /\ pc \in {"sweep", "link", "fixpoint", "heads"} => chains = {}
  /\ pc \notin {"pack", "done"} => waves = << >>
  /\ pc = "tails" => Chained(chains) /\ Filled(chains)
  /\ pc \in {"pack", "done"} => \E C : Packed(C)

Inductive == Shapes /\ Deep /\ Linked /\ Settled /\ Grouped

-----------------------------------------------------------------------------
LEMMA InConeIs ==
  ASSUME Shapes
  PROVE  /\ InCone \subseteq Macro
         /\ \A m \in InCone : \E o \in Ports[net.kind[m]] : <<m, o>> \in order
         /\ \A m \in Macro : \A o \in Ports[net.kind[m]] : <<m, o>> \in order => m \in InCone
BY DEF InCone

\* A macro of the cone has a depth once the sweep is over.
LEMMA InConeDeep ==
  ASSUME Shapes, Deep, pc # "sweep", NEW m \in InCone
  PROVE  m \in Macro /\ macroDepth[m] \in 1 .. MaxDepth
<1>1. PICK o \in Ports[net.kind[m]] : <<m, o>> \in order
  BY InConeIs
<1>2. m \in Macro /\ macroDepth[m] \in 0 .. MaxDepth
  BY InConeIs DEF Shapes
<1>3. <<m, o>> \in swept /\ IsMacroPin(<<m, o>>)
  BY <1>1, <1>2 DEF Deep, IsMacroPin
<1>4. <<m, o>> \in Pin(net) /\ pinDepth[<<m, o>>] \in Nat
  BY <1>1 DEF Shapes
<1>5. 1 <= pinDepth[<<m, o>>] /\ pinDepth[<<m, o>>] <= macroDepth[m]
  BY <1>3 DEF Deep, Passed
<1>6. QED
  BY <1>2, <1>4, <1>5

LEMMA InitInductive == Init => Inductive
<1> SUFFICES ASSUME Init PROVE Inductive
  OBVIOUS
<1>1. /\ pc = "sweep" /\ net \in Nets /\ order = ConeOf(net) /\ swept = {}
      /\ pinDepth = [pin \in Pin(net) |-> 0] /\ macroDepth = [m \in Macro |-> 0]
      /\ succ = {} /\ chains = {} /\ waves = << >>
  BY DEF Init
<1>2. order \subseteq Pin(net)
  BY <1>1, ConeIs
<1>3. Shapes
  BY <1>1, <1>2, BoundAssumption DEF Shapes
<1>4. Deep
  <2>1. Crossed = {} /\ Cardinality(Crossed) = 0
    BY <1>1, FS_EmptySet DEF Crossed
  <2>2. Counted
    BY <1>1, <2>1 DEF Counted
  <2>3. QED
    BY <1>1, <2>2 DEF Deep
<1>5. Linked /\ Settled
  BY <1>1 DEF Linked, Settled
<1>6. Grouped
  BY <1>1 DEF Grouped
<1>7. QED
  BY <1>3, <1>4, <1>5, <1>6 DEF Inductive

-----------------------------------------------------------------------------
(* The sweep.                                                              *)

LEMMA CrossedIs ==
  ASSUME Shapes
  PROVE  /\ IsFiniteSet(Crossed) /\ Cardinality(Crossed) \in Nat
         /\ \A pin \in order \ swept : IsMacroPin(pin) =>
              /\ Cardinality(Crossed \cup {pin}) = Cardinality(Crossed) + 1
              /\ Cardinality(Crossed) + 1 <= MaxDepth
<1>1. net \in Nets /\ IsFiniteSet(Outputs(net)) /\ Cardinality(Outputs(net)) <= MaxDepth
  BY PinsFinite, NetIs DEF Shapes
<1>2. Crossed \subseteq Outputs(net)
  BY PinIs DEF Crossed, Shapes
<1>3. IsFiniteSet(Crossed) /\ Cardinality(Crossed) \in Nat
  BY <1>1, <1>2, FS_Subset, FS_CardinalityType
<1>4. ASSUME NEW pin \in order \ swept, IsMacroPin(pin)
      PROVE  /\ Cardinality(Crossed \cup {pin}) = Cardinality(Crossed) + 1
             /\ Cardinality(Crossed) + 1 <= MaxDepth
  <2>1. pin \notin Crossed /\ pin \in Pin(net)
    BY DEF Crossed, Shapes
  <2>2. Cardinality(Crossed \cup {pin}) = Cardinality(Crossed) + 1
    BY <1>3, <2>1, FS_AddElement
  <2>3. Crossed \cup {pin} \subseteq Outputs(net)
    BY <1>2, <1>4, <2>1, PinIs
  <2>4. Cardinality(Crossed \cup {pin}) <= Cardinality(Outputs(net))
    BY <1>1, <2>3, FS_Subset
  <2>5. Cardinality(Outputs(net)) \in Nat /\ MaxDepth \in Nat
    BY <1>1, FS_CardinalityType, BoundAssumption
  <2>6. QED
    BY <1>1, <1>3, <2>2, <2>4, <2>5
<1>5. QED
  BY <1>3, <1>4

\* Before the fixpoint there are neither links nor chains.
LEMMA NotGrouped ==
  ASSUME Inductive, pc = "sweep", pc' \in {"sweep", "link"}, UNCHANGED <<succ, chains, waves>>
  PROVE  (Linked /\ Settled /\ Grouped)'
BY DEF Inductive, Linked, Settled, Grouped

LEMMA SweepKeeps ==
  ASSUME Inductive, NEW pin, Sweep(pin)
  PROVE  Inductive'
<1>1. /\ pc = "sweep" /\ pin \in order \ swept /\ Fanin(net, pin) \subseteq swept
      /\ swept' = swept \cup {pin} /\ UNCHANGED <<pc, net, order, succ, chains, waves>>
  BY DEF Sweep
<1>2. Shapes /\ Deep /\ Counted /\ net \in Nets /\ pin \in Pin(net)
  BY <1>1 DEF Inductive, Deep, Shapes
<1> DEFINE n == Cardinality(Crossed)
           read == Fanin(net, pin) \cup (IF IsMacroPin(pin) THEN StateFanin(pin[1]) ELSE {})
           S == {0} \cup {pinDepth[q] : q \in read}
           d == MaxOf(S)
<1>3. n \in Nat
  BY <1>2, CrossedIs
<1>4. read \subseteq Pin(net)
  BY <1>2, FaninIs, StateFaninIs, PinIs
<1>5. S \in SUBSET (0 .. n) /\ S # {}
  <2>1. \A q \in Pin(net) : pinDepth[q] \in Nat /\ pinDepth[q] <= n
    BY <1>1, <1>2 DEF Shapes, Counted
  <2>2. QED
    BY <1>3, <1>4, <2>1
<1>6. d \in 0 .. n /\ \A q \in read : pinDepth[q] <= d
  <2>1. d \in S /\ \A y \in S : y <= d
    <3> HIDE DEF S
    <3> QED BY <1>3, <1>5, MaxIs
  <2>2. QED
    BY <1>5, <2>1
<1>7. \A q \in Fanin(net, pin) : q \in read /\ q \in Pin(net) /\ q # pin /\ pinDepth[q] <= d
  BY <1>1, <1>2, <1>4, <1>6
<1>8. \A q \in swept : Passed(q) /\ q # pin /\ q \in Pin(net)
  BY <1>1, <1>2 DEF Deep, Shapes
<1>9. CASE IsMacroPin(pin)
  <2> DEFINE m == pin[1]
             e == MaxOf({macroDepth[m], d + 1})
  <2>1. m \in Macro
    BY <1>2, <1>9 DEF IsMacroPin
  <2>2. /\ pinDepth' = [pinDepth EXCEPT ![pin] = d + 1]
        /\ macroDepth' = [macroDepth EXCEPT ![m] = e]
    BY <1>9 DEF Sweep
  <2>3. Crossed' = Crossed \cup {pin}
    BY <1>1, <1>9 DEF Crossed, IsMacroPin
  <2>4. Cardinality(Crossed') = n + 1 /\ n + 1 <= MaxDepth
    BY <1>1, <1>2, <1>9, <2>3, CrossedIs
  <2>5. /\ macroDepth[m] \in 0 .. n /\ d + 1 \in 1 .. n + 1
    BY <1>1, <1>2, <1>3, <1>6, <2>1 DEF Shapes, Counted
  <2>6. e \in 1 .. n + 1 /\ macroDepth[m] <= e /\ d + 1 <= e
    <3>1. {macroDepth[m], d + 1} \in SUBSET (0 .. n + 1) /\ {macroDepth[m], d + 1} # {}
      BY <1>3, <2>5
    <3>2. e \in {macroDepth[m], d + 1} /\ \A y \in {macroDepth[m], d + 1} : y <= e
      BY <1>3, <3>1, MaxIs
    <3>3. QED
      BY <1>3, <2>5, <3>2
  <2> HIDE DEF d, e, n, m
  <2>7. /\ pinDepth' \in [Pin(net) -> Nat] /\ pinDepth'[pin] = d + 1
        /\ \A q \in Pin(net) : q # pin => pinDepth'[q] = pinDepth[q]
    BY <1>2, <1>3, <1>6, <2>2 DEF Shapes
  <2>8. /\ macroDepth' \in [Macro -> 0 .. MaxDepth] /\ macroDepth'[m] = e
        /\ \A x \in Macro : x # m => macroDepth'[x] = macroDepth[x]
    <3>1. e \in 0 .. MaxDepth
      BY <1>3, <2>4, <2>6, BoundAssumption
    <3>2. QED
      BY <1>2, <2>1, <2>2, <3>1 DEF Shapes
  <2>9. \A x \in Macro : macroDepth[x] <= macroDepth'[x] /\ macroDepth'[x] <= n + 1
    <3>1. \A x \in Macro : macroDepth[x] \in Nat /\ macroDepth[x] <= n
      BY <1>1, <1>2 DEF Shapes, Counted, n
    <3>2. QED
      BY <1>3, <2>6, <2>8, <3>1
  <2>10. Shapes'
    BY <1>1, <1>2, <2>7, <2>8 DEF Shapes
  <2>11. Counted'
    <3>1. \A q \in Pin(net) : pinDepth'[q] <= n + 1
      BY <1>1, <1>2, <1>3, <1>6, <2>7 DEF Shapes, Counted, n
    <3>2. QED
      BY <1>1, <2>4, <2>9, <3>1 DEF Counted
  <2>12. Passed(pin)'
    <3>1. \A q \in Fanin(net, pin) : pinDepth'[q] < pinDepth'[pin]
      BY <1>6, <1>7, <1>2, <2>7, <1>3 DEF Shapes
    <3>2. 1 <= pinDepth'[pin] /\ pinDepth'[pin] <= macroDepth'[m]
      BY <1>3, <1>6, <2>6, <2>7, <2>8
    <3>3. QED
      BY <1>1, <1>9, <3>1, <3>2 DEF Passed, m, IsMacroPin
  <2>13. ASSUME NEW q \in swept PROVE Passed(q)'
    <3>1. /\ Passed(q) /\ q # pin /\ q \in Pin(net) /\ pinDepth'[q] = pinDepth[q]
      BY <1>8, <2>7
    <3>2. \A x \in Fanin(net, q) : pinDepth'[x] = pinDepth[x]
      BY <1>8, <2>7, <3>1 DEF Passed
    <3>3. IsMacroPin(q) => q[1] \in Macro /\ macroDepth[q[1]] <= macroDepth'[q[1]]
                           /\ macroDepth[q[1]] \in Nat /\ macroDepth'[q[1]] \in Nat
                           /\ pinDepth[q] \in Nat
      BY <1>2, <2>8, <2>9, <3>1 DEF IsMacroPin, Shapes
    <3>4. IsMacroPin(q) => pinDepth'[q] <= macroDepth'[q[1]] /\ 1 <= pinDepth'[q]
      BY <3>1, <3>3 DEF Passed
    <3>5. QED
      BY <1>1, <3>1, <3>2, <3>4 DEF Passed, IsMacroPin
  <2>14. Deep'
    BY <1>1, <2>11, <2>12, <2>13 DEF Deep
  <2>15. QED
    BY <1>1, <2>10, <2>14, NotGrouped DEF Inductive
<1>10. CASE ~IsMacroPin(pin)
  <2>2. /\ pinDepth' = [pinDepth EXCEPT ![pin] = d] /\ macroDepth' = macroDepth
    BY <1>10 DEF Sweep
  <2>3. Crossed' = Crossed
    BY <1>1, <1>10 DEF Crossed, IsMacroPin
  <2> HIDE DEF d, n
  <2>4. Cardinality(Crossed') = n
    BY <2>3 DEF n
  <2>7. /\ pinDepth' \in [Pin(net) -> Nat] /\ pinDepth'[pin] = d
        /\ \A q \in Pin(net) : q # pin => pinDepth'[q] = pinDepth[q]
    BY <1>2, <1>3, <1>6, <2>2 DEF Shapes
  <2>10. Shapes'
    BY <1>1, <1>2, <2>2, <2>7 DEF Shapes
  <2>11. Counted'
    <3>1. \A q \in Pin(net) : pinDepth'[q] <= n
      BY <1>1, <1>2, <1>3, <1>6, <2>7 DEF Shapes, Counted, n
    <3>2. \A x \in Macro : macroDepth'[x] <= n
      BY <1>1, <1>2, <2>2 DEF Counted, n
    <3>3. QED
      BY <1>1, <2>4, <3>1, <3>2 DEF Counted
  <2>12. Passed(pin)'
    <3>1. \A q \in Fanin(net, pin) : pinDepth'[q] <= pinDepth'[pin]
      BY <1>7, <2>7
    <3>2. QED
      BY <1>1, <1>10, <3>1 DEF Passed, IsMacroPin
  <2>13. ASSUME NEW q \in swept PROVE Passed(q)'
    <3>1. /\ Passed(q) /\ q # pin /\ q \in Pin(net) /\ pinDepth'[q] = pinDepth[q]
      BY <1>8, <2>7
    <3>2. \A x \in Fanin(net, q) : pinDepth'[x] = pinDepth[x]
      BY <1>8, <2>7, <3>1 DEF Passed
    <3>3. QED
      BY <1>1, <2>2, <3>1, <3>2 DEF Passed, IsMacroPin
  <2>14. Deep'
    BY <1>1, <2>11, <2>12, <2>13 DEF Deep
  <2>15. QED
    BY <1>1, <2>10, <2>14, NotGrouped DEF Inductive
<1>11. QED
  BY <1>9, <1>10

LEMMA SweepEndKeeps ==
  ASSUME Inductive, SweepEnd
  PROVE  Inductive'
<1>1. /\ pc = "sweep" /\ swept = order
      /\ UNCHANGED <<net, order, swept, pinDepth, macroDepth, succ, chains, waves>>
      /\ pc' = IF InCone = {} THEN "done" ELSE "link"
  BY DEF SweepEnd
<1>2. Shapes'
  BY <1>1 DEF Inductive, Shapes
<1>3. Deep'
  BY <1>1 DEF Inductive, Deep, Counted, Passed, IsMacroPin
<1>4. CASE InCone = {}
  <2>1. pc' = "done" /\ InCone' = {} /\ succ' = {} /\ chains' = {} /\ waves' = << >>
    BY <1>1, <1>4 DEF Inductive, Linked, Grouped, InCone
  <2>2. Linked' /\ Settled'
    BY <2>1 DEF Linked, Settled
  <2>3. Packed({})'
    <3>1. Chained({})' /\ \A m \in InCone' : In(m, {})'
      BY <2>1 DEF Chained, Apart, Headed
    <3>2. /\ waves' \in Seq([depth : 1 .. MaxDepth, lanes : Seq(InCone')]) /\ Len(waves') = 0
          /\ 1 .. Len(waves') = {}
      BY <2>1
    <3>3. Holds(waves, {})'
      BY <3>2 DEF Holds
    <3>4. Single(waves)' /\ Sorted(waves, chains)'
      BY <3>2 DEF Single, Sorted
    <3>5. {} \ chains' = {} /\ chains' \subseteq {}
      BY <2>1
    <3>6. QED
      BY <2>1, <3>1, <3>3, <3>4, <3>5 DEF Packed
  <2>4. QED
    BY <2>1, <2>2, <2>3, <1>2, <1>3 DEF Inductive, Grouped
<1>5. CASE InCone # {}
  <2>1. pc' = "link"
    BY <1>1, <1>5
  <2>2. QED
    BY <1>1, <1>2, <1>3, <2>1, NotGrouped DEF Inductive
<1>6. QED
  BY <1>4, <1>5

-----------------------------------------------------------------------------
(* The links and the fixpoint.                                             *)

\* A step that leaves the netlist, the sweep and the depths as they are.
LEMMA SweptKept ==
  ASSUME Inductive, pc # "sweep",
         pc' \in {"link", "fixpoint", "heads", "tails", "pack", "done"},
         UNCHANGED <<net, order, swept, pinDepth, macroDepth>>
  PROVE  (Shapes /\ Deep)' /\ InCone' = InCone /\ Links' = Links
<1>1. Shapes'
  BY DEF Inductive, Shapes
<1>2. Deep'
  BY DEF Inductive, Deep, Counted, Passed, IsMacroPin
<1>3. InCone' = InCone
  BY DEF InCone
<1>4. Links' = Links
  BY <1>3 DEF Links, IsCarry4
<1>5. QED
  BY <1>1, <1>2, <1>3, <1>4

LEMMA LinkChainsKeeps ==
  ASSUME Inductive, LinkChains
  PROVE  Inductive'
<1>1. /\ pc = "link" /\ pc' = "fixpoint"
      /\ UNCHANGED <<net, order, swept, pinDepth, macroDepth, chains, waves>>
  BY DEF LinkChains
<1>2. (Shapes /\ Deep)' /\ Links' = Links
  BY <1>1, SweptKept
<1>3. succ' \subseteq Links /\ \A k, l \in succ' : k[1] = l[1] => k = l
  BY DEF LinkChains
<1>4. Linked' /\ Settled' /\ Grouped'
  BY <1>1, <1>2, <1>3 DEF Inductive, Linked, Settled, Grouped
<1>5. QED
  BY <1>2, <1>4 DEF Inductive

\* What is needed is at least what is there, and more than any producer has.
LEMMA NeedIs ==
  ASSUME Shapes, NEW m \in InCone
  PROVE  /\ Need(m) \in 0 .. MaxDepth + 1
         /\ macroDepth[m] <= Need(m)
         /\ \A p \in Producers(m) : p \in Macro /\ macroDepth[p] + 1 <= Need(m)
<1> DEFINE S == {macroDepth[m]} \cup {macroDepth[p] + 1 : p \in Producers(m)}
           b == MaxDepth + 1
<1>1. m \in Macro /\ MaxDepth \in Nat /\ b \in Nat
  BY InConeIs, BoundAssumption
<1>2. \A p \in Producers(m) : p \in Macro
  BY InConeIs DEF Producers
<1>3. \A x \in Macro : macroDepth[x] \in 0 .. MaxDepth
  BY DEF Shapes
<1>4. S \in SUBSET (0 .. b) /\ S # {}
  BY <1>1, <1>2, <1>3
<1>5. MaxOf(S) \in S /\ \A y \in S : y <= MaxOf(S)
  <2> HIDE DEF S, b
  <2> QED BY <1>1, <1>4, MaxIs
<1>6. Need(m) = MaxOf(S)
  BY DEF Need
<1>7. QED
  BY <1>2, <1>4, <1>5, <1>6

LEMMA DeepenKeeps ==
  ASSUME Inductive, NEW m \in Macro, Deepen(m)
  PROVE  Inductive'
<1>1. /\ pc = "fixpoint" /\ m \in InCone /\ Need(m) > macroDepth[m]
      /\ macroDepth' = [macroDepth EXCEPT ![m] = Saturate(Need(m))]
      /\ UNCHANGED <<pc, net, order, swept, pinDepth, succ, chains, waves>>
  BY DEF Deepen
<1>2. Shapes /\ Deep
  BY DEF Inductive
<1>3. Saturate(Need(m)) \in 0 .. MaxDepth /\ macroDepth[m] <= Saturate(Need(m))
  <2>1. Need(m) \in 0 .. MaxDepth + 1 /\ macroDepth[m] \in 0 .. MaxDepth /\ MaxDepth \in Nat
    BY <1>1, <1>2, NeedIs, BoundAssumption DEF Shapes
  <2>2. QED
    BY <1>1, <2>1 DEF Saturate
<1>4. /\ macroDepth' \in [Macro -> 0 .. MaxDepth]
      /\ \A x \in Macro : macroDepth[x] <= macroDepth'[x]
  BY <1>1, <1>2, <1>3 DEF Shapes
<1>5. Shapes'
  BY <1>1, <1>2, <1>4 DEF Shapes
<1>6. Deep'
  <2>1. ASSUME NEW q \in swept PROVE Passed(q)'
    <3>1. Passed(q) /\ q \in Pin(net)
      BY <1>2 DEF Deep, Shapes
    <3>2. IsMacroPin(q) => q[1] \in Macro /\ macroDepth[q[1]] <= macroDepth'[q[1]]
                           /\ macroDepth[q[1]] \in Nat /\ macroDepth'[q[1]] \in Nat
                           /\ pinDepth[q] \in Nat
      BY <1>2, <1>4, <3>1 DEF IsMacroPin, Shapes
    <3>3. IsMacroPin(q) => pinDepth[q] <= macroDepth'[q[1]]
      BY <3>1, <3>2 DEF Passed
    <3>4. QED
      BY <1>1, <3>1, <3>3 DEF Passed, IsMacroPin
  <2>2. QED
    BY <1>1, <1>2, <2>1 DEF Deep, Counted
<1>7. Linked'
  <2>1. Links' = Links
    BY <1>1 DEF Links, InCone, IsCarry4
  <2>2. QED
    BY <1>1, <2>1 DEF Inductive, Linked
<1>8. Settled' /\ Grouped'
  BY <1>1 DEF Inductive, Settled, Grouped
<1>9. QED
  BY <1>5, <1>6, <1>7, <1>8 DEF Inductive

\* Producers do not change any more once the links are made.
LEMMA LinkedKept ==
  ASSUME Inductive, pc \notin {"sweep", "link"},
         pc' \in {"fixpoint", "heads", "tails", "pack", "done"},
         UNCHANGED <<net, order, swept, pinDepth, macroDepth, succ>>
  PROVE  /\ (Shapes /\ Deep /\ Linked)' /\ InCone' = InCone
         /\ \A m \in InCone : Producers(m)' = Producers(m)
<1>1. (Shapes /\ Deep)' /\ InCone' = InCone /\ Links' = Links
  BY SweptKept
<1>2. Linked'
  BY <1>1 DEF Inductive, Linked
<1>3. \A m \in InCone : Producers(m)' = Producers(m)
  BY <1>1 DEF Producers, EvalFanin, StateFanin, Wired, HasPred
<1>4. QED
  BY <1>1, <1>2, <1>3

LEMMA FixpointEndKeeps ==
  ASSUME Inductive, FixpointEnd
  PROVE  Inductive'
<1>1. /\ pc = "fixpoint" /\ pc' = "heads" /\ \A m \in InCone : Need(m) <= macroDepth[m]
      /\ UNCHANGED <<net, order, swept, pinDepth, macroDepth, succ, chains, waves>>
  BY DEF FixpointEnd
<1>2. /\ (Shapes /\ Deep /\ Linked)' /\ InCone' = InCone
      /\ \A m \in InCone : Producers(m)' = Producers(m)
  BY <1>1, LinkedKept
<1>3. ASSUME NEW m \in InCone, NEW p \in Producers(m) PROVE macroDepth[p] < macroDepth[m]
  <2>1. /\ Need(m) <= macroDepth[m] /\ macroDepth[p] + 1 <= Need(m) /\ Need(m) \in 0 .. MaxDepth + 1
        /\ p \in Macro /\ m \in Macro
    BY <1>1, NeedIs, InConeIs DEF Inductive
  <2>2. macroDepth[p] \in 0 .. MaxDepth /\ macroDepth[m] \in 0 .. MaxDepth
    BY <2>1 DEF Inductive, Shapes
  <2>3. QED
    BY <2>1, <2>2, BoundAssumption
<1>4. Settled'
  BY <1>1, <1>2, <1>3 DEF Settled
<1>5. Grouped'
  BY <1>1 DEF Inductive, Grouped
<1>6. QED
  BY <1>2, <1>4, <1>5 DEF Inductive

-----------------------------------------------------------------------------
(* Chains.                                                                 *)

\* A macro continues at most one other, and is continued by at most one.
LEMMA LinkIs ==
  ASSUME Shapes, Linked
  PROVE  /\ \A l \in succ : l = <<l[1], l[2]>> /\ l[1] \in InCone /\ l[2] \in InCone
         /\ \A p, m : <<p, m>> \in succ =>
              IsCarry4(p) /\ IsCarry4(m) /\ net.wire[m]["ci"] = <<p, "co">>
         /\ \A p, q, m : <<p, m>> \in succ /\ <<q, m>> \in succ => p = q
         /\ \A p, m, q : <<p, m>> \in succ /\ <<p, q>> \in succ => m = q
<1>1. \A l \in succ : l \in InCone \X InCone
  BY DEF Linked, Links
<1>2. \A l \in succ : l = <<l[1], l[2]>> /\ l[1] \in InCone /\ l[2] \in InCone
  BY <1>1
<1>3. ASSUME NEW p, NEW m, <<p, m>> \in succ
      PROVE  IsCarry4(p) /\ IsCarry4(m) /\ net.wire[m]["ci"] = <<p, "co">>
  BY <1>3 DEF Linked, Links
<1>4. ASSUME NEW p, NEW q, NEW m, <<p, m>> \in succ, <<q, m>> \in succ PROVE p = q
  <2>1. <<p, "co">> = <<q, "co">>
    BY <1>3, <1>4
  <2>2. QED
    BY <2>1
<1>5. ASSUME NEW p, NEW q, NEW m, <<p, m>> \in succ, <<p, q>> \in succ PROVE m = q
  <2>1. <<p, m>> = <<p, q>>
    BY <1>5 DEF Linked
  <2>2. QED
    BY <2>1
<1>6. QED
  BY <1>2, <1>3, <1>4, <1>5

LEMMA FollowingIs ==
  ASSUME Shapes, Linked, NEW m
  PROVE  \A x : x \in Following(m) <=> <<m, x>> \in succ
<1>1. ASSUME NEW x, x \in Following(m) PROVE <<m, x>> \in succ
  <2>1. PICK l \in succ : l[1] = m /\ l[2] = x
    BY <1>1 DEF Following
  <2>2. QED
    BY <2>1, LinkIs
<1>2. ASSUME NEW x, <<m, x>> \in succ PROVE x \in Following(m)
  BY <1>2 DEF Following
<1>3. QED
  BY <1>1, <1>2

Walked(c, m, used) ==
  /\ c \in Seq(InCone) /\ Len(c) \in 1 .. MaxLanes /\ c[1] = m
  /\ \A i \in 1 .. Len(c) - 1 : <<c[i], c[i + 1]>> \in succ /\ c[i + 1] \notin used
  /\ Len(c) = MaxLanes \/ \A x : <<c[Len(c)], x>> \in succ => x \in used

\* One link of a walk, and the walk as a function.
Grown(c, n, used) ==
  LET nexts == Following(Last(c)) \ used
  IN IF Len(c) = n - 1 /\ nexts # {} THEN Append(c, CHOOSE x \in nexts : TRUE) ELSE c

Walks(f, m, used) ==
  f = [n \in 1 .. MaxLanes |-> IF n = 1 THEN <<m>> ELSE Grown(f[n - 1], n, used)]

LEMMA WalkDef ==
  ASSUME NEW m, NEW used, \E f : Walks(f, m, used)
  PROVE  \E f : Walks(f, m, used) /\ Walk(m, used) = f[MaxLanes]
<1> DEFINE w == CHOOSE f : Walks(f, m, used)
<1>1. Walks(w, m, used)
  OBVIOUS
<1>2. Walk(m, used) = w[MaxLanes]
  BY DEF Walk, Walks, Grown
<1>3. QED
  BY <1>1, <1>2

LEMMA WalkExists ==
  ASSUME Shapes, Linked, NEW m \in InCone, NEW used
  PROVE  \E f : Walks(f, m, used)
<1> DEFINE S == Seq(InCone)
           N == MaxLanes - 1
           F == [x \in Nat \X S |-> Grown(x[2], x[1] + 1, used)]
<1>1. N \in Nat /\ MaxLanes \in Nat /\ <<m>> \in S
  BY BoundAssumption
<1>2. F \in [Nat \X S -> S]
  <2>1. ASSUME NEW c \in S, NEW n \in Nat PROVE Grown(c, n, used) \in S
    <3> DEFINE nexts == Following(Last(c)) \ used
    <3>1. \A x \in nexts : x \in InCone
      <4>1. ASSUME NEW x \in nexts PROVE x \in InCone
        <5>1. <<Last(c), x>> \in succ
          BY FollowingIs
        <5>2. QED
          BY <5>1, LinkIs
      <4>2. QED
        BY <4>1
    <3>2. CASE nexts # {}
      <4>1. (CHOOSE x \in nexts : TRUE) \in nexts
        BY <3>2
      <4>2. Append(c, CHOOSE x \in nexts : TRUE) \in S
        BY <4>1, <3>1
      <4>3. QED
        BY <4>2 DEF Grown
    <3>3. CASE nexts = {}
      BY <3>3 DEF Grown
    <3>4. QED
      BY <3>2, <3>3
  <2>2. ASSUME NEW x \in Nat \X S PROVE Grown(x[2], x[1] + 1, used) \in S
    <3>1. x[2] \in S /\ x[1] + 1 \in Nat
      OBVIOUS
    <3>2. QED
      BY <3>1, <2>1
  <2>3. QED
    BY <2>2
<1>3. \E f \in [0 .. N -> S] : Recurs(f, <<m>>, F, N)
  <2> HIDE DEF S, N, F
  <2> QED BY <1>1, <1>2, RecursionExists
<1>4. PICK f \in [0 .. N -> S] : Recurs(f, <<m>>, F, N)
  BY <1>3
<1> DEFINE g == [n \in 1 .. MaxLanes |-> f[n - 1]]
<1>5. ASSUME NEW n \in 1 .. MaxLanes
      PROVE  g[n] = IF n = 1 THEN <<m>> ELSE Grown(g[n - 1], n, used)
  <2>1. CASE n = 1
    BY <1>4, <2>1 DEF Recurs
  <2>2. CASE n # 1
    <3>1. /\ n - 1 \in 1 .. N /\ (n - 1) - 1 \in 0 .. N /\ n - 1 \in 1 .. MaxLanes /\ n - 1 \in Nat
          /\ (n - 1) + 1 = n
      BY <1>1, <2>2
    <3>2. f[n - 1] = F[<<n - 1, f[(n - 1) - 1]>>]
      BY <1>4, <3>1 DEF Recurs
    <3>3. <<n - 1, f[(n - 1) - 1]>> \in Nat \X S
      BY <3>1
    <3>4. F[<<n - 1, f[(n - 1) - 1]>>] = Grown(f[(n - 1) - 1], n, used)
      BY <3>1, <3>3
    <3>5. g[n] = f[n - 1] /\ g[n - 1] = f[(n - 1) - 1]
      BY <3>1
    <3>6. QED
      BY <2>2, <3>2, <3>4, <3>5
  <2>3. QED
    BY <2>1, <2>2
<1>6. Walks(g, m, used)
  <2>1. g = [n \in 1 .. MaxLanes |-> IF n = 1 THEN <<m>> ELSE Grown(g[n - 1], n, used)]
    BY <1>5, Zenon
  <2>2. QED
    BY <2>1, Zenon DEF Walks
<1>7. QED
  BY <1>6

LEMMA WalkIs ==
  ASSUME Shapes, Linked, NEW m \in InCone, NEW used
  PROVE  Walked(Walk(m, used), m, used)
<1>1. PICK f : Walks(f, m, used) /\ Walk(m, used) = f[MaxLanes]
  BY WalkExists, WalkDef
<1> DEFINE Grows(c, n) ==
             /\ c \in Seq(InCone) /\ Len(c) \in 1 .. n /\ c[1] = m
             /\ \A i \in 1 .. Len(c) - 1 : <<c[i], c[i + 1]>> \in succ /\ c[i + 1] \notin used
             /\ Len(c) = n \/ Following(c[Len(c)]) \ used = {}
           N == MaxLanes - 1
           T == {k \in 0 .. N : Grows(f[k + 1], k + 1)}
<1>2. N \in Nat /\ MaxLanes \in Nat \ {0} /\ N + 1 = MaxLanes
  BY BoundAssumption
<1>3. 0 \in T
  <2>1. f[1] = <<m>>
    BY <1>1, <1>2 DEF Walks
  <2>2. Grows(<<m>>, 1)
    OBVIOUS
  <2>3. Grows(f[0 + 1], 0 + 1)
    <3>1. 0 + 1 = 1
      OBVIOUS
    <3> HIDE DEF Grows
    <3>2. QED
      BY <2>1, <2>2, <3>1
  <2>4. 0 \in 0 .. N
    BY <1>2
  <2>5. QED
    BY <2>3, <2>4
<1>4. ASSUME NEW k \in 0 .. N - 1, k \in T PROVE k + 1 \in T
  <2> DEFINE c == f[k + 1]
             n == k + 1
             nexts == Following(Last(c)) \ used
  <2>1. /\ n \in Nat /\ n >= 1 /\ n + 1 \in 1 .. MaxLanes /\ n + 1 # 1 /\ (n + 1) - 1 = n
        /\ k + 1 \in 0 .. N
    BY <1>2
  <2>2. f[n + 1] = Grown(c, n + 1, used)
    BY <1>1, <2>1 DEF Walks
  <2>3. Grows(c, n)
    BY <1>4
  <2>4. Last(c) = c[Len(c)]
    BY DEF Last
  <2> HIDE DEF c, n
  <2>5. CASE Len(c) = n /\ nexts # {}
    <3>1. PICK x : x \in nexts /\ f[n + 1] = Append(c, x)
      <4>1. (CHOOSE x \in nexts : TRUE) \in nexts
        BY <2>5
      <4>2. f[n + 1] = Append(c, CHOOSE x \in nexts : TRUE)
        BY <2>1, <2>2, <2>5 DEF Grown
      <4>3. QED
        BY <4>1, <4>2
    <3>2. <<c[Len(c)], x>> \in succ /\ x \notin used /\ x \in InCone
      BY <2>4, <3>1, FollowingIs, LinkIs
    <3> DEFINE d == Append(c, x)
    <3>3. /\ d \in Seq(InCone) /\ Len(d) = n + 1 /\ Len(c) = n
          /\ \A i \in 1 .. n : d[i] = c[i]
          /\ d[n + 1] = x
      BY <2>1, <2>3, <2>5, <3>2
    <3> HIDE DEF d
    <3>4. \A i \in 1 .. n : <<d[i], d[i + 1]>> \in succ /\ d[i + 1] \notin used
      <4> TAKE i \in 1 .. n
      <4>1. CASE i = n
        BY <2>1, <3>2, <3>3, <4>1
      <4>2. CASE i # n
        <5>1. i \in 1 .. Len(c) - 1 /\ i + 1 \in 1 .. n
          BY <2>1, <3>3, <4>2
        <5>2. QED
          BY <2>3, <3>3, <5>1
      <4>3. QED
        BY <4>1, <4>2
    <3>5. Grows(d, n + 1)
      <4>1. d[1] = m /\ Len(d) \in 1 .. n + 1 /\ Len(d) - 1 = n
        BY <2>1, <2>3, <3>3
      <4>2. QED
        BY <3>3, <3>4, <4>1
    <3>6. f[n + 1] = d
      BY <3>1 DEF d
    <3>7. QED
      BY <2>1, <3>5, <3>6 DEF n
  <2>6. CASE ~(Len(c) = n /\ nexts # {})
    <3>1. f[n + 1] = c
      BY <2>1, <2>2, <2>6 DEF Grown
    <3>2. Following(c[Len(c)]) \ used = {}
      BY <2>3, <2>4, <2>6
    <3>3. Len(c) \in 1 .. n + 1
      BY <2>1, <2>3
    <3>4. Grows(c, n + 1)
      BY <2>3, <3>2, <3>3
    <3>5. QED
      BY <2>1, <3>1, <3>4 DEF n
  <2>7. QED
    BY <2>5, <2>6
<1>5. \A k \in 0 .. N : k \in T
  <2> HIDE DEF T, N
  <2> QED BY <1>2, <1>3, <1>4, IntervalInduction
<1>6. Grows(f[MaxLanes], MaxLanes)
  <2>1. N \in 0 .. N
    BY <1>2
  <2>2. QED
    BY <1>2, <1>5, <2>1
<1>7. QED
  <2> DEFINE c == f[MaxLanes]
  <2>1. Grows(c, MaxLanes)
    BY <1>6
  <2> HIDE DEF c
  <2>2. Len(c) = MaxLanes \/ \A x : <<c[Len(c)], x>> \in succ => x \in used
    BY <2>1, FollowingIs
  <2>3. Walked(c, m, used)
    BY <2>1, <2>2 DEF Walked
  <2>4. QED
    BY <1>1, <2>3 DEF c

LEMMA ChainIs ==
  ASSUME Shapes, Deep, Linked, pc # "sweep", NEW m \in InCone, NEW used
  PROVE  Run(Chain(m, used)) /\ Walked(Chain(m, used).lanes, m, used)
<1> DEFINE c == Chain(m, used)
<1>1. c = [depth |-> macroDepth[m], lanes |-> Walk(m, used)]
  BY DEF Chain
<1>2. c.depth = macroDepth[m] /\ c.lanes = Walk(m, used)
  BY <1>1
<1>3. Walked(Walk(m, used), m, used)
  BY WalkIs
<1>4. macroDepth[m] \in 1 .. MaxDepth
  BY InConeDeep
<1>5. c \in [depth : 1 .. MaxDepth, lanes : Seq(InCone)]
  BY <1>1, <1>3, <1>4 DEF Walked
<1> HIDE DEF c
<1>6. Run(c)
  BY <1>2, <1>3, <1>5 DEF Run, Walked
<1>7. QED
  BY <1>2, <1>3, <1>6 DEF c

LEMMA RunIs ==
  ASSUME NEW c, Run(c)
  PROVE  /\ c.lanes \in Seq(InCone) /\ Len(c.lanes) \in 1 .. MaxLanes /\ Len(c.lanes) \in Nat
         /\ \A i \in 1 .. Len(c.lanes) : c.lanes[i] \in InCone
         /\ c.depth \in 1 .. MaxDepth /\ c.depth = macroDepth[c.lanes[1]]
         /\ c = [depth |-> c.depth, lanes |-> c.lanes]
         /\ \A i \in 2 .. Len(c.lanes) : <<c.lanes[i - 1], c.lanes[i]>> \in succ
<1>1. c.lanes \in Seq(InCone) /\ Len(c.lanes) \in Nat /\ c.depth \in 1 .. MaxDepth
  BY DEF Run
<1>2. c = [depth |-> c.depth, lanes |-> c.lanes]
  BY DEF Run
<1>3. ASSUME NEW i \in 2 .. Len(c.lanes) PROVE <<c.lanes[i - 1], c.lanes[i]>> \in succ
  <2>1. i - 1 \in 1 .. Len(c.lanes) - 1 /\ (i - 1) + 1 = i
    BY <1>1
  <2>2. QED
    BY <2>1 DEF Run
<1>4. QED
  BY <1>1, <1>2, <1>3 DEF Run

\* Where two chains meet, the one that is there later comes by the head of the other.
LEMMA Backwards ==
  ASSUME Shapes, Linked, NEW b, Run(b), NEW c, Run(c),
         NEW i \in 1 .. Len(b.lanes), NEW j \in 1 .. Len(c.lanes), i <= j,
         b.lanes[i] = c.lanes[j]
  PROVE  j - i + 1 \in 1 .. Len(c.lanes) /\ b.lanes[1] = c.lanes[j - i + 1]
<1> DEFINE T == {n \in 1 .. i : b.lanes[n] = c.lanes[j - i + n]}
<1>1. Len(b.lanes) \in Nat /\ Len(c.lanes) \in Nat /\ i \in Nat /\ j \in Nat
  BY RunIs
<1>2. T \in SUBSET Nat /\ i \in T
  <2>1. j - i + i = j
    BY <1>1
  <2>2. QED
    BY <1>1, <2>1
<1>3. PICK n \in T : \A k \in T : n <= k
  <2> HIDE DEF T
  <2> QED BY <1>2, LeastNumber
<1>4. n = 1
  <2> SUFFICES ASSUME n # 1 PROVE FALSE
    OBVIOUS
  <2>1. /\ n \in 2 .. Len(b.lanes) /\ j - i + n \in 2 .. Len(c.lanes) /\ n - 1 \in 1 .. i
        /\ (j - i + n) - 1 = j - i + (n - 1)
    BY <1>1
  <2>2. <<b.lanes[n - 1], b.lanes[n]>> \in succ
    BY <2>1, RunIs
  <2>3. <<c.lanes[j - i + (n - 1)], c.lanes[j - i + n]>> \in succ
    BY <2>1, RunIs
  <2>4. b.lanes[n] = c.lanes[j - i + n]
    OBVIOUS
  <2>5. b.lanes[n - 1] = c.lanes[j - i + (n - 1)]
    BY <2>2, <2>3, <2>4, LinkIs
  <2>6. n - 1 \in T
    BY <2>1, <2>5
  <2>7. QED
    BY <1>3, <2>6, <1>1
<1>5. QED
  BY <1>1, <1>4

LEMMA PlacedIs ==
  ASSUME \A c \in chains : Run(c)
  PROVE  \A x : x \in Placed <=> In(x, chains)
<1>1. \A c \in chains : \A x : x \in ToSet(c.lanes) <=> \E i \in 1 .. Len(c.lanes) : c.lanes[i] = x
  <2> TAKE c \in chains
  <2>1. c.lanes \in Seq(InCone)
    BY RunIs
  <2>2. DOMAIN c.lanes = 1 .. Len(c.lanes)
    BY <2>1
  <2>3. QED
    BY <2>2 DEF ToSet
<1>2. QED
  BY <1>1 DEF Placed, In

Heads == {Chain(m, {}) : m \in {h \in InCone : ~HasPred(h)}}

\* The chains from the heads.
LEMMA HeadsChained ==
  ASSUME Shapes, Deep, Linked, pc # "sweep"
  PROVE  Chained(Heads) /\ Filled(Heads)
<1>1. ASSUME NEW c \in Heads
      PROVE  \E m \in InCone : ~HasPred(m) /\ c = Chain(m, {}) /\ Run(c) /\ Walked(c.lanes, m, {})
  BY ChainIs DEF Heads
<1>2. ASSUME NEW c \in Heads, NEW p PROVE <<p, c.lanes[1]>> \notin succ
  <2>1. PICK m \in InCone : ~HasPred(m) /\ c.lanes[1] = m
    BY <1>1 DEF Walked
  <2>2. <<p, m>> \in succ => HasPred(m)
    <3>1. <<p, m>>[2] = m
      OBVIOUS
    <3>2. QED
      BY <3>1 DEF HasPred
  <2>3. QED
    BY <2>1, <2>2
<1>3. ASSUME NEW b \in Heads, NEW c \in Heads,
             NEW i \in 1 .. Len(b.lanes), NEW j \in 1 .. Len(c.lanes), i <= j,
             b.lanes[i] = c.lanes[j]
      PROVE  b = c /\ i = j
  <2>1. Run(b) /\ Run(c) /\ i \in Nat /\ j \in Nat /\ Len(c.lanes) \in Nat
    BY <1>1, RunIs
  <2>2. j - i + 1 \in 1 .. Len(c.lanes) /\ b.lanes[1] = c.lanes[j - i + 1]
    BY <1>3, <2>1, Backwards
  <2>3. i = j
    <3> SUFFICES ASSUME i # j PROVE FALSE
      OBVIOUS
    <3>1. j - i + 1 \in 2 .. Len(c.lanes)
      BY <1>3, <2>1, <2>2
    <3>2. <<c.lanes[(j - i + 1) - 1], c.lanes[j - i + 1]>> \in succ
      BY <2>1, <3>1, RunIs
    <3>3. QED
      BY <1>2, <2>2, <3>2
  <2>4. b.lanes[1] = c.lanes[1]
    <3>1. j - i + 1 = 1
      BY <2>1, <2>3
    <3>2. QED
      BY <2>2, <3>1
  <2>5. b = c
    BY <1>1, <2>4 DEF Walked
  <2>6. QED
    BY <2>3, <2>5
<1>4. Apart(Heads)
  <2> SUFFICES ASSUME NEW b \in Heads, NEW c \in Heads,
                      NEW i \in 1 .. Len(b.lanes), NEW j \in 1 .. Len(c.lanes),
                      b.lanes[i] = c.lanes[j]
               PROVE  b = c /\ i = j
    BY DEF Apart
  <2>1. i \in Nat /\ j \in Nat
    BY <1>1, RunIs
  <2>2. CASE i <= j
    BY <1>3, <2>2
  <2>3. CASE j <= i
    BY <1>3, <2>3
  <2>4. QED
    BY <2>1, <2>2, <2>3
<1>5. Chained(Heads)
  BY <1>1, <1>2, <1>4 DEF Chained, Headed
<1>6. Filled(Heads)
  <2> SUFFICES ASSUME NEW c \in Heads
               PROVE  Len(c.lanes) = MaxLanes
                      \/ \A x \in Macro : <<c.lanes[Len(c.lanes)], x>> \in succ => In(x, Heads)
    BY DEF Filled
  <2>1. Len(c.lanes) = MaxLanes \/ \A x : <<c.lanes[Len(c.lanes)], x>> \in succ => x \in {}
    BY <1>1 DEF Walked
  <2>2. QED
    BY <2>1
<1>7. QED
  BY <1>5, <1>6

\* What lies beyond a split.
LEMMA TailChained ==
  ASSUME Shapes, Deep, Linked, pc # "sweep",
         NEW C, Chained(C), Filled(C),
         NEW m \in InCone, ~In(m, C), \A p : <<p, m>> \in succ => In(p, C),
         NEW used, \A x : x \in used <=> In(x, C)
  PROVE  Chained(C \cup {Chain(m, used)}) /\ Filled(C \cup {Chain(m, used)})
<1> DEFINE c == Chain(m, used)
           D == C \cup {c}
<1>1. Run(c) /\ Walked(c.lanes, m, used)
  BY ChainIs
<1> HIDE DEF c
<1>2. \A b \in C : Run(b)
  BY DEF Chained
<1>3. ASSUME NEW j \in 1 .. Len(c.lanes) PROVE ~In(c.lanes[j], C)
  <2>1. CASE j = 1
    BY <1>1, <2>1 DEF Walked
  <2>2. CASE j # 1
    <3>1. j - 1 \in 1 .. Len(c.lanes) - 1 /\ (j - 1) + 1 = j
      BY <1>1, <2>2, RunIs
    <3>2. c.lanes[j] \notin used
      BY <1>1, <3>1 DEF Walked
    <3>3. QED
      BY <3>2
  <2>3. QED
    BY <2>1, <2>2
<1>4. ASSUME NEW b \in C, NEW i \in 1 .. Len(b.lanes), NEW j \in 1 .. Len(c.lanes)
      PROVE  b.lanes[i] # c.lanes[j]
  BY <1>3 DEF In
<1>5. ASSUME NEW i \in 1 .. Len(c.lanes), NEW j \in 1 .. Len(c.lanes), i <= j,
             c.lanes[i] = c.lanes[j]
      PROVE  i = j
  <2> SUFFICES ASSUME i # j PROVE FALSE
    OBVIOUS
  <2>1. i \in Nat /\ j \in Nat /\ Len(c.lanes) \in Nat
    BY <1>1, RunIs
  <2>2. j - i + 1 \in 1 .. Len(c.lanes) /\ c.lanes[1] = c.lanes[j - i + 1]
    BY <1>1, <1>5, Backwards
  <2>3. j - i + 1 \in 2 .. Len(c.lanes) /\ (j - i + 1) - 1 \in 1 .. Len(c.lanes)
    BY <1>5, <2>1, <2>2
  <2>4. <<c.lanes[(j - i + 1) - 1], c.lanes[j - i + 1]>> \in succ
    BY <1>1, <2>3, RunIs
  <2>5. In(c.lanes[(j - i + 1) - 1], C)
    BY <1>1, <2>2, <2>4 DEF Walked
  <2>6. QED
    BY <1>3, <2>3, <2>5
<1>6. Apart(D)
  <2> SUFFICES ASSUME NEW a \in D, NEW b \in D,
                      NEW i \in 1 .. Len(a.lanes), NEW j \in 1 .. Len(b.lanes),
                      a.lanes[i] = b.lanes[j]
               PROVE  a = b /\ i = j
    BY DEF Apart
  <2>1. CASE a \in C /\ b \in C
    BY <2>1 DEF Chained, Apart
  <2>2. CASE a = c /\ b = c
    <3>1. i \in Nat /\ j \in Nat
      BY <1>1, <2>2, RunIs
    <3>2. i <= j \/ j <= i
      BY <3>1
    <3>3. QED
      BY <1>5, <2>2, <3>2
  <2>3. CASE a = c /\ b \in C
    BY <1>4, <2>3
  <2>4. CASE a \in C /\ b = c
    BY <1>4, <2>4
  <2>5. QED
    BY <2>1, <2>2, <2>3, <2>4
<1>7. Headed(D)
  <2> SUFFICES ASSUME NEW a \in D, NEW p \in Macro, <<p, a.lanes[1]>> \in succ
               PROVE  \E b \in D : Len(b.lanes) = MaxLanes /\ b.lanes[MaxLanes] = p
    BY DEF Headed
  <2>1. CASE a \in C
    BY <2>1 DEF Chained, Headed
  <2>2. CASE a = c
    <3>1. <<p, m>> \in succ
      BY <1>1, <2>2 DEF Walked
    <3>2. PICK b \in C : \E i \in 1 .. Len(b.lanes) : b.lanes[i] = p
      BY <3>1 DEF In
    <3>3. PICK i \in 1 .. Len(b.lanes) : b.lanes[i] = p
      BY <3>2
    <3>4. Run(b) /\ Len(b.lanes) \in Nat /\ i \in Nat
      BY <1>2, RunIs
    <3>5. i = Len(b.lanes)
      <4> SUFFICES ASSUME i # Len(b.lanes) PROVE FALSE
        OBVIOUS
      <4>1. i + 1 \in 2 .. Len(b.lanes) /\ (i + 1) - 1 = i /\ i + 1 \in 1 .. Len(b.lanes)
        BY <3>4
      <4>2. <<p, b.lanes[i + 1]>> \in succ
        BY <3>3, <3>4, <4>1, RunIs
      <4>3. b.lanes[i + 1] = m
        BY <3>1, <4>2, LinkIs
      <4>4. In(m, C)
        BY <4>1, <4>3 DEF In
      <4>5. QED
        BY <4>4
    <3>6. Len(b.lanes) = MaxLanes
      <4>1. m \in Macro
        BY InConeIs
      <4>2. QED
        BY <3>1, <3>3, <3>5, <4>1 DEF Filled
    <3>7. QED
      BY <3>3, <3>5, <3>6
  <2>3. QED
    BY <2>1, <2>2
<1>8. Filled(D)
  <2>1. \A x : In(x, C) => In(x, D)
    BY DEF In
  <2> SUFFICES ASSUME NEW a \in D
               PROVE  Len(a.lanes) = MaxLanes
                      \/ \A x \in Macro : <<a.lanes[Len(a.lanes)], x>> \in succ => In(x, D)
    BY DEF Filled
  <2>2. CASE a \in C
    BY <2>1, <2>2 DEF Filled
  <2>3. CASE a = c
    BY <1>1, <2>1, <2>3 DEF Walked
  <2>4. QED
    BY <2>2, <2>3
<1>9. \A a \in D : Run(a)
  BY <1>1, <1>2
<1>10. QED
  BY <1>6, <1>7, <1>8, <1>9 DEF Chained, c

LEMMA ChainedKept ==
  ASSUME UNCHANGED <<net, order, macroDepth, succ>>
  PROVE  /\ InCone' = InCone
         /\ \A c : Run(c)' <=> Run(c)
<1>1. InCone' = InCone
  BY DEF InCone
<1>2. ASSUME NEW c PROVE Run(c)' <=> Run(c)
  BY <1>1 DEF Run
<1>3. QED
  BY <1>1, <1>2

LEMMA HeadChainsKeeps ==
  ASSUME Inductive, HeadChains
  PROVE  Inductive'
<1>1. /\ pc = "heads" /\ pc' = "tails" /\ chains' = Heads
      /\ UNCHANGED <<net, order, swept, pinDepth, macroDepth, succ, waves>>
  BY DEF HeadChains, Heads
<1>2. /\ (Shapes /\ Deep /\ Linked)' /\ InCone' = InCone
      /\ \A m \in InCone : Producers(m)' = Producers(m)
  BY <1>1, LinkedKept
<1>3. Settled'
  BY <1>1, <1>2 DEF Inductive, Settled
<1>4. Chained(Heads) /\ Filled(Heads)
  BY <1>1, HeadsChained DEF Inductive
<1>5. \A c : Run(c)' <=> Run(c)
  BY <1>1, ChainedKept
<1> HIDE DEF Heads
<1>6. Chained(chains)'
  BY <1>1, <1>4, <1>5 DEF Chained, Apart, Headed
<1>7. Filled(chains)'
  BY <1>1, <1>4 DEF Filled, In
<1>8. Grouped'
  BY <1>1, <1>6, <1>7 DEF Inductive, Grouped
<1>9. QED
  BY <1>2, <1>3, <1>8 DEF Inductive

LEMMA TailChainKeeps ==
  ASSUME Inductive, NEW m \in Macro, TailChain(m)
  PROVE  Inductive'
<1>1. /\ pc = "tails" /\ pc' = "tails" /\ m \in InCone /\ m \notin Placed
      /\ \A l \in succ : l[2] = m => l[1] \in Placed
      /\ UNCHANGED <<net, order, swept, pinDepth, macroDepth, succ, waves>>
  BY DEF TailChain
<1> DEFINE D == chains \cup {Chain(m, Placed)}
<1>2. chains' = D
  BY DEF TailChain
<1>3. /\ (Shapes /\ Deep /\ Linked)' /\ InCone' = InCone
      /\ \A x \in InCone : Producers(x)' = Producers(x)
  BY <1>1, LinkedKept
<1>4. Settled'
  BY <1>1, <1>3 DEF Inductive, Settled
<1>5. Chained(D) /\ Filled(D)
  <2>1. Shapes /\ Deep /\ Linked /\ Chained(chains) /\ Filled(chains)
    BY <1>1 DEF Inductive, Grouped
  <2>2. \A x : x \in Placed <=> In(x, chains)
    BY <2>1, PlacedIs DEF Chained
  <2>3. ASSUME NEW p, <<p, m>> \in succ PROVE In(p, chains)
    <3>1. <<p, m>>[2] = m /\ <<p, m>>[1] = p
      OBVIOUS
    <3>2. p \in Placed
      BY <1>1, <2>3, <3>1
    <3>3. QED
      BY <2>2, <3>2
  <2>4. QED
    BY <1>1, <2>1, <2>2, <2>3, TailChained
<1>6. \A c : Run(c)' <=> Run(c)
  BY <1>1, ChainedKept
<1> HIDE DEF D
<1>7. Chained(chains)'
  BY <1>1, <1>2, <1>5, <1>6 DEF Chained, Apart, Headed
<1>8. Filled(chains)'
  BY <1>1, <1>2, <1>5 DEF Filled, In
<1>9. Grouped'
  BY <1>1, <1>7, <1>8 DEF Inductive, Grouped
<1>10. QED
  BY <1>3, <1>4, <1>9 DEF Inductive

LEMMA TailsEndKeeps ==
  ASSUME Inductive, TailsEnd
  PROVE  Inductive'
<1>1. /\ pc = "tails" /\ pc' = "pack" /\ InCone \subseteq Placed
      /\ UNCHANGED <<net, order, swept, pinDepth, macroDepth, succ, chains, waves>>
  BY DEF TailsEnd
<1>2. /\ (Shapes /\ Deep /\ Linked)' /\ InCone' = InCone
      /\ \A x \in InCone : Producers(x)' = Producers(x)
  BY <1>1, LinkedKept
<1>3. Settled'
  BY <1>1, <1>2 DEF Inductive, Settled
<1>4. Chained(chains) /\ waves = << >>
  BY <1>1 DEF Inductive, Grouped
<1>5. \A x \in InCone : In(x, chains)
  BY <1>1, <1>4, PlacedIs DEF Chained
<1>6. PICK C : C = chains
  OBVIOUS
<1>7. \A c : Run(c)' <=> Run(c)
  BY <1>1, ChainedKept
<1>8. Chained(C)'
  BY <1>1, <1>4, <1>6, <1>7 DEF Chained, Apart, Headed
<1>9. Holds(waves, C \ chains)' /\ Single(waves)' /\ Sorted(waves, chains)'
  <2>1. waves' = << >> /\ C \ chains' = {}
    BY <1>1, <1>4, <1>6
  <2>2. /\ waves' \in Seq([depth : 1 .. MaxDepth, lanes : Seq(InCone')])
        /\ 1 .. Len(waves') = {}
    BY <2>1
  <2>3. QED
    BY <2>1, <2>2 DEF Holds, Single, Sorted
<1>10. Packed(C)'
  <2>1. chains' \subseteq C /\ pc' # "done"
    BY <1>1, <1>6
  <2>2. \A m \in InCone' : In(m, C)'
    BY <1>2, <1>5, <1>6 DEF In
  <2>3. QED
    BY <1>8, <1>9, <2>1, <2>2 DEF Packed
<1>11. Grouped'
  BY <1>1, <1>10 DEF Grouped
<1>12. QED
  BY <1>2, <1>3, <1>11 DEF Inductive

-----------------------------------------------------------------------------
(* Packing.                                                                *)

Waves == [depth : 1 .. MaxDepth, lanes : Seq(InCone)]

\* us are the waves ws with c behind off lanes of the last, the n-th.
Extends(ws, us, c, n, off) ==
  /\ us \in Seq(Waves) /\ Len(us) = n /\ n \in 1 .. Len(ws) + 1
  /\ \A k \in 1 .. n : Len(us[k].lanes) \in 1 .. MaxLanes
  /\ \A k \in 1 .. Len(ws) :
       /\ k \in 1 .. n /\ us[k].depth = ws[k].depth /\ Len(ws[k].lanes) <= Len(us[k].lanes)
       /\ \A l \in 1 .. Len(ws[k].lanes) : us[k].lanes[l] = ws[k].lanes[l]
  /\ At(us[n], c, off)
  /\ \A k \in 1 .. n : k \in 1 .. Len(ws) \/ k = n
  /\ \A k \in 1 .. n : \A l \in 1 .. Len(us[k].lanes) :
       \/ k \in 1 .. Len(ws) /\ l \in 1 .. Len(ws[k].lanes)
       \/ k = n /\ l \in off + 1 .. off + Len(c.lanes)

LEMMA WaveIs ==
  ASSUME NEW ws \in Seq(Waves), NEW k \in 1 .. Len(ws)
  PROVE  /\ ws[k] \in Waves /\ ws[k].lanes \in Seq(InCone) /\ Len(ws[k].lanes) \in Nat
         /\ ws[k].depth \in 1 .. MaxDepth
         /\ ws[k] = [depth |-> ws[k].depth, lanes |-> ws[k].lanes]
<1>1. ws[k] \in Waves
  OBVIOUS
<1>2. QED
  BY <1>1 DEF Waves

LEMMA NewWave ==
  ASSUME NEW ws \in Seq(Waves), NEW c, Run(c),
         \A k \in 1 .. Len(ws) : Len(ws[k].lanes) \in 1 .. MaxLanes
  PROVE  Extends(ws, Append(ws, c), c, Len(ws) + 1, 0)
<1> DEFINE us == Append(ws, c)
           n == Len(ws) + 1
<1>1. c \in Waves /\ Len(c.lanes) \in 1 .. MaxLanes /\ Len(c.lanes) \in Nat /\ Len(ws) \in Nat
  BY RunIs DEF Run, Waves
<1>2. /\ us \in Seq(Waves) /\ Len(us) = n /\ us[n] = c
      /\ \A k \in 1 .. Len(ws) : us[k] = ws[k]
  BY <1>1
<1> HIDE DEF us
<1>3. \A k \in 1 .. n : k \in 1 .. Len(ws) \/ k = n
  BY <1>1
<1>4. n \in 1 .. Len(ws) + 1 /\ \A k \in 1 .. Len(ws) : k \in 1 .. n
  BY <1>1
<1>5. \A k \in 1 .. n : Len(us[k].lanes) \in 1 .. MaxLanes
  BY <1>1, <1>2, <1>3
<1>6. At(us[n], c, 0)
  BY <1>1, <1>2 DEF At
<1>7. \A k \in 1 .. Len(ws) : Len(ws[k].lanes) <= Len(us[k].lanes)
  BY <1>2, WaveIs
<1>8. ASSUME NEW k \in 1 .. n, NEW l \in 1 .. Len(us[k].lanes)
      PROVE  \/ k \in 1 .. Len(ws) /\ l \in 1 .. Len(ws[k].lanes)
             \/ k = n /\ l \in 0 + 1 .. 0 + Len(c.lanes)
  <2>1. CASE k = n
    BY <1>1, <1>2, <2>1
  <2>2. CASE k # n
    <3>1. k \in 1 .. Len(ws)
      BY <1>3, <2>2
    <3>2. QED
      BY <1>2, <3>1
  <2>3. QED
    BY <2>1, <2>2
<1>9. Extends(ws, us, c, n, 0)
  <2> HIDE DEF n
  <2> QED BY <1>2, <1>3, <1>4, <1>5, <1>6, <1>7, <1>8 DEF Extends
<1>10. QED
  BY <1>9 DEF us

LEMMA JoinedWave ==
  ASSUME NEW ws \in Seq(Waves), NEW c, Run(c),
         \A k \in 1 .. Len(ws) : Len(ws[k].lanes) \in 1 .. MaxLanes,
         ws # << >>, Last(ws).depth = c.depth,
         Len(Last(ws).lanes) + Len(c.lanes) <= MaxLanes
  PROVE  Extends(ws, [ws EXCEPT ![Len(ws)] = [depth |-> c.depth, lanes |-> @.lanes \o c.lanes]],
                 c, Len(ws), Len(Last(ws).lanes))
<1> DEFINE n == Len(ws)
           a == ws[n].lanes
           u == a \o c.lanes
           off == Len(a)
           us == [ws EXCEPT ![n] = [depth |-> c.depth, lanes |-> @.lanes \o c.lanes]]
           w == [depth |-> c.depth, lanes |-> u]
<1>1. n \in Nat /\ n \in 1 .. n /\ Last(ws) = ws[n]
  BY DEF Last
<1>2. /\ a \in Seq(InCone) /\ off \in Nat /\ ws[n].depth = c.depth /\ ws[n].depth \in 1 .. MaxDepth
      /\ ws[n] = [depth |-> c.depth, lanes |-> a]
  BY <1>1, WaveIs
<1>3. c.lanes \in Seq(InCone) /\ Len(c.lanes) \in Nat /\ Len(c.lanes) \in 1 .. MaxLanes
  BY RunIs
<1>4. /\ u \in Seq(InCone) /\ Len(u) = off + Len(c.lanes)
      /\ \A l \in 1 .. off : u[l] = a[l]
      /\ \A i \in 1 .. Len(c.lanes) : u[off + i] = c.lanes[i]
  <2> HIDE DEF a
  <2>1. u \in Seq(InCone) /\ Len(u) = off + Len(c.lanes)
    BY <1>2, <1>3, ConcatProperties
  <2>2. \A l \in 1 .. Len(u) : u[l] = IF l <= off THEN a[l] ELSE c.lanes[l - off]
    BY <1>2, <1>3, ConcatProperties
  <2> HIDE DEF u, off
  <2>3. \A l \in 1 .. off : u[l] = a[l]
    <3> TAKE l \in 1 .. off
    <3>1. l \in 1 .. Len(u) /\ l <= off
      BY <1>2, <1>3, <2>1
    <3>2. QED
      BY <2>2, <3>1
  <2>4. ASSUME NEW i \in 1 .. Len(c.lanes) PROVE u[off + i] = c.lanes[i]
    <3>1. off + i \in 1 .. Len(u) /\ ~(off + i <= off) /\ (off + i) - off = i
      BY <1>2, <1>3, <2>1
    <3>2. QED
      BY <2>2, <3>1
  <2>5. QED
    BY <2>1, <2>3, <2>4
<1>5. us = [ws EXCEPT ![n] = w]
  OBVIOUS
<1>6. w \in Waves /\ w.depth = c.depth /\ w.lanes = u
  BY <1>2, <1>4 DEF Waves
<1> HIDE DEF w, u, a, off
<1> HIDE DEF us
<1>7. /\ us \in Seq(Waves) /\ Len(us) = n /\ us[n] = w
      /\ \A k \in 1 .. n : k # n => us[k] = ws[k]
  <2> HIDE DEF n
  <2>1. /\ us \in Seq(Waves) /\ Len(us) = Len(ws)
        /\ \A k \in 1 .. Len(ws) : us[k] = IF k = n THEN w ELSE ws[k]
    BY <1>1, <1>5, <1>6 DEF n
  <2>2. QED
    BY <1>1, <2>1 DEF n
<1>8. /\ Len(us[n].lanes) = off + Len(c.lanes) /\ off + Len(c.lanes) <= MaxLanes
      /\ us[n].depth = c.depth /\ ws[n].depth = c.depth
      /\ \A l \in 1 .. off : us[n].lanes[l] = ws[n].lanes[l]
      /\ \A i \in 1 .. Len(c.lanes) : us[n].lanes[off + i] = c.lanes[i]
      /\ Len(ws[n].lanes) = off /\ ws[n].lanes = a
  BY <1>1, <1>2, <1>4, <1>6, <1>7 DEF a, off
<1>9. \A k \in 1 .. n : Len(us[k].lanes) \in 1 .. MaxLanes
  <2> TAKE k \in 1 .. n
  <2>1. CASE k = n
    BY <1>2, <1>3, <1>8, <2>1, BoundAssumption
  <2>2. CASE k # n
    BY <1>7, <2>2
  <2>3. QED
    BY <2>1, <2>2
<1>10. ASSUME NEW k \in 1 .. n
       PROVE  /\ us[k].depth = ws[k].depth /\ Len(ws[k].lanes) <= Len(us[k].lanes)
              /\ \A l \in 1 .. Len(ws[k].lanes) : us[k].lanes[l] = ws[k].lanes[l]
  <2>1. CASE k = n
    <3>1. off <= off + Len(c.lanes)
      BY <1>2, <1>3
    <3>2. QED
      BY <1>8, <2>1, <3>1
  <2>2. CASE k # n
    <3>1. us[k] = ws[k] /\ Len(ws[k].lanes) \in Nat
      BY <1>7, <2>2, WaveIs
    <3>2. QED
      BY <3>1
  <2>3. QED
    BY <2>1, <2>2
<1>11. At(us[n], c, off)
  <2>1. off + Len(c.lanes) <= Len(us[n].lanes)
    BY <1>2, <1>3, <1>8
  <2>2. QED
    BY <1>2, <1>8, <2>1 DEF At
<1>12. ASSUME NEW k \in 1 .. n, NEW l \in 1 .. Len(us[k].lanes)
       PROVE  \/ k \in 1 .. Len(ws) /\ l \in 1 .. Len(ws[k].lanes)
              \/ k = n /\ l \in off + 1 .. off + Len(c.lanes)
  <2>1. CASE k = n
    <3>1. l \in 1 .. off + Len(c.lanes)
      BY <1>8, <2>1
    <3>2. l \in 1 .. off \/ l \in off + 1 .. off + Len(c.lanes)
      BY <1>2, <1>3, <3>1
    <3>3. QED
      BY <1>8, <2>1, <3>2
  <2>2. CASE k # n
    BY <1>7, <2>2
  <2>3. QED
    BY <2>1, <2>2
<1>13. n \in 1 .. Len(ws) + 1
  BY <1>1
<1>14. Extends(ws, us, c, n, off)
  BY <1>7, <1>9, <1>10, <1>11, <1>12, <1>13 DEF Extends
<1>15. QED
  BY <1>1, <1>14 DEF us, off, a

LEMMA ExtendsHolds ==
  ASSUME NEW ws, NEW us, NEW c, NEW n, NEW off, Extends(ws, us, c, n, off),
         NEW D, Holds(ws, D), \A b \in D : Run(b)
  PROVE  Holds(us, D \cup {c})
<1>1. /\ us \in Seq(Waves) /\ Len(us) = n /\ n \in 1 .. Len(us) /\ n \in Nat
      /\ \A k \in 1 .. Len(us) : Len(us[k].lanes) \in 1 .. MaxLanes
  BY DEF Extends
<1>2. ASSUME NEW k \in 1 .. Len(ws), NEW b \in D, NEW x \in Nat, At(ws[k], b, x)
      PROVE  k \in 1 .. Len(us) /\ At(us[k], b, x)
  <2>1. /\ k \in 1 .. Len(us) /\ us[k].depth = ws[k].depth /\ Len(ws[k].lanes) <= Len(us[k].lanes)
        /\ \A l \in 1 .. Len(ws[k].lanes) : us[k].lanes[l] = ws[k].lanes[l]
    BY DEF Extends
  <2>2. x + Len(b.lanes) <= Len(ws[k].lanes) /\ ws[k].depth = b.depth
        /\ \A i \in 1 .. Len(b.lanes) : ws[k].lanes[x + i] = b.lanes[i]
    BY <1>2 DEF At
  <2>3. Len(ws[k].lanes) \in Nat /\ Len(us[k].lanes) \in Nat
    <3>1. ws \in Seq(Waves)
      BY DEF Holds, Waves
    <3>2. us[k] \in Waves
      BY <1>1, <2>1
    <3>3. QED
      BY <3>1, <3>2, WaveIs DEF Waves
  <2>4. Len(b.lanes) \in Nat
    BY RunIs
  <2>5. x + Len(b.lanes) <= Len(us[k].lanes)
    BY <2>1, <2>2, <2>3, <2>4
  <2>6. \A i \in 1 .. Len(b.lanes) : x + i \in 1 .. Len(ws[k].lanes)
    BY <2>2, <2>3, <2>4
  <2>7. \A i \in 1 .. Len(b.lanes) : us[k].lanes[x + i] = b.lanes[i]
    BY <2>1, <2>2, <2>6
  <2>8. QED
    BY <2>1, <2>2, <2>5, <2>7 DEF At
<1>3. ASSUME NEW k \in 1 .. Len(us), NEW l \in 1 .. Len(us[k].lanes)
      PROVE  \E b \in D \cup {c} : \E x \in Nat : At(us[k], b, x) /\ l \in x + 1 .. x + Len(b.lanes)
  <2>1. CASE k \in 1 .. Len(ws) /\ l \in 1 .. Len(ws[k].lanes)
    <3>1. PICK b \in D : \E x \in Nat : At(ws[k], b, x) /\ l \in x + 1 .. x + Len(b.lanes)
      BY <2>1 DEF Holds
    <3>2. PICK x \in Nat : At(ws[k], b, x) /\ l \in x + 1 .. x + Len(b.lanes)
      BY <3>1
    <3>3. At(us[k], b, x)
      BY <1>2, <2>1, <3>2
    <3>4. QED
      BY <3>2, <3>3
  <2>2. CASE k = n /\ l \in off + 1 .. off + Len(c.lanes)
    <3>1. At(us[k], c, off) /\ off \in Nat
      BY <2>2 DEF Extends, At
    <3>2. QED
      BY <2>2, <3>1
  <2>3. QED
    BY <1>1, <2>1, <2>2 DEF Extends
<1>4. ASSUME NEW b \in D \cup {c}
      PROVE  \E k \in 1 .. Len(us) : \E x \in Nat : At(us[k], b, x)
  <2>1. CASE b \in D
    <3>1. PICK k \in 1 .. Len(ws) : \E x \in Nat : At(ws[k], b, x)
      BY <2>1 DEF Holds
    <3>2. PICK x \in Nat : At(ws[k], b, x)
      BY <3>1
    <3>3. QED
      BY <1>2, <2>1, <3>2
  <2>2. CASE b = c
    BY <1>1, <2>2 DEF Extends, At
  <2>3. QED
    BY <2>1, <2>2
<1>5. QED
  BY <1>1, <1>3, <1>4 DEF Holds, Waves

LEMMA SingleIs ==
  ASSUME NEW ws, Single(ws), NEW j \in 1 .. Len(ws), NEW k \in 1 .. Len(ws),
         NEW l \in 1 .. Len(ws[j].lanes), NEW i \in 1 .. Len(ws[k].lanes),
         ws[j].lanes[l] = ws[k].lanes[i]
  PROVE  j = k /\ l = i
BY DEF Single

\* None of the lanes of c has been given out.
LEMMA ExtendsSingle ==
  ASSUME NEW ws, NEW us, NEW c, NEW n, NEW off, Extends(ws, us, c, n, off),
         NEW C, Apart(C), \A b \in C : Run(b), c \in C,
         NEW D \in SUBSET C, c \notin D, Holds(ws, D), Single(ws)
  PROVE  Single(us)
<1> DEFINE Old(k, l) == k \in 1 .. Len(ws) /\ l \in 1 .. Len(ws[k].lanes)
           New(k, l) == k = n /\ l \in off + 1 .. off + Len(c.lanes)
<1>1. off \in Nat /\ Len(c.lanes) \in Nat
  BY RunIs DEF Extends, At
<1>2. ASSUME NEW k, NEW l, Old(k, l) PROVE us[k].lanes[l] = ws[k].lanes[l]
  BY <1>2 DEF Extends
<1>3. ASSUME NEW k, NEW l, New(k, l)
      PROVE  l - off \in 1 .. Len(c.lanes) /\ us[k].lanes[l] = c.lanes[l - off]
  <2>1. l - off \in 1 .. Len(c.lanes) /\ off + (l - off) = l
    BY <1>1, <1>3
  <2>2. QED
    BY <1>3, <2>1 DEF Extends, At
<1>4. ASSUME NEW k, NEW l, Old(k, l), NEW i \in 1 .. Len(c.lanes)
      PROVE  ws[k].lanes[l] # c.lanes[i]
  <2>1. PICK b \in D : \E x \in Nat : At(ws[k], b, x) /\ l \in x + 1 .. x + Len(b.lanes)
    BY <1>4 DEF Holds
  <2>2. PICK x \in Nat : At(ws[k], b, x) /\ l \in x + 1 .. x + Len(b.lanes)
    BY <2>1
  <2>3. Len(b.lanes) \in Nat
    BY RunIs
  <2>4. l - x \in 1 .. Len(b.lanes) /\ x + (l - x) = l
    BY <2>2, <2>3
  <2>5. ws[k].lanes[l] = b.lanes[l - x]
    BY <2>2, <2>4 DEF At
  <2>6. b \in C /\ b # c
    OBVIOUS
  <2>7. QED
    BY <2>4, <2>5, <2>6 DEF Apart
<1>5. SUFFICES ASSUME NEW j \in 1 .. Len(us), NEW k \in 1 .. Len(us),
                      NEW l \in 1 .. Len(us[j].lanes), NEW i \in 1 .. Len(us[k].lanes),
                      us[j].lanes[l] = us[k].lanes[i]
               PROVE  j = k /\ l = i
  BY DEF Single
<1>6. (Old(j, l) \/ New(j, l)) /\ (Old(k, i) \/ New(k, i))
  BY DEF Extends
<1>7. CASE Old(j, l) /\ Old(k, i)
  <2>1. us[j].lanes[l] = ws[j].lanes[l] /\ us[k].lanes[i] = ws[k].lanes[i]
    <3> HIDE DEF Old
    <3> QED BY <1>2, <1>7
  <2>2. /\ j \in 1 .. Len(ws) /\ l \in 1 .. Len(ws[j].lanes)
        /\ k \in 1 .. Len(ws) /\ i \in 1 .. Len(ws[k].lanes)
    BY <1>7
  <2>3. ws[j].lanes[l] = ws[k].lanes[i]
    BY <1>5, <2>1
  <2> HIDE DEF Old, New
  <2>4. QED
    BY <2>2, <2>3, SingleIs
<1>8. CASE New(j, l) /\ New(k, i)
  <2>1. c.lanes[l - off] = c.lanes[i - off] /\ l - off \in 1 .. Len(c.lanes) /\ i - off \in 1 .. Len(c.lanes)
    BY <1>3, <1>5, <1>8
  <2>2. l - off = i - off
    BY <2>1 DEF Apart
  <2>3. QED
    BY <1>1, <1>8, <2>2
<1>9. CASE Old(j, l) /\ New(k, i)
  <2> HIDE DEF Old, New
  <2>1. us[j].lanes[l] = ws[j].lanes[l] /\ us[k].lanes[i] = c.lanes[i - off] /\ i - off \in 1 .. Len(c.lanes)
    BY <1>2, <1>3, <1>9
  <2>2. QED
    BY <1>4, <1>5, <1>9, <2>1
<1>10. CASE New(j, l) /\ Old(k, i)
  <2> HIDE DEF Old, New
  <2>1. us[k].lanes[i] = ws[k].lanes[i] /\ us[j].lanes[l] = c.lanes[l - off] /\ l - off \in 1 .. Len(c.lanes)
    BY <1>2, <1>3, <1>10
  <2>2. QED
    BY <1>4, <1>5, <1>10, <2>1
<1>11. QED
  BY <1>6, <1>7, <1>8, <1>9, <1>10

LEMMA ExtendsSorted ==
  ASSUME NEW ws \in Seq(Waves), NEW us, NEW c, NEW n, NEW off, Extends(ws, us, c, n, off),
         NEW B, \A b \in B : Run(b), c \in B, \A b \in B : SortsBefore(c, b), Sorted(ws, B)
  PROVE  Sorted(us, B \ {c})
<1>1. Len(us) = n /\ n \in Nat /\ us[n].depth = c.depth /\ c.depth \in Nat /\ Len(ws) \in Nat
  BY RunIs DEF Extends, At
<1>2. \A k \in 1 .. Len(ws) : k \in 1 .. n /\ us[k].depth = ws[k].depth /\ us[k].depth \in Nat
  <2> TAKE k \in 1 .. Len(ws)
  <2>1. ws[k].depth \in 1 .. MaxDepth
    BY WaveIs
  <2>2. QED
    BY <2>1 DEF Extends
<1>3. \A b \in B : b.depth \in Nat /\ c.depth <= b.depth
  <2> TAKE b \in B
  <2>1. b.depth \in Nat
    BY RunIs
  <2>2. QED
    BY <1>1, <2>1 DEF SortsBefore
<1>4. \A k \in 1 .. n : k \in 1 .. Len(ws) \/ (k = n /\ n \notin 1 .. Len(ws))
  BY DEF Extends
<1>5. \A k \in 1 .. n : us[k].depth \in Nat /\ us[k].depth <= c.depth
  <2> TAKE k \in 1 .. n
  <2>1. CASE k \in 1 .. Len(ws)
    BY <1>2, <2>1 DEF Sorted
  <2>2. CASE k = n
    BY <1>1, <2>2
  <2>3. QED
    BY <1>4, <2>1, <2>2
<1>6. ASSUME NEW j \in 1 .. n, NEW k \in 1 .. n, j <= k PROVE us[j].depth <= us[k].depth
  <2>1. CASE k \in 1 .. Len(ws)
    <3>1. j \in 1 .. Len(ws)
      BY <1>1, <1>6, <2>1
    <3>2. QED
      BY <1>2, <1>6, <2>1, <3>1 DEF Sorted
  <2>2. CASE k = n
    BY <1>1, <1>5, <2>2
  <2>3. QED
    BY <1>4, <2>1, <2>2
<1>7. ASSUME NEW k \in 1 .. n, NEW b \in B \ {c} PROVE us[k].depth <= b.depth
  BY <1>1, <1>3, <1>5
<1>8. QED
  BY <1>1, <1>6, <1>7 DEF Sorted

LEMMA PackChainKeeps ==
  ASSUME Inductive, PackChain
  PROVE  Inductive'
<1>1. /\ pc = "pack" /\ pc' = "pack"
      /\ UNCHANGED <<net, order, swept, pinDepth, macroDepth, succ>>
  BY DEF PackChain
<1>2. /\ (Shapes /\ Deep /\ Linked)' /\ InCone' = InCone
      /\ \A x \in InCone : Producers(x)' = Producers(x)
  BY <1>1, LinkedKept
<1>3. Settled'
  BY <1>1, <1>2 DEF Inductive, Settled
<1>4. PICK C : Packed(C)
  BY <1>1 DEF Inductive, Grouped
<1>5. PICK c \in chains :
        /\ \A b \in chains : SortsBefore(c, b)
        /\ chains' = chains \ {c}
        /\ waves' = IF waves # << >> /\ Last(waves).depth = c.depth
                       /\ Len(Last(waves).lanes) + Len(c.lanes) <= MaxLanes
                     THEN [waves EXCEPT ![Len(waves)] =
                             [depth |-> c.depth, lanes |-> @.lanes \o c.lanes]]
                     ELSE Append(waves, c)
  BY DEF PackChain
<1>6. /\ \A b \in C : Run(b)
      /\ Apart(C) /\ c \in C /\ chains \subseteq C /\ Run(c)
      /\ Holds(waves, C \ chains) /\ Single(waves) /\ Sorted(waves, chains)
      /\ waves \in Seq(Waves)
      /\ \A k \in 1 .. Len(waves) : Len(waves[k].lanes) \in 1 .. MaxLanes
  BY <1>4 DEF Packed, Chained, Holds, Waves
<1>7. \E n, off : Extends(waves, waves', c, n, off)
  <2>1. CASE waves # << >> /\ Last(waves).depth = c.depth
             /\ Len(Last(waves).lanes) + Len(c.lanes) <= MaxLanes
    <3>1. Extends(waves, waves', c, Len(waves), Len(Last(waves).lanes))
      <4>1. waves' = [waves EXCEPT ![Len(waves)] = [depth |-> c.depth, lanes |-> @.lanes \o c.lanes]]
        BY <1>5, <2>1
      <4>2. QED
        BY <1>6, <2>1, <4>1, JoinedWave
    <3>2. QED
      BY <3>1
  <2>2. CASE ~(waves # << >> /\ Last(waves).depth = c.depth
               /\ Len(Last(waves).lanes) + Len(c.lanes) <= MaxLanes)
    <3>1. waves' = Append(waves, c)
      BY <1>5, <2>2
    <3>2. Extends(waves, waves', c, Len(waves) + 1, 0)
      BY <1>6, <3>1, NewWave
    <3>3. QED
      BY <3>2
  <2>3. QED
    BY <2>1, <2>2
<1>8. PICK n, off : Extends(waves, waves', c, n, off)
  BY <1>7
<1> DEFINE D == C \ chains
<1>9. C \ chains' = D \cup {c} /\ c \notin D /\ D \in SUBSET C /\ \A b \in D : Run(b)
  BY <1>5, <1>6
<1> HIDE DEF D
<1>10. Holds(waves', C \ chains')
  <2>1. Holds(waves, D)
    BY <1>6 DEF D
  <2>2. Holds(waves', D \cup {c})
    BY <1>8, <1>9, <2>1, ExtendsHolds
  <2>3. QED
    BY <1>9, <2>2
<1>11. Single(waves')
  <2>1. Holds(waves, D)
    BY <1>6 DEF D
  <2>2. QED
    BY <1>6, <1>8, <1>9, <2>1, ExtendsSingle
<1>12. Sorted(waves', chains')
  <2>1. \A b \in chains : Run(b)
    BY <1>6
  <2>2. QED
    BY <1>5, <1>6, <1>8, <2>1, ExtendsSorted
<1>13. Packed(C)'
  <2>1. \A b : Run(b)' <=> Run(b)
    BY <1>1, ChainedKept
  <2>2. Chained(C)'
    BY <1>1, <1>4, <2>1 DEF Packed, Chained, Apart, Headed
  <2>3. \A m \in InCone' : In(m, C)'
    BY <1>2, <1>4 DEF Packed, In
  <2>4. chains' \subseteq C
    BY <1>5, <1>6
  <2>5. Holds(waves, C \ chains)'
    BY <1>2, <1>10 DEF Holds, At
  <2>6. Single(waves)' /\ Sorted(waves, chains)'
    BY <1>11, <1>12 DEF Single, Sorted
  <2>7. QED
    BY <1>1, <2>2, <2>3, <2>4, <2>5, <2>6 DEF Packed
<1>14. Grouped'
  BY <1>1, <1>13 DEF Grouped
<1>15. QED
  BY <1>2, <1>3, <1>14 DEF Inductive

LEMMA PackEndKeeps ==
  ASSUME Inductive, PackEnd
  PROVE  Inductive'
<1>1. /\ pc = "pack" /\ pc' = "done" /\ chains = {}
      /\ UNCHANGED <<net, order, swept, pinDepth, macroDepth, succ, chains, waves>>
  BY DEF PackEnd
<1>2. /\ (Shapes /\ Deep /\ Linked)' /\ InCone' = InCone
      /\ \A x \in InCone : Producers(x)' = Producers(x)
  BY <1>1, LinkedKept
<1>3. Settled'
  BY <1>1, <1>2 DEF Inductive, Settled
<1>4. PICK C : Packed(C)
  BY <1>1 DEF Inductive, Grouped
<1>5. Packed(C)'
  <2>1. \A b : Run(b)' <=> Run(b)
    BY <1>1, ChainedKept
  <2>2. Chained(C)'
    BY <1>1, <1>4, <2>1 DEF Packed, Chained, Apart, Headed
  <2>3. \A m \in InCone' : In(m, C)'
    BY <1>2, <1>4 DEF Packed, In
  <2>4. Holds(waves, C \ chains)'
    BY <1>1, <1>2, <1>4 DEF Packed, Holds, At
  <2>5. Single(waves)' /\ Sorted(waves, chains)' /\ chains' \subseteq C /\ chains' = {}
    BY <1>1, <1>4 DEF Packed, Single, Sorted
  <2>6. QED
    BY <2>2, <2>3, <2>4, <2>5 DEF Packed
<1>6. Grouped'
  BY <1>1, <1>5 DEF Grouped
<1>7. QED
  BY <1>2, <1>3, <1>6 DEF Inductive

LEMMA StutterKeeps ==
  ASSUME Inductive, UNCHANGED vars
  PROVE  Inductive'
<1>1. UNCHANGED <<pc, net, order, swept, pinDepth, macroDepth, succ, chains, waves>>
  BY DEF vars
<1>2. InCone' = InCone /\ Links' = Links /\ \A x \in InCone : Producers(x)' = Producers(x)
  BY <1>1 DEF InCone, Links, IsCarry4, Producers, EvalFanin, StateFanin, Wired, HasPred
<1>3. Shapes' /\ Deep'
  BY <1>1 DEF Inductive, Shapes, Deep, Counted, Crossed, Passed, IsMacroPin
<1>4. Linked' /\ Settled'
  BY <1>1, <1>2 DEF Inductive, Linked, Settled
<1>5. \A b : Run(b)' <=> Run(b)
  BY <1>1, ChainedKept
<1>6. \A C : Chained(C)' <=> Chained(C)
  BY <1>1, <1>5 DEF Chained, Apart, Headed
<1>7. CASE pc \in {"pack", "done"}
  <2>1. PICK C : Packed(C)
    BY <1>7 DEF Inductive, Grouped
  <2>2. Holds(waves, C \ chains)' /\ Single(waves)' /\ Sorted(waves, chains)'
    <3>1. Holds(waves, C \ chains) /\ Single(waves) /\ Sorted(waves, chains)
      BY <2>1 DEF Packed
    <3>2. Holds(waves, C \ chains)'
      BY <1>1, <1>2, <3>1 DEF Holds, At
    <3>3. Single(waves)'
      BY <1>1, <3>1 DEF Single
    <3>4. Sorted(waves, chains)'
      BY <1>1, <3>1 DEF Sorted
    <3>5. QED
      BY <3>2, <3>3, <3>4
  <2>3. Chained(C)' /\ \A m \in InCone' : In(m, C)'
    BY <1>2, <1>6, <2>1 DEF Packed, In
  <2>4. Packed(C)'
    BY <1>1, <2>1, <2>2, <2>3 DEF Packed
  <2>5. QED
    BY <1>1, <1>3, <1>4, <1>7, <2>4 DEF Inductive, Grouped
<1>8. CASE pc \notin {"pack", "done"}
  <2>1. pc = "tails" => Chained(chains)' /\ Filled(chains)'
    BY <1>1, <1>5 DEF Inductive, Grouped, Chained, Apart, Headed, Filled, In
  <2>2. Grouped'
    BY <1>1, <1>8, <2>1 DEF Inductive, Grouped
  <2>3. QED
    BY <1>3, <1>4, <2>2 DEF Inductive
<1>9. QED
  BY <1>7, <1>8

LEMMA NextKeeps == Inductive /\ [Next]_vars => Inductive'
<1> SUFFICES ASSUME Inductive, [Next]_vars PROVE Inductive'
  OBVIOUS
<1>1. ASSUME NEW pin \in order, Sweep(pin) PROVE Inductive'
  BY <1>1, SweepKeeps
<1>2. ASSUME NEW m \in Macro, Deepen(m) \/ TailChain(m) PROVE Inductive'
  BY <1>2, DeepenKeeps, TailChainKeeps
<1>3. CASE SweepEnd \/ LinkChains \/ FixpointEnd
  BY <1>3, SweepEndKeeps, LinkChainsKeeps, FixpointEndKeeps
<1>4. CASE HeadChains \/ TailsEnd \/ PackChain \/ PackEnd
  BY <1>4, HeadChainsKeeps, TailsEndKeeps, PackChainKeeps, PackEndKeeps
<1>5. CASE Finished \/ UNCHANGED vars
  BY <1>5, StutterKeeps DEF Finished
<1>6. QED
  BY <1>1, <1>2, <1>3, <1>4, <1>5 DEF Next

(***************************************************************************)
(* The invariant holds in every state of the computation.                  *)
(***************************************************************************)
THEOREM InductiveHolds == Spec => []Inductive
<1>1. Init => Inductive
  BY InitInductive
<1>2. Inductive /\ [Next]_vars => Inductive'
  BY NextKeeps
<1>3. QED
  BY <1>1, <1>2, PTL DEF Spec

-----------------------------------------------------------------------------
(* Every macro of the cone gets one lane.                                  *)

LEMMA TypesFollow ==
  ASSUME Inductive
  PROVE  TypeOK
<1>1. Shapes /\ Linked /\ Grouped
  BY DEF Inductive
<1>2. succ \subseteq Macro \X Macro
  BY <1>1, InConeIs DEF Linked, Links
<1>3. \A c \in chains : Run(c)
  BY <1>1 DEF Grouped, Packed, Chained, Shapes
<1>4. waves \in Seq(Waves)
  <2>1. CASE pc \in {"pack", "done"}
    BY <1>1, <2>1 DEF Grouped, Packed, Holds, Waves
  <2>2. CASE pc \notin {"pack", "done"}
    BY <1>1, <2>2 DEF Grouped
  <2>3. QED
    BY <2>1, <2>2
<1>5. InCone \subseteq Macro
  BY <1>1, InConeIs
<1>6. \A c \in chains : c.depth \in 1 .. MaxDepth /\ c.lanes \in Seq(Macro)
  <2> TAKE c \in chains
  <2>1. c.depth \in 1 .. MaxDepth /\ c.lanes \in Seq(InCone)
    BY <1>3, RunIs
  <2>2. QED
    BY <1>5, <2>1
<1>7. \A c \in ToSet(waves) : c.depth \in 1 .. MaxDepth /\ c.lanes \in Seq(Macro)
  <2> TAKE c \in ToSet(waves)
  <2>1. PICK k \in 1 .. Len(waves) : c = waves[k]
    BY <1>4 DEF ToSet
  <2>2. c.depth \in 1 .. MaxDepth /\ c.lanes \in Seq(InCone)
    BY <1>4, <2>1, WaveIs
  <2>3. QED
    BY <1>5, <2>2
<1>8. QED
  BY <1>1, <1>2, <1>6, <1>7 DEF TypeOK, Shapes

\* What the waves are made of once all chains are packed.
Made(C) ==
  /\ Chained(C) /\ Holds(waves, C) /\ Single(waves)
  /\ \A m \in InCone : In(m, C)
  /\ \A j, k \in 1 .. Len(waves) : j <= k => waves[j].depth <= waves[k].depth

LEMMA DoneMade ==
  ASSUME Inductive, pc = "done"
  PROVE  \E C : Made(C)
<1>1. PICK C : Packed(C) /\ chains = {}
  BY DEF Inductive, Grouped, Packed
<1>2. C \ chains = C
  BY <1>1
<1>3. Made(C)
  BY <1>1, <1>2 DEF Packed, Made, Sorted
<1>4. QED
  BY <1>3

LEMMA LanesAre ==
  ASSUME NEW C, Made(C), NEW k \in 1 .. Len(waves)
  PROVE  /\ waves \in Seq(Waves) /\ Len(waves) \in Nat
         /\ waves[k].lanes \in Seq(InCone) /\ Len(waves[k].lanes) \in 1 .. MaxLanes
         /\ Len(waves[k].lanes) \in Nat /\ waves[k].depth \in Nat
         /\ \A l \in 1 .. Len(waves[k].lanes) : waves[k].lanes[l] \in InCone
<1>1. waves \in Seq(Waves) /\ Len(waves[k].lanes) \in 1 .. MaxLanes
  BY DEF Made, Holds, Waves
<1>2. waves[k].lanes \in Seq(InCone) /\ waves[k].depth \in 1 .. MaxDepth
  BY <1>1, WaveIs
<1>3. QED
  BY <1>1, <1>2

\* A macro of the cone has a lane, and no other.
LEMMA LaneIs ==
  ASSUME NEW C, Made(C), NEW m \in InCone
  PROVE  \E k \in 1 .. Len(waves) : \E l \in 1 .. Len(waves[k].lanes) :
           /\ waves[k].lanes[l] = m
           /\ \A j \in 1 .. Len(waves) : \A i \in 1 .. Len(waves[j].lanes) :
                waves[j].lanes[i] = m => j = k /\ i = l
<1>1. PICK c \in C : \E i \in 1 .. Len(c.lanes) : c.lanes[i] = m
  BY DEF Made, In
<1>2. PICK i \in 1 .. Len(c.lanes) : c.lanes[i] = m
  BY <1>1
<1>3. Run(c)
  BY DEF Made, Chained
<1>4. PICK k \in 1 .. Len(waves) : \E off \in Nat : At(waves[k], c, off)
  BY DEF Made, Holds
<1>5. PICK off \in Nat : At(waves[k], c, off)
  BY <1>4
<1>6. Len(c.lanes) \in Nat /\ Len(waves[k].lanes) \in Nat
  BY <1>3, RunIs, LanesAre
<1>7. off + i \in 1 .. Len(waves[k].lanes) /\ waves[k].lanes[off + i] = m
  BY <1>2, <1>5, <1>6 DEF At
<1>8. \A j \in 1 .. Len(waves) : \A n \in 1 .. Len(waves[j].lanes) :
        waves[j].lanes[n] = m => j = k /\ n = off + i
  BY <1>4, <1>7, SingleIs DEF Made
<1>9. QED
  BY <1>7, <1>8

LEMMA OneLane ==
  ASSUME NEW C, Made(C), NEW m \in InCone
  PROVE  Cardinality(LanesOf(m)) = 1
<1>1. PICK k \in 1 .. Len(waves) : \E l \in 1 .. Len(waves[k].lanes) :
        /\ waves[k].lanes[l] = m
        /\ \A j \in 1 .. Len(waves) : \A i \in 1 .. Len(waves[j].lanes) :
             waves[j].lanes[i] = m => j = k /\ i = l
  BY LaneIs
<1>2. PICK l \in 1 .. Len(waves[k].lanes) :
        /\ waves[k].lanes[l] = m
        /\ \A j \in 1 .. Len(waves) : \A i \in 1 .. Len(waves[j].lanes) :
             waves[j].lanes[i] = m => j = k /\ i = l
  BY <1>1
<1>3. l \in 1 .. MaxLanes /\ l <= Len(waves[k].lanes)
  BY LanesAre, BoundAssumption
<1>4. <<k, l>> \in LanesOf(m)
  BY <1>2, <1>3 DEF LanesOf
<1>5. ASSUME NEW x \in LanesOf(m) PROVE x = <<k, l>>
  <2>1. /\ x \in (1 .. Len(waves)) \X (1 .. MaxLanes) /\ x[2] <= Len(waves[x[1]].lanes)
        /\ waves[x[1]].lanes[x[2]] = m
    BY DEF LanesOf
  <2>2. x[1] \in 1 .. Len(waves) /\ x[2] \in 1 .. MaxLanes /\ x = <<x[1], x[2]>>
    BY <2>1
  <2>3. x[2] \in 1 .. Len(waves[x[1]].lanes)
    BY <2>1, <2>2, LanesAre
  <2>4. x[1] = k /\ x[2] = l
    BY <1>2, <2>1, <2>2, <2>3
  <2>5. QED
    BY <2>2, <2>4
<1>6. LanesOf(m) = {<<k, l>>}
  BY <1>4, <1>5
<1>7. QED
  BY <1>6, FS_Singleton

(***************************************************************************)
(* However chains are cut at MaxLanes and joined into waves, every macro   *)
(* of the cone gets exactly one lane of one wave.                          *)
(***************************************************************************)
THEOREM PlacedOnceHolds == Spec => []PlacedOnce
<1>1. Inductive => PlacedOnce
  <2> SUFFICES ASSUME Inductive PROVE PlacedOnce
    OBVIOUS
  <2>1. TypeOK
    BY TypesFollow
  <2>2. ASSUME pc = "done"
        PROVE  /\ \A m \in InCone : Cardinality(LanesOf(m)) = 1
               /\ \A k \in 1 .. Len(waves) :
                    ToSet(waves[k].lanes) \subseteq InCone /\ waves[k].lanes # << >>
    <3>1. PICK C : Made(C)
      BY <2>2, DoneMade
    <3>2. \A m \in InCone : Cardinality(LanesOf(m)) = 1
      BY <3>1, OneLane
    <3>3. ASSUME NEW k \in 1 .. Len(waves)
          PROVE  ToSet(waves[k].lanes) \subseteq InCone /\ waves[k].lanes # << >>
      <4>1. waves[k].lanes \in Seq(InCone) /\ Len(waves[k].lanes) \in 1 .. MaxLanes
        BY <3>1, LanesAre
      <4>2. QED
        BY <4>1 DEF ToSet
    <3>4. QED
      BY <3>2, <3>3
  <2>3. QED
    BY <2>1, <2>2 DEF PlacedOnce
<1>2. QED
  BY <1>1, InductiveHolds, PTL

-----------------------------------------------------------------------------
(* What a macro gathers through gates.                                     *)

Spread(r) == r \cup UNION {net.gate[x[1]] : x \in {y \in r : ~IsMacroPin(y)}}

Through(f, pin) ==
  f = [n \in 0 .. Cardinality(Gate) |-> IF n = 0 THEN {pin} ELSE Spread(f[n - 1])]

LEMMA SourcesDef ==
  ASSUME NEW pin, \E f : Through(f, pin)
  PROVE  \E f : Through(f, pin) /\ Sources(pin) = {q \in f[Cardinality(Gate)] : IsMacroPin(q)}
<1> DEFINE w == CHOOSE f : Through(f, pin)
<1>1. Through(w, pin)
  OBVIOUS
<1>2. Sources(pin) = {q \in w[Cardinality(Gate)] : IsMacroPin(q)}
  BY DEF Sources, Through, Spread
<1>3. QED
  BY <1>1, <1>2

LEMMA SpreadIs ==
  ASSUME net \in Nets, NEW r \in SUBSET Pin(net)
  PROVE  /\ Spread(r) \subseteq Pin(net)
         /\ \A q \in Spread(r) : q \in r \/ \E x \in r : ~IsMacroPin(x) /\ q \in Fanin(net, x)
<1>1. ASSUME NEW x \in r, ~IsMacroPin(x) PROVE net.gate[x[1]] = Fanin(net, x)
  BY <1>1 DEF Fanin, IsMacroPin
<1>2. \A x \in r : Fanin(net, x) \subseteq Pin(net)
  BY FaninIs
<1>3. ASSUME NEW q \in Spread(r), q \notin r
      PROVE  \E x \in r : ~IsMacroPin(x) /\ q \in Fanin(net, x)
  <2>1. PICK x \in r : ~IsMacroPin(x) /\ q \in net.gate[x[1]]
    BY <1>3 DEF Spread
  <2>2. QED
    BY <1>1, <2>1
<1>4. QED
  BY <1>2, <1>3

LEMMA ThroughExists ==
  ASSUME net \in Nets, NEW pin \in Pin(net)
  PROVE  \E f : Through(f, pin)
<1> DEFINE S == SUBSET Pin(net)
           N == Cardinality(Gate)
           F == [x \in Nat \X S |-> Spread(x[2])]
<1>1. N \in Nat /\ {pin} \in S
  BY IndexAssumption, FS_CardinalityType
<1>2. F \in [Nat \X S -> S]
  <2>1. ASSUME NEW x \in Nat \X S PROVE Spread(x[2]) \in S
    <3>1. x[2] \in SUBSET Pin(net)
      OBVIOUS
    <3>2. QED
      BY <3>1, SpreadIs
  <2>2. QED
    BY <2>1
<1>3. \E f \in [0 .. N -> S] : Recurs(f, {pin}, F, N)
  <2> HIDE DEF S, N, F
  <2> QED BY <1>1, <1>2, RecursionExists
<1>4. PICK f \in [0 .. N -> S] : Recurs(f, {pin}, F, N)
  BY <1>3
<1>5. ASSUME NEW k \in 0 .. N
      PROVE  f[k] = IF k = 0 THEN {pin} ELSE Spread(f[k - 1])
  <2>1. CASE k = 0
    BY <2>1, <1>4 DEF Recurs
  <2>2. CASE k # 0
    <3>1. k \in 1 .. N /\ k - 1 \in 0 .. N /\ k \in Nat
      BY <1>1, <2>2
    <3>2. f[k - 1] \in S
      BY <3>1
    <3>3. f[k] = F[<<k, f[k - 1]>>]
      BY <3>1, <1>4 DEF Recurs
    <3>4. <<k, f[k - 1]>> \in Nat \X S
      BY <3>1, <3>2
    <3>5. F[<<k, f[k - 1]>>] = Spread(f[k - 1])
      BY <3>4
    <3>6. QED
      BY <2>2, <3>3, <3>5
  <2>3. QED
    BY <2>1, <2>2
<1>6. Through(f, pin)
  BY <1>5 DEF Through
<1>7. QED
  BY <1>6

\* What holds of a pin and passes from a gate to what it reads holds of its sources.
LEMMA SourcesIn ==
  ASSUME net \in Nets, NEW R, NEW pin \in R, R \subseteq Pin(net),
         \A x \in R : ~IsMacroPin(x) => Fanin(net, x) \subseteq R
  PROVE  \A q \in Sources(pin) : q \in R /\ IsMacroPin(q)
<1> DEFINE N == Cardinality(Gate)
<1>1. N \in Nat
  BY IndexAssumption, FS_CardinalityType
<1>2. PICK g : Through(g, pin) /\ Sources(pin) = {q \in g[N] : IsMacroPin(q)}
  BY ThroughExists, SourcesDef
<1> DEFINE T == {k \in 0 .. N : g[k] \subseteq R}
<1>3. 0 \in T
  BY <1>1, <1>2 DEF Through
<1>4. ASSUME NEW k \in 0 .. N - 1, k \in T PROVE k + 1 \in T
  <2>1. k + 1 \in 0 .. N /\ k + 1 # 0 /\ (k + 1) - 1 = k
    BY <1>1
  <2>2. g[k + 1] = Spread(g[k])
    BY <1>2, <2>1 DEF Through
  <2>3. g[k] \subseteq R /\ g[k] \in SUBSET Pin(net)
    BY <1>4
  <2>4. Spread(g[k]) \subseteq R
    BY <2>3, SpreadIs
  <2>5. QED
    BY <2>1, <2>2, <2>4
<1>5. \A k \in 0 .. N : k \in T
  <2> HIDE DEF T, N
  <2> QED BY <1>1, <1>3, <1>4, IntervalInduction
<1>6. QED
  BY <1>1, <1>2, <1>5

\* A macro pin is its own and only source.
LEMMA OwnSource ==
  ASSUME net \in Nets, NEW pin \in Pin(net), IsMacroPin(pin)
  PROVE  \A q \in Sources(pin) : q = pin
<1> DEFINE R == {pin}
<1>1. R \subseteq Pin(net) /\ pin \in R /\ \A x \in R : ~IsMacroPin(x) => Fanin(net, x) \subseteq R
  OBVIOUS
<1>2. \A q \in Sources(pin) : q \in R
  <2> HIDE DEF R
  <2> QED BY <1>1, SourcesIn
<1>3. QED
  BY <1>2

\* Where gates see depths, the macros behind one are no deeper than it is.
LEMMA SourcesDeep ==
  ASSUME Shapes, Deep, pc # "sweep", GatesSeeDepth, NEW pin \in order, ~IsMacroPin(pin)
  PROVE  \A q \in Sources(pin) : q[1] \in Macro /\ macroDepth[q[1]] <= pinDepth[pin]
<1> DEFINE R == {x \in order : /\ pinDepth[x] <= pinDepth[pin]
                               /\ IsMacroPin(x) => pinDepth[x] = macroDepth[x[1]]}
<1>1. /\ net \in Nets /\ order \subseteq Pin(net) /\ swept = order
      /\ \A x \in order : pinDepth[x] \in Nat
  BY DEF Shapes, Deep
<1>2. R \subseteq Pin(net) /\ pin \in R
  BY <1>1
<1>3. ASSUME NEW x \in R, ~IsMacroPin(x), NEW q \in Fanin(net, x) PROVE q \in R
  <2>1. x \in order /\ Passed(x)
    BY <1>1 DEF Deep
  <2>2. q \in order /\ pinDepth[q] <= pinDepth[x]
    BY <1>1, <1>3, <2>1 DEF Passed
  <2>3. pinDepth[q] <= pinDepth[pin]
    BY <1>1, <2>1, <2>2
  <2>4. IsMacroPin(q) => pinDepth[q] = macroDepth[q[1]]
    BY <1>3, <2>1 DEF GatesSeeDepth
  <2>5. QED
    BY <2>2, <2>3, <2>4
<1>4. \A q \in Sources(pin) : q \in R /\ IsMacroPin(q)
  <2> HIDE DEF R
  <2> QED BY <1>1, <1>2, <1>3, SourcesIn
<1>5. QED
  BY <1>4 DEF IsMacroPin

-----------------------------------------------------------------------------
(* The waves are in order.                                                 *)

LEMMA WaveOfIs ==
  ASSUME NEW C, Made(C), NEW k \in 1 .. Len(waves), NEW l \in 1 .. Len(waves[k].lanes)
  PROVE  WaveOf(waves[k].lanes[l]) = k
<1> DEFINE m == waves[k].lanes[l]
<1>1. \A j \in 1 .. Len(waves) : \A x : x \in ToSet(waves[j].lanes)
                                  <=> \E i \in 1 .. Len(waves[j].lanes) : waves[j].lanes[i] = x
  <2> TAKE j \in 1 .. Len(waves)
  <2>1. waves[j].lanes \in Seq(InCone)
    BY LanesAre
  <2>2. DOMAIN waves[j].lanes = 1 .. Len(waves[j].lanes)
    BY <2>1
  <2>3. QED
    BY <2>2 DEF ToSet
<1>2. m \in ToSet(waves[k].lanes)
  BY <1>1
<1>3. ASSUME NEW j \in 1 .. Len(waves), m \in ToSet(waves[j].lanes) PROVE j = k
  <2>1. PICK i \in 1 .. Len(waves[j].lanes) : waves[j].lanes[i] = m
    BY <1>1, <1>3
  <2>2. QED
    BY <1>3, <2>1, SingleIs DEF Made
<1>4. QED
  BY <1>2, <1>3 DEF WaveOf

\* The lanes a chain takes up, and which of its lanes they are.
LEMMA TakenIs ==
  ASSUME NEW C, Made(C), NEW k \in 1 .. Len(waves), NEW c \in C, NEW off \in Nat, At(waves[k], c, off)
  PROVE  /\ off \in Nat /\ Run(c) /\ Len(c.lanes) \in 1 .. MaxLanes /\ Len(c.lanes) \in Nat
         /\ \A i \in 1 .. Len(c.lanes) : /\ off + i \in 1 .. Len(waves[k].lanes)
                                         /\ waves[k].lanes[off + i] = c.lanes[i]
         /\ waves[k].depth = macroDepth[c.lanes[1]] /\ c.lanes[1] = waves[k].lanes[off + 1]
         /\ off + 1 \in 1 .. Len(waves[k].lanes)
<1>1. Run(c) /\ off \in Nat
  BY DEF Made, Chained, At
<1>2. /\ Len(c.lanes) \in 1 .. MaxLanes /\ Len(c.lanes) \in Nat /\ c.depth = macroDepth[c.lanes[1]]
      /\ Len(waves[k].lanes) \in Nat /\ 1 \in 1 .. Len(c.lanes)
  BY <1>1, RunIs, LanesAre
<1>3. off + Len(c.lanes) <= Len(waves[k].lanes) /\ waves[k].depth = c.depth
      /\ \A i \in 1 .. Len(c.lanes) : waves[k].lanes[off + i] = c.lanes[i]
  BY DEF At
<1>4. \A i \in 1 .. Len(c.lanes) : off + i \in 1 .. Len(waves[k].lanes)
  BY <1>1, <1>2, <1>3
<1>5. QED
  BY <1>1, <1>2, <1>3, <1>4

LEMMA TakenLane ==
  ASSUME NEW C, Made(C), NEW k \in 1 .. Len(waves), NEW c \in C, NEW off \in Nat,
         At(waves[k], c, off), NEW i \in 1 .. Len(c.lanes)
  PROVE  off + i \in 1 .. Len(waves[k].lanes) /\ waves[k].lanes[off + i] = c.lanes[i]
BY TakenIs

\* Within a chain no lane is a chain start.
LEMMA InnerLane ==
  ASSUME Shapes, Linked, NEW C, Made(C), NEW k \in 1 .. Len(waves),
         NEW c \in C, NEW off \in Nat, At(waves[k], c, off), NEW i \in 2 .. Len(c.lanes)
  PROVE  /\ ~IsChainStart(k, off + i)
         /\ <<waves[k].lanes[off + i - 1], waves[k].lanes[off + i]>> \in succ
<1>1. off \in Nat /\ Run(c) /\ Len(c.lanes) \in Nat
  BY TakenIs
<1>2. i \in 1 .. Len(c.lanes) /\ i - 1 \in 1 .. Len(c.lanes) /\ off + i - 1 = off + (i - 1)
      /\ off + i # 1
  BY <1>1
<1>3. waves[k].lanes[off + i] = c.lanes[i] /\ waves[k].lanes[off + i - 1] = c.lanes[i - 1]
  <2>1. \A j \in 1 .. Len(c.lanes) : waves[k].lanes[off + j] = c.lanes[j]
    BY TakenLane
  <2>2. waves[k].lanes[off + i] = c.lanes[i] /\ waves[k].lanes[off + (i - 1)] = c.lanes[i - 1]
    BY <1>2, <2>1
  <2>3. QED
    BY <1>2, <2>2
<1>4. <<c.lanes[i - 1], c.lanes[i]>> \in succ
  BY <1>1, RunIs
<1>5. IsCarry4(c.lanes[i - 1]) /\ IsCarry4(c.lanes[i])
      /\ net.wire[c.lanes[i]]["ci"] = <<c.lanes[i - 1], "co">>
  BY <1>4, LinkIs
<1>6. PICK n : n = off + i
  OBVIOUS
<1>7. ~IsChainStart(k, n)
  <2>1. n # 1 /\ n - 1 = off + i - 1
    BY <1>2, <1>6
  <2>2. waves[k].lanes[n] = c.lanes[i] /\ waves[k].lanes[n - 1] = c.lanes[i - 1]
    BY <1>3, <1>6, <2>1
  <2>3. QED
    BY <1>5, <2>1, <2>2, Zenon DEF IsChainStart
<1>8. QED
  BY <1>3, <1>4, <1>6, <1>7

\* Behind a chain start, the lanes of its chain are keyed by it.
LEMMA KeyIs ==
  ASSUME Shapes, Linked, NEW C, Made(C), NEW k \in 1 .. Len(waves),
         NEW c \in C, NEW off \in Nat, At(waves[k], c, off), IsChainStart(k, off + 1),
         NEW i \in 1 .. Len(c.lanes)
  PROVE  HeadOf(k, off + i) = c.lanes[1]
<1> DEFINE S == {j \in 1 .. off + i : IsChainStart(k, j)}
<1>1. off \in Nat /\ Len(c.lanes) \in Nat /\ off + 1 \in S
  BY TakenIs
<1>2. ASSUME NEW j \in S, j > off + 1 PROVE FALSE
  <2>1. j - off \in 2 .. Len(c.lanes) /\ off + (j - off) = j
    BY <1>1, <1>2
  <2>2. ~IsChainStart(k, off + (j - off))
    BY <2>1, InnerLane
  <2>3. QED
    BY <2>1, <2>2
<1>3. \A j \in S : j \in Nat /\ j <= off + 1
  BY <1>1, <1>2
<1>4. MaxOf(S) \in S /\ \A y \in S : y <= MaxOf(S)
  <2>1. off + i \in Nat /\ S \in SUBSET (0 .. off + i) /\ S # {}
    BY <1>1
  <2> HIDE DEF S
  <2>2. QED
    BY <2>1, MaxIs
<1>5. MaxOf(S) = off + 1
  <2> HIDE DEF S
  <2>1. MaxOf(S) <= off + 1 /\ off + 1 <= MaxOf(S) /\ MaxOf(S) \in Nat
    BY <1>1, <1>3, <1>4
  <2>2. QED
    BY <1>1, <2>1
<1>6. HeadOf(k, off + i) = waves[k].lanes[off + 1]
  BY <1>5 DEF HeadOf
<1>7. QED
  BY <1>6, TakenIs

LEMMA CoveredIs ==
  ASSUME NEW C, Made(C), NEW k \in 1 .. Len(waves), NEW l \in 1 .. Len(waves[k].lanes)
  PROVE  \E c \in C : \E off \in Nat : At(waves[k], c, off) /\ l - off \in 1 .. Len(c.lanes)
<1>1. PICK c \in C : \E off \in Nat : At(waves[k], c, off) /\ l \in off + 1 .. off + Len(c.lanes)
  BY DEF Made, Holds
<1>2. PICK off \in Nat : At(waves[k], c, off) /\ l \in off + 1 .. off + Len(c.lanes)
  BY <1>1
<1>3. Len(c.lanes) \in Nat
  BY <1>2, TakenIs
<1>4. l - off \in 1 .. Len(c.lanes)
  BY <1>2, <1>3
<1>5. QED
  BY <1>2, <1>4

\* A macro is at least as deep as the wave it is in.
LEMMA NoShallower ==
  ASSUME Shapes, Linked, KeyedByHead, NEW C, Made(C), NEW k \in 1 .. Len(waves),
         NEW c \in C, NEW off \in Nat, At(waves[k], c, off), IsChainStart(k, off + 1),
         NEW i \in 1 .. Len(c.lanes)
  PROVE  waves[k].depth <= macroDepth[c.lanes[i]]
<1>1. /\ off \in Nat /\ Len(c.lanes) \in Nat /\ waves[k].depth = macroDepth[c.lanes[1]]
      /\ waves[k].depth \in Nat
  BY TakenIs, LanesAre
<1>2. CASE i = 1
  BY <1>1, <1>2
<1>3. CASE i # 1
  <2>1. /\ i \in 2 .. Len(c.lanes) /\ i - 1 \in 1 .. Len(c.lanes) /\ off + i - 1 = off + (i - 1)
    BY <1>1, <1>3
  <2>2. /\ off + (i - 1) \in 1 .. Len(waves[k].lanes) /\ waves[k].lanes[off + (i - 1)] = c.lanes[i - 1]
        /\ waves[k].lanes[off + i] = c.lanes[i]
    <3>1. \A j \in 1 .. Len(c.lanes) : /\ off + j \in 1 .. Len(waves[k].lanes)
                                       /\ waves[k].lanes[off + j] = c.lanes[j]
      BY TakenLane
    <3>2. QED
      BY <2>1, <3>1
  <2>3. <<c.lanes[i - 1], c.lanes[i]>> \in succ
    BY <2>1, <2>2, InnerLane
  <2>4. c.lanes[i] \in Following(waves[k].lanes[off + (i - 1)])
    BY <2>2, <2>3, FollowingIs
  <2>5. HeadOf(k, off + (i - 1)) = c.lanes[1]
    BY <2>1, KeyIs
  <2>6. macroDepth[c.lanes[1]] < macroDepth[c.lanes[i]]
    BY <2>2, <2>4, <2>5 DEF KeyedByHead
  <2>7. c.lanes[1] \in Macro /\ c.lanes[i] \in Macro
    BY <1>1, RunIs, TakenIs, InConeIs
  <2>8. macroDepth[c.lanes[1]] \in Nat /\ macroDepth[c.lanes[i]] \in Nat
    BY <2>7 DEF Shapes
  <2>9. QED
    BY <1>1, <2>6, <2>8
<1>4. QED
  BY <1>2, <1>3

\* A chain's first lane is a chain start, whatever lane comes before it.
LEMMA StartIs ==
  ASSUME Shapes, Linked, Settled, KeyedByHead, pc = "done", NEW C, Made(C),
         NEW k \in 1 .. Len(waves)
  PROVE  \A c \in C : \A off \in Nat : At(waves[k], c, off) => IsChainStart(k, off + 1)
<1> DEFINE T == {n \in Nat : \E c \in C : At(waves[k], c, n) /\ ~IsChainStart(k, n + 1)}
<1>1. T \in SUBSET Nat
  OBVIOUS
<1> SUFFICES ASSUME T # {} PROVE FALSE
  OBVIOUS
<1>2. PICK off \in T : \A n \in T : off <= n
  <2> HIDE DEF T
  <2> QED BY <1>1, LeastNumber
<1>3. PICK c \in C : At(waves[k], c, off) /\ ~IsChainStart(k, off + 1)
  BY <1>2
<1> DEFINE x == waves[k].lanes[off]
           y == waves[k].lanes[off + 1]
<1>4. /\ off \in Nat /\ off # 0 /\ IsCarry4(x) /\ IsCarry4(y) /\ net.wire[y]["ci"] = <<x, "co">>
  <2>1. PICK n : n = off + 1
    OBVIOUS
  <2>2. n # 1 /\ IsCarry4(waves[k].lanes[n]) /\ IsCarry4(waves[k].lanes[n - 1])
        /\ net.wire[waves[k].lanes[n]]["ci"] = <<waves[k].lanes[n - 1], "co">>
    BY <1>3, <2>1, Zenon DEF IsChainStart
  <2>3. off \in Nat /\ n - 1 = off
    BY <1>2, <2>1
  <2>4. QED
    BY <2>1, <2>2, <2>3
<1>5. /\ off + 1 \in 1 .. Len(waves[k].lanes) /\ off \in 1 .. Len(waves[k].lanes)
      /\ y = c.lanes[1] /\ waves[k].depth = macroDepth[y]
      /\ Len(waves[k].lanes) \in 1 .. MaxLanes /\ Len(waves[k].lanes) \in Nat
  <2>1. Len(waves[k].lanes) \in 1 .. MaxLanes /\ Len(waves[k].lanes) \in Nat
    BY LanesAre
  <2>2. off + 1 \in 1 .. Len(waves[k].lanes) /\ y = c.lanes[1] /\ waves[k].depth = macroDepth[c.lanes[1]]
    BY <1>3, <1>4, TakenIs
  <2>3. QED
    BY <1>4, <2>1, <2>2
<1>6. x \in InCone /\ y \in InCone /\ x \in Macro /\ y \in Macro
  BY <1>5, LanesAre, InConeIs
<1>7. x # y
  <2>1. \A l, i \in 1 .. Len(waves[k].lanes) :
          waves[k].lanes[l] = waves[k].lanes[i] => l = i
    BY SingleIs DEF Made
  <2>2. x = y => off = off + 1
    BY <1>5, <2>1, Zenon
  <2>3. QED
    BY <1>4, <2>2
\* A full chain before it would leave it no room.
<1>8. <<x, y>> \notin succ
  <2> SUFFICES ASSUME <<x, y>> \in succ PROVE FALSE
    OBVIOUS
  <2>1. PICK b \in C : Len(b.lanes) = MaxLanes /\ b.lanes[MaxLanes] = x
    BY <1>5, <1>6 DEF Made, Chained, Headed
  <2>2. PICK j \in 1 .. Len(waves) : \E n \in Nat : At(waves[j], b, n)
    BY DEF Made, Holds
  <2>3. PICK n \in Nat : At(waves[j], b, n)
    BY <2>2
  <2>4. MaxLanes \in 1 .. Len(b.lanes) /\ MaxLanes \in Nat
    BY <2>1, BoundAssumption
  <2>5. n + MaxLanes \in 1 .. Len(waves[j].lanes) /\ waves[j].lanes[n + MaxLanes] = x
    <3>1. \A i \in 1 .. Len(b.lanes) : n + i \in 1 .. Len(waves[j].lanes)
                                       /\ waves[j].lanes[n + i] = b.lanes[i]
      BY <2>3, TakenLane
    <3>2. QED
      BY <2>1, <2>4, <3>1
  <2>6. n + MaxLanes = off
    <3>1. \A l \in 1 .. Len(waves[j].lanes) : \A i \in 1 .. Len(waves[k].lanes) :
            waves[j].lanes[l] = waves[k].lanes[i] => l = i
      BY SingleIs DEF Made
    <3>2. QED
      BY <1>5, <2>5, <3>1, Zenon
  <2>7. QED
    BY <1>4, <1>5, <2>4, <2>6, LanesAre
<1>9. x \in Producers(y)
  <2>1. ~HasPred(y)
    <3> SUFFICES ASSUME NEW l \in succ, l[2] = y PROVE FALSE
      BY DEF HasPred
    <3>1. l = <<l[1], y>>
      BY LinkIs
    <3>2. net.wire[y]["ci"] = <<l[1], "co">>
      BY <3>1, LinkIs
    <3>3. <<l[1], "co">> = <<x, "co">>
      BY <1>4, <3>2
    <3>4. l[1] = x
      BY <3>3
    <3>5. QED
      BY <1>8, <3>1, <3>4
  <2>2. <<x, "co">> \in EvalFanin(y)
    <3>1. net.kind[y] = "carry4"
      BY <1>4 DEF IsCarry4
    <3>2. "o" \in Ports[net.kind[y]] /\ "ci" \in CombSlots["o"]
      BY <3>1 DEF Ports, CombSlots
    <3>3. <<x, "co">> # NoPin
      BY DEF NoPin
    <3>4. QED
      BY <1>4, <3>2, <3>3 DEF EvalFanin, Wired
  <2>3. <<x, "co">> \in (EvalFanin(y) \cup StateFanin(y))
                           \ (IF HasPred(y) THEN {net.wire[y]["ci"]} ELSE {})
    BY <2>1, <2>2
  <2>4. x \in InCone \ {y}
    BY <1>6, <1>7
  <2>5. <<x, "co">>[1] = x
    OBVIOUS
  <2> HIDE DEF x, y
  <2>6. QED
    BY <2>3, <2>4, <2>5, Zenon DEF Producers
<1>10. macroDepth[x] < macroDepth[y]
  BY <1>6, <1>9 DEF Settled
\* But what is in the wave before it is no less deep.
<1>11. PICK b \in C : \E n \in Nat : At(waves[k], b, n) /\ off - n \in 1 .. Len(b.lanes)
  BY <1>5, CoveredIs
<1>12. PICK n \in Nat : At(waves[k], b, n) /\ off - n \in 1 .. Len(b.lanes)
  BY <1>11
<1>13. n < off /\ n + (off - n) = off
  <2>1. Len(b.lanes) \in Nat
    BY <1>12, TakenIs
  <2>2. QED
    BY <1>4, <1>12, <2>1
<1>14. IsChainStart(k, n + 1)
  <2> SUFFICES ASSUME ~IsChainStart(k, n + 1) PROVE FALSE
    OBVIOUS
  <2>1. n \in T
    BY <1>12
  <2>2. off <= n
    BY <1>2, <2>1
  <2>3. QED
    BY <1>4, <1>13, <2>2
<1>15. waves[k].depth <= macroDepth[b.lanes[off - n]]
  BY <1>12, <1>14, NoShallower
<1>16. b.lanes[off - n] = x
  <2>1. waves[k].lanes[n + (off - n)] = b.lanes[off - n]
    BY <1>12, TakenLane
  <2>2. QED
    BY <1>13, <2>1
<1>17. macroDepth[x] \in Nat /\ macroDepth[y] \in Nat
  BY <1>6 DEF Shapes
<1>18. QED
  BY <1>5, <1>10, <1>15, <1>16, <1>17

\* The wave of a macro is no deeper than the macro, and as deep as the head of its chain.
LEMMA WaveDepth ==
  ASSUME Shapes, Linked, Settled, KeyedByHead, pc = "done", NEW C, Made(C),
         NEW k \in 1 .. Len(waves), NEW l \in 1 .. Len(waves[k].lanes)
  PROVE  /\ waves[k].depth = macroDepth[HeadOf(k, l)]
         /\ waves[k].depth <= macroDepth[waves[k].lanes[l]]
         /\ IsChainStart(k, l) => HeadOf(k, l) = waves[k].lanes[l]
<1>1. PICK c \in C : \E off \in Nat : At(waves[k], c, off) /\ l - off \in 1 .. Len(c.lanes)
  BY CoveredIs
<1>2. PICK off \in Nat : At(waves[k], c, off) /\ l - off \in 1 .. Len(c.lanes)
  BY <1>1
<1>3. PICK i \in 1 .. Len(c.lanes) : i = l - off
  BY <1>2
<1>4. Len(c.lanes) \in Nat /\ l = off + i
  BY <1>2, <1>3, TakenIs
<1>5. IsChainStart(k, off + 1)
  BY <1>2, StartIs
<1>6. HeadOf(k, l) = c.lanes[1] /\ waves[k].depth = macroDepth[c.lanes[1]]
  BY <1>2, <1>4, <1>5, KeyIs, TakenIs
<1>7. waves[k].lanes[l] = c.lanes[i] /\ waves[k].depth <= macroDepth[c.lanes[i]]
  BY <1>2, <1>4, <1>5, NoShallower, TakenLane
<1>8. ASSUME IsChainStart(k, l) PROVE i = 1
  <2> SUFFICES ASSUME i # 1 PROVE FALSE
    OBVIOUS
  <2>1. i \in 2 .. Len(c.lanes)
    BY <1>4
  <2>2. ~IsChainStart(k, off + i)
    BY <1>2, <2>1, InnerLane
  <2>3. QED
    BY <1>4, <1>8, <2>2
<1>9. QED
  BY <1>6, <1>7, <1>8

LEMMA WaveAt ==
  ASSUME NEW C, Made(C), NEW p \in InCone
  PROVE  /\ WaveOf(p) \in 1 .. Len(waves)
         /\ \E i \in 1 .. Len(waves[WaveOf(p)].lanes) : waves[WaveOf(p)].lanes[i] = p
<1>1. PICK k \in 1 .. Len(waves) : \E l \in 1 .. Len(waves[k].lanes) : waves[k].lanes[l] = p
  BY LaneIs
<1>2. WaveOf(p) = k
  BY <1>1, WaveOfIs
<1>3. QED
  BY <1>1, <1>2

\* A macro that is gathered is shallower than the wave that gathers it, or a chain's
\* head continues it.
LEMMA GatheredIs ==
  ASSUME Inductive, KeyedByHead, GatesSeeDepth, NoneReadsItself, pc = "done", NEW C, Made(C),
         NEW k \in 1 .. Len(waves), NEW l \in 1 .. Len(waves[k].lanes), NEW p \in Gathered(k, l)
  PROVE  /\ p \in InCone
         /\ \/ macroDepth[p] < waves[k].depth
            \/ /\ waves[k].lanes[l] \in Following(p)
               /\ waves[k].depth = macroDepth[waves[k].lanes[l]]
<1>1. Shapes /\ Deep /\ Linked /\ Settled /\ net \in Nets /\ order \subseteq Pin(net)
      /\ swept = order
  BY DEF Inductive, Shapes, Deep
<1>2. p \in InCone
  BY DEF Gathered
<1>3. /\ waves[k].depth = macroDepth[HeadOf(k, l)]
      /\ IsChainStart(k, l) => HeadOf(k, l) = waves[k].lanes[l]
  BY <1>1, WaveDepth
<1>4. CASE ~IsChainStart(k, l)
  BY <1>2, <1>3, <1>4 DEF KeyedByHead
<1>5. CASE IsChainStart(k, l)
  <2>1. PICK m : m = waves[k].lanes[l]
    OBVIOUS
  <2>2. m \in InCone /\ m \in Macro /\ waves[k].depth = macroDepth[m]
    BY <1>1, <1>3, <1>5, <2>1, LanesAre, InConeIs
  <2>3. PICK pin \in EvalFanin(m) \cup StateFanin(m) : \E q \in Sources(pin) :
           ~(q = <<m, "q31">> \/ q = <<m, "q">>) /\ p = q[1]
    <3> DEFINE own == UNION {CombSlots[o] : o \in Ports[net.kind[m]]}
    <3>1. own \ (IF IsChainStart(k, l) THEN {} ELSE {"ci"}) = own
      BY <1>5
    <3>2. Wired(net, m, own) = EvalFanin(m)
      BY DEF EvalFanin
    <3>3. QED
      BY <2>1, <3>1, <3>2, Zenon DEF Gathered
  <2>4. PICK q \in Sources(pin) : ~(q = <<m, "q31">> \/ q = <<m, "q">>) /\ p = q[1]
    BY <2>3
  <2>5. ASSUME NEW x \in Wired(net, m, Needed(m))
        PROVE  \E o \in Ports[net.kind[m]] : <<m, o>> \in order /\ x \in Fanin(net, <<m, o>>)
    <3>1. PICK s \in Needed(m) : x = net.wire[m][s] /\ x # NoPin
      BY DEF Wired
    <3>2. PICK o \in Ports[net.kind[m]] : <<m, o>> \in order /\ s \in CombSlots[o]
      BY <3>1 DEF Needed
    <3>3. x \in Wired(net, m, CombSlots[o])
      BY <3>1, <3>2 DEF Wired
    <3>4. Fanin(net, <<m, o>>) = Wired(net, m, CombSlots[o])
      BY <2>2 DEF Fanin
    <3>5. QED
      BY <3>2, <3>3, <3>4
  <2>6. pin \in EvalFanin(m) \cup StateFanin(m) /\ pin \in Pin(net)
    <3>1. EvalFanin(m) \subseteq Pin(net) /\ StateFanin(m) \subseteq Pin(net)
      BY <1>1, <2>2, EvalFaninIs, StateFaninIs
    <3>2. QED
      BY <2>3, <3>1
  <2>7. CASE IsMacroPin(pin)
    <3>1. q = pin /\ p = pin[1]
      BY <1>1, <2>4, <2>6, <2>7, OwnSource
    <3>2. p # m
      <4> SUFFICES ASSUME p = m PROVE FALSE
        OBVIOUS
      <4>1. pin \in StateFanin(m) => ~IsCarry4(m)
        BY <1>1, <2>2, NetIs, SlotsAre DEF StateFanin, Wired, IsCarry4
      <4>2. pin \in EvalFanin(m) => ~IsCarry4(m)
        BY <2>2, <3>1 DEF NoneReadsItself
      <4>3. net.kind[m] \in Kind /\ net.kind[m] # "carry4"
        BY <1>1, <2>2, <2>6, <4>1, <4>2, NetIs DEF IsCarry4
      <4>4. pin[2] \in {"q", "q31"} /\ pin = <<m, pin[2]>>
        BY <2>6, <2>7, <3>1, <4>3, PinIs, SlotsAre
      <4>5. QED
        BY <2>4, <3>1, <4>4
    <3>3. CASE HasPred(m) /\ pin = net.wire[m]["ci"]
      <4>1. PICK s \in succ : s[2] = m
        BY <3>3 DEF HasPred
      <4>2. s = <<s[1], m>>
        BY <1>1, <4>1, LinkIs
      <4>3. net.wire[m]["ci"] = <<s[1], "co">>
        BY <1>1, <4>1, <4>2, LinkIs
      <4>4. p = s[1]
        BY <3>1, <3>3, <4>3
      <4>5. m \in Following(p)
        BY <1>1, <4>1, <4>2, <4>4, FollowingIs
      <4>6. QED
        BY <1>2, <2>1, <2>2, <4>5
    <3>4. CASE ~(HasPred(m) /\ pin = net.wire[m]["ci"])
      <4>1. pin \in (EvalFanin(m) \cup StateFanin(m))
                       \ (IF HasPred(m) THEN {net.wire[m]["ci"]} ELSE {})
        BY <2>6, <3>4
      <4>2. p \in InCone \ {m} /\ p = pin[1]
        BY <1>2, <3>1, <3>2
      <4>3. p \in Producers(m)
        BY <4>1, <4>2, Zenon DEF Producers
      <4>4. macroDepth[p] < macroDepth[m]
        BY <1>1, <2>2, <4>3 DEF Settled
      <4>5. QED
        BY <1>2, <2>2, <4>4
    <3>5. QED
      BY <3>3, <3>4
  <2>8. CASE ~IsMacroPin(pin)
    <3>1. pin \in Wired(net, m, Needed(m))
      BY <2>2, <2>6, <2>8 DEF GatesSeeDepth
    <3>2. PICK o \in Ports[net.kind[m]] : <<m, o>> \in order /\ pin \in Fanin(net, <<m, o>>)
      BY <2>5, <3>1
    <3>3. Passed(<<m, o>>) /\ IsMacroPin(<<m, o>>) /\ <<m, o>>[1] = m
      BY <1>1, <2>2, <3>2 DEF Deep, IsMacroPin
    <3>4. pinDepth[pin] < pinDepth[<<m, o>>] /\ pinDepth[<<m, o>>] <= macroDepth[m] /\ pin \in order
      BY <1>1, <3>2, <3>3 DEF Passed
    <3>5. q[1] \in Macro /\ macroDepth[q[1]] <= pinDepth[pin]
      BY <1>1, <2>4, <2>8, <3>4, SourcesDeep
    <3>6. /\ macroDepth[p] \in Nat /\ macroDepth[m] \in Nat
          /\ pinDepth[pin] \in Nat /\ pinDepth[<<m, o>>] \in Nat
      BY <1>1, <2>2, <2>4, <2>6, <3>2, <3>5 DEF Shapes
    <3>7. macroDepth[p] < macroDepth[m]
      BY <2>4, <3>4, <3>5, <3>6
    <3>8. QED
      BY <1>2, <2>2, <3>7
  <2>9. QED
    BY <2>7, <2>8
<1>6. QED
  BY <1>4, <1>5

(***************************************************************************)
(* Where chains are keyed by their heads, gates see the depth of what they *)
(* read and no CARRY4 reads itself, the waves are in dependency order: no  *)
(* lane gathers what its own or a later wave computes.                     *)
(***************************************************************************)
THEOREM OrderedWhenKeyedHolds == Spec => []OrderedWhenKeyed
<1>1. Inductive => OrderedWhenKeyed
  <2> SUFFICES ASSUME Inductive, pc = "done", KeyedByHead, GatesSeeDepth, NoneReadsItself,
                      NEW k \in 1 .. Len(waves), NEW l \in 1 .. Len(waves[k].lanes),
                      NEW p \in Gathered(k, l)
               PROVE  WaveOf(p) < k
    BY DEF OrderedWhenKeyed, WavesOrdered
  <2>1. PICK C : Made(C)
    BY DoneMade
  <2>2. p \in InCone
    BY <2>1, GatheredIs
  <2>3. PICK j : j = WaveOf(p)
    OBVIOUS
  <2>4. j \in 1 .. Len(waves) /\ \E i \in 1 .. Len(waves[j].lanes) : waves[j].lanes[i] = p
    BY <2>1, <2>2, <2>3, WaveAt
  <2>5. PICK i \in 1 .. Len(waves[j].lanes) : waves[j].lanes[i] = p
    BY <2>4
  <2>6. Shapes /\ Linked /\ Settled
    BY DEF Inductive
  <2>7. waves[j].depth = macroDepth[HeadOf(j, i)] /\ waves[j].depth <= macroDepth[p]
    BY <2>1, <2>4, <2>5, <2>6, WaveDepth
  <2>8. waves[j].depth \in Nat /\ waves[k].depth \in Nat /\ macroDepth[p] \in Nat
    <3>1. waves[j].depth \in Nat
      BY <2>1, <2>4, LanesAre
    <3>2. waves[k].depth \in Nat
      BY <2>1, LanesAre
    <3>3. p \in Macro /\ macroDepth[p] \in 0 .. MaxDepth
      BY <2>2, <2>6, InConeIs DEF Shapes
    <3>4. QED
      BY <3>1, <3>2, <3>3
  <2>9. waves[j].depth < waves[k].depth
    <3>1. CASE macroDepth[p] < waves[k].depth
      BY <2>7, <2>8, <3>1
    <3>2. CASE waves[k].lanes[l] \in Following(p)
               /\ waves[k].depth = macroDepth[waves[k].lanes[l]]
      <4>1. macroDepth[HeadOf(j, i)] < macroDepth[waves[k].lanes[l]]
        BY <2>4, <2>5, <3>2 DEF KeyedByHead
      <4>2. QED
        BY <2>7, <3>2, <4>1
    <3>3. QED
      BY <2>1, <3>1, <3>2, GatheredIs
  <2>10. k <= j => waves[k].depth <= waves[j].depth
    BY <2>1, <2>4 DEF Made
  <2>11. QED
    BY <2>1, <2>3, <2>4, <2>8, <2>9, <2>10
<1>2. QED
  BY <1>1, InductiveHolds, PTL

=============================================================================
