----------------------------- MODULE Induction ------------------------------
(***************************************************************************)
(* Induction over the natural numbers and recursive functions, stated of   *)
(* sets and functions: what the proofs about the other modules share.      *)
(***************************************************************************)
EXTENDS Integers, NaturalsInduction, WellFoundedInduction, TLAPS

LEMMA LessIsOrdered ==
  \A m, n \in Nat : m < n => <<m, n>> \in OpToRel(<, Nat)
<1> SUFFICES ASSUME NEW m \in Nat, NEW n \in Nat, m < n PROVE <<m, n>> \in OpToRel(<, Nat)
  OBVIOUS
<1>1. <<m, n>> \in Nat \X Nat /\ <<m, n>>[1] = m /\ <<m, n>>[2] = n
  BY SMT
<1>2. QED
  BY <1>1, Zenon DEF OpToRel

\* Every set of natural numbers that is not empty has a least element.
LEMMA LeastNumber ==
  ASSUME NEW T \in SUBSET Nat, T # {}
  PROVE  \E n \in T : \A m \in T : n <= m
<1>1. PICK n \in T : \A m \in T : ~(<<m, n>> \in OpToRel(<, Nat))
  BY NatLessThanWellFounded, WFMin
<1>2. \A m \in T : ~(m < n)
  BY <1>1, LessIsOrdered, Zenon
<1>3. QED
  BY <1>2, SMT

\* And, if it is bounded, a greatest one.
LEMMA GreatestNumber ==
  ASSUME NEW b \in Nat, NEW T \in SUBSET (0 .. b), T # {}
  PROVE  \E n \in T : \A m \in T : m <= n
<1> DEFINE U == {b - n : n \in T}
<1>1. U \in SUBSET Nat /\ U # {}
  <2>1. \A n \in T : b - n \in Nat
    OBVIOUS
  <2>2. PICK t : t \in T
    OBVIOUS
  <2>3. b - t \in U
    BY <2>2
  <2>4. QED
    BY <2>1, <2>3
<1>2. PICK u \in U : \A v \in U : u <= v
  <2> HIDE DEF U
  <2> QED BY <1>1, LeastNumber
<1>3. PICK n \in T : u = b - n
  BY <1>2
<1>4. ASSUME NEW m \in T PROVE m <= n
  <2>1. b - m \in U
    OBVIOUS
  <2>2. b - n <= b - m
    BY <1>2, <1>3, <2>1
  <2>3. QED
    BY <2>2
<1>5. QED
  BY <1>4

LEMMA SetInduction ==
  ASSUME NEW T \in SUBSET Nat, 0 \in T, \A n \in T : n + 1 \in T
  PROVE  T = Nat
<1> SUFFICES ASSUME Nat \ T # {} PROVE FALSE
  OBVIOUS
<1>1. PICK n \in Nat \ T : \A m \in Nat \ T : n <= m
  BY LeastNumber
<1>2. n # 0 /\ n - 1 \in Nat /\ n - 1 \in T
  BY <1>1, SMT
<1>3. QED
  BY <1>2, SMT

LEMMA IntervalInduction ==
  ASSUME NEW b \in Nat, NEW T, 0 \in T, \A n \in 0 .. b - 1 : n \in T => n + 1 \in T
  PROVE  \A n \in 0 .. b : n \in T
<1> DEFINE U == {n \in Nat : n <= b => n \in T}
<1>1. U \in SUBSET Nat /\ 0 \in U
  OBVIOUS
<1>2. ASSUME NEW n \in U PROVE n + 1 \in U
  OBVIOUS
<1>3. U = Nat
  <2> HIDE DEF U
  <2> QED BY <1>1, <1>2, SetInduction
<1>4. QED
  BY <1>3

Recurs(f, x, F, N) ==
  /\ f[0] = x
  /\ \A n \in 1 .. N : f[n] = F[<<n, f[n - 1]>>]

\* What is defined by a first value and by each one from the one before exists.
LEMMA RecursionExists ==
  ASSUME NEW S, NEW x \in S, NEW F \in [Nat \X S -> S], NEW N \in Nat
  PROVE  \E f \in [0 .. N -> S] : Recurs(f, x, F, N)
<1> DEFINE T == {n \in Nat : \E f \in [0 .. n -> S] : Recurs(f, x, F, n)}
<1>1. T \in SUBSET Nat
  OBVIOUS
<1>2. 0 \in T
  <2>1. [n \in 0 .. 0 |-> x] \in [0 .. 0 -> S] /\ Recurs([n \in 0 .. 0 |-> x], x, F, 0)
    BY DEF Recurs
  <2>2. QED
    BY <2>1
<1>3. ASSUME NEW n \in T PROVE n + 1 \in T
  <2>1. PICK f \in [0 .. n -> S] : Recurs(f, x, F, n)
    OBVIOUS
  <2> DEFINE y == F[<<n + 1, f[n]>>]
             h == [k \in 0 .. n + 1 |-> IF k = n + 1 THEN y ELSE f[k]]
  <2>2. n \in Nat /\ n + 1 \in Nat
    OBVIOUS
  <2>3. y \in S
    <3>1. f[n] \in S
      BY <2>2
    <3>2. QED
      BY <2>2, <3>1
  <2>4. h \in [0 .. n + 1 -> S]
    <3>1. \A k \in 0 .. n + 1 : k # n + 1 => k \in 0 .. n
      BY <2>2
    <3>2. QED
      BY <2>3, <3>1
  <2>5. h[0] = x
    BY <2>1, <2>2 DEF Recurs
  <2>6. ASSUME NEW k \in 1 .. n + 1 PROVE h[k] = F[<<k, h[k - 1]>>]
    <3>1. k - 1 \in 0 .. n /\ k - 1 # n + 1 /\ h[k - 1] = f[k - 1]
      BY <2>2
    <3>2. CASE k = n + 1
      <4>1. h[k] = y
        BY <2>2, <3>2
      <4>2. k - 1 = n
        BY <2>2, <3>2
      <4>3. QED
        BY <4>1, <4>2, <3>1, <3>2
    <3>3. CASE k # n + 1
      <4>1. k \in 1 .. n /\ h[k] = f[k]
        BY <2>2, <3>3
      <4>2. f[k] = F[<<k, f[k - 1]>>]
        BY <2>1, <4>1 DEF Recurs
      <4>3. QED
        BY <3>1, <4>1, <4>2
    <3>4. QED
      BY <3>2, <3>3
  <2>7. QED
    <3> HIDE DEF h
    <3>1. Recurs(h, x, F, n + 1)
      BY <2>5, <2>6 DEF Recurs
    <3>2. QED
      BY <2>2, <2>4, <3>1
<1>4. T = Nat
  <2> HIDE DEF T
  <2> QED BY <1>1, <1>2, <1>3, SetInduction
<1>5. QED
  BY <1>4

\* A value for each number of P, each determined by those of smaller numbers:
\* the recursion has a solution.
Over(G, P) == \A f \in G : f = [p \in P |-> f[p]]

Local(F, G, P) ==
  \A f, g \in G : \A p \in P : (\A q \in P : q < p => f[q] = g[q]) => F[f][p] = F[g][p]

LEMMA LocalRecursion ==
  ASSUME NEW b \in Nat, NEW P \in SUBSET (0 .. b), NEW G, Over(G, P), G # {},
         NEW F \in [G -> G], Local(F, G, P)
  PROVE  \E f \in G : F[f] = f
<1> DEFINE Good(f, n) == \A p \in P : p < n => F[f][p] = f[p]
           T == {n \in Nat : \E f \in G : Good(f, n)}
<1>1. T \in SUBSET Nat
  OBVIOUS
<1>2. 0 \in T
  <2>1. PICK f \in G : TRUE
    OBVIOUS
  <2>2. Good(f, 0)
    OBVIOUS
  <2>3. QED
    BY <2>2
<1>3. ASSUME NEW n \in T PROVE n + 1 \in T
  <2>1. PICK f \in G : Good(f, n)
    OBVIOUS
  <2>2. PICK g \in G : g = F[f]
    OBVIOUS
  <2>3. n \in Nat /\ n + 1 \in Nat
    OBVIOUS
  <2>4. ASSUME NEW p \in P, p < n + 1 PROVE F[g][p] = g[p]
    <3>1. \A q \in P : q < p => f[q] = g[q]
      BY <2>1, <2>2, <2>3, <2>4
    <3>2. F[f][p] = F[g][p]
      BY <3>1 DEF Local
    <3>3. QED
      BY <2>2, <3>2
  <2>5. Good(g, n + 1)
    BY <2>4
  <2>6. QED
    BY <2>3, <2>5
<1>4. T = Nat
  <2> HIDE DEF T
  <2> QED BY <1>1, <1>2, <1>3, SetInduction
<1>5. b + 1 \in T
  <2> HIDE DEF T
  <2> QED BY <1>4
<1>6. PICK f \in G : Good(f, b + 1)
  BY <1>5
<1>7. PICK g \in G : g = F[f]
  OBVIOUS
<1>8. \A p \in P : g[p] = f[p]
  BY <1>6, <1>7
<1>9. g = [p \in P |-> g[p]] /\ f = [p \in P |-> f[p]]
  BY DEF Over
<1>10. g = f
  BY <1>8, <1>9, Zenon
<1>11. QED
  BY <1>7, <1>10

\* What holds of a number whenever it holds of all smaller ones holds.
LEMMA SmallerInduction ==
  ASSUME NEW b \in Nat, NEW P \in SUBSET (0 .. b), NEW T,
         \A p \in P : (\A q \in P : q < p => q \in T) => p \in T
  PROVE  P \subseteq T
<1> SUFFICES ASSUME P \ T # {} PROVE FALSE
  OBVIOUS
<1>1. P \ T \in SUBSET Nat
  <2>1. 0 .. b \subseteq Nat /\ P \subseteq 0 .. b
    OBVIOUS
  <2> QED BY <2>1, Zenon
<1>2. PICK n \in P \ T : \A m \in P \ T : n <= m
  BY <1>1, LeastNumber
<1>3. QED
  BY <1>2

=============================================================================
