---------------------------- MODULE KernelProofs ----------------------------
(***************************************************************************)
(* Theorems about the simulation kernel. About GridCycle, for any number   *)
(* of blocks, major stages and cycles, any script the compiler gives and   *)
(* every interleaving of the blocks: no row is computed from a stale,      *)
(* early or missing value, and no memory is updated twice in a cycle. And  *)
(* about CarryScan, for any number of lanes and all inputs: the segmented  *)
(* scan of a macro phase computes the carries of the oracle.               *)
(***************************************************************************)
EXTENDS GridCycle, CarryScan, TLAPS

-----------------------------------------------------------------------------
(* The inductive invariant.  A block is ahead of another by one barrier at *)
(* most, and then the other waits at it; a word of the next row is right   *)
(* once the partition that writes it has stored it, and unwritten before;  *)
(* a memory has been updated as often as its partition has visited it.     *)

BlockOK(b) ==
  /\ part[b] \in DOMAIN Script[stg[b]][b]
  /\ at[b] = "idle" => cyc[b] = 0 /\ stg[b] = 1 /\ part[b] = 1
  /\ at[b] \notin {"idle", "exit"} => cyc[b] < NumCycles
  /\ at[b] = "exit" => cyc[b] = NumCycles /\ stg[b] = 1 /\ part[b] = 1
  /\ at[b] = "load" => todo[b] \subseteq (Current(b).old \X {"old"}) \cup (Current(b).new \X {"new"})
  /\ at[b] = "phase" => todo[b] \subseteq Current(b).srls
  /\ at[b] = "commit" => todo[b] \subseteq Current(b).rams
  /\ at[b] = "store" => todo[b] \subseteq Current(b).out
  /\ at[b] \in {"load", "phase", "commit", "store"} => good[b] = TRUE

Behind(b, x) == cyc[b] < cyc[x] \/ (cyc[b] = cyc[x] /\ stg[b] < stg[x])

\* x is past the barrier that b waits at, and past no other.
OneBarrier(b, x) ==
  /\ at[b] = "sync"
  /\ IF stg[b] < NumStages
       THEN cyc[x] = cyc[b] /\ stg[x] = stg[b] + 1
       ELSE cyc[x] = cyc[b] + 1 /\ stg[x] = 1

Together == \A b, x \in Block : Behind(b, x) => OneBarrier(b, x)

\* Block b has stored w, of the k-th partition of stage s, in its cycle.
Stored(s, b, k, w) ==
  \/ stg[b] > s
  \/ /\ stg[b] = s
     /\ at[b] = "sync" \/ part[b] > k \/ (part[b] = k /\ at[b] = "store" /\ w \notin todo[b])

Past(c, s, b, k, w) == cyc[b] > c \/ (cyc[b] = c /\ Stored(s, b, k, w))

Written(c, w) ==
  \E s \in 1 .. NumStages : \E b \in Block : \E k \in DOMAIN Script[s][b] :
    w \in Script[s][b][k].out /\ Past(c, s, b, k, w)

RowsAreRight ==
  \A r \in Row : \A w \in Word :
    mem[r][w] = IF r = 0 \/ w \in InputWord \/ Written(r - 1, w) THEN r ELSE Unwritten

\* Block b has visited m, of the k-th partition of stage s, in its cycle.
Visited(s, b, k, m) ==
  \/ stg[b] > s
  \/ /\ stg[b] = s
     /\ \/ at[b] = "sync" \/ part[b] > k
        \/ /\ part[b] = k
           /\ \/ at[b] = "store"
              \/ at[b] = "commit" /\ (m \in Script[s][b][k].srls \/ m \notin todo[b])
              \/ at[b] = "phase" /\ m \in Script[s][b][k].srls /\ m \notin todo[b]

Touches(s, b, k) == Script[s][b][k].srls \cup Script[s][b][k].rams

MemoriesAreRight ==
  \A s \in 1 .. NumStages : \A b \in Block : \A k \in DOMAIN Script[s][b] : \A m \in Touches(s, b, k) :
    smem[m] = IF Visited(s, b, k, m) THEN cyc[b] + 1 ELSE cyc[b]

Inductive ==
  /\ TypeOK
  /\ \A b \in Block : BlockOK(b)
  /\ Together
  /\ RowsAreRight
  /\ MemoriesAreRight

-----------------------------------------------------------------------------
(* The script. *)

LEMMA ScriptFacts ==
  ASSUME NEW s \in 1 .. NumStages, NEW b \in Block
  PROVE  /\ Script[s][b] \in Seq(Partition)
         /\ Len(Script[s][b]) \in Nat \ {0}
         /\ DOMAIN Script[s][b] = 1 .. Len(Script[s][b])
         /\ 1 \in DOMAIN Script[s][b]
         /\ \A k \in DOMAIN Script[s][b] :
              /\ k \in Nat \ {0}
              /\ Script[s][b][k] \in Partition
<1>1. Script[s][b] \in Seq(Partition) /\ Script[s][b] # << >>
  BY ScriptAssumption
<1>2. QED
  BY <1>1, SMT

LEMMA PartitionFacts ==
  ASSUME NEW p \in Partition
  PROVE  /\ p.stages \in Nat /\ p.old \subseteq Word /\ p.new \subseteq Word /\ p.out \subseteq Word
         /\ p.srls \subseteq Memory /\ p.rams \subseteq Memory
BY DEF Partition

LEMMA CurrentFacts ==
  ASSUME Inductive, NEW b \in Block
  PROVE  /\ stg[b] \in 1 .. NumStages /\ part[b] \in DOMAIN Script[stg[b]][b]
         /\ Current(b) = Script[stg[b]][b][part[b]]
         /\ Current(b) \in Partition
<1>1. stg[b] \in 1 .. NumStages /\ part[b] \in DOMAIN Script[stg[b]][b]
  BY DEF Inductive, TypeOK, BlockOK
<1>2. QED
  BY <1>1, ScriptFacts DEF Current

\* A word has one writer.
LEMMA OneWriter ==
  ASSUME NEW s \in 1 .. NumStages, NEW b \in Block, NEW k \in DOMAIN Script[s][b],
         NEW r \in 1 .. NumStages, NEW d \in Block, NEW j \in DOMAIN Script[r][d],
         NEW w \in Script[s][b][k].out, w \in Script[r][d][j].out
  PROVE  s = r /\ b = d /\ k = j /\ w \notin InputWord
BY WordAssumption

-----------------------------------------------------------------------------
(* What a step of one block leaves alone. *)

\* A step of b that brings it to no barrier.
Alone(b) ==
  /\ cyc' = cyc /\ stg' = stg
  /\ \A x \in Block \ {b} : at'[x] = at[x] /\ part'[x] = part[x] /\ todo'[x] = todo[x] /\ good'[x] = good[x]

LEMMA TogetherKept ==
  ASSUME Inductive, NEW b \in Block, Alone(b), at[b] # "sync"
  PROVE  Together'
<1> SUFFICES ASSUME NEW c \in Block, NEW x \in Block, Behind(c, x)' PROVE OneBarrier(c, x)'
  BY DEF Together
<1>1. Behind(c, x)
  BY DEF Alone, Behind
<1>2. OneBarrier(c, x)
  BY <1>1 DEF Inductive, Together
<1>3. c # b
  BY <1>2 DEF OneBarrier
<1>4. QED
  BY <1>2, <1>3 DEF Alone, OneBarrier

LEMMA BlocksKept ==
  ASSUME Inductive, NEW b \in Block, Alone(b), BlockOK(b)'
  PROVE  \A x \in Block : BlockOK(x)'
<1> SUFFICES ASSUME NEW x \in Block, x # b PROVE BlockOK(x)'
  OBVIOUS
<1>1. BlockOK(x)
  BY DEF Inductive
<1>2. Current(x)' = Current(x)
  BY DEF Alone, Current
<1>3. QED
  BY <1>1, <1>2 DEF Alone, BlockOK

LEMMA RowsKept ==
  ASSUME Inductive, NEW b \in Block, Alone(b), mem' = mem,
         \A s \in 1 .. NumStages : \A k \in DOMAIN Script[s][b] : \A w \in Script[s][b][k].out :
           Stored(s, b, k, w)' <=> Stored(s, b, k, w)
  PROVE  RowsAreRight'
<1>1. \A s \in 1 .. NumStages : \A x \in Block : \A k \in DOMAIN Script[s][x] : \A w \in Script[s][x][k].out :
        \A c : Past(c, s, x, k, w)' <=> Past(c, s, x, k, w)
  <2> SUFFICES ASSUME NEW s \in 1 .. NumStages, NEW x \in Block, NEW k \in DOMAIN Script[s][x],
                      NEW w \in Script[s][x][k].out, NEW c
               PROVE  Past(c, s, x, k, w)' <=> Past(c, s, x, k, w)
    OBVIOUS
  <2>1. CASE x = b
    BY <2>1 DEF Past, Alone
  <2>2. CASE x # b
    BY <2>2 DEF Past, Stored, Alone
  <2>3. QED
    BY <2>1, <2>2
<1>2. \A c, w : Written(c, w)' <=> Written(c, w)
  BY <1>1 DEF Written
<1>3. QED
  BY <1>2 DEF Inductive, RowsAreRight

LEMMA MemoriesKept ==
  ASSUME Inductive, NEW b \in Block, Alone(b), smem' = smem,
         \A s \in 1 .. NumStages : \A k \in DOMAIN Script[s][b] : \A m \in Touches(s, b, k) :
           Visited(s, b, k, m)' <=> Visited(s, b, k, m)
  PROVE  MemoriesAreRight'
<1> SUFFICES ASSUME NEW s \in 1 .. NumStages, NEW x \in Block, NEW k \in DOMAIN Script[s][x],
                    NEW m \in Touches(s, x, k)
             PROVE  smem'[m] = IF Visited(s, x, k, m)' THEN cyc'[x] + 1 ELSE cyc'[x]
  BY DEF MemoriesAreRight, Touches
<1>1. Visited(s, x, k, m)' <=> Visited(s, x, k, m)
  <2>1. CASE x = b
    BY <2>1
  <2>2. CASE x # b
    BY <2>2 DEF Visited, Alone
  <2>3. QED
    BY <2>1, <2>2
<1>2. smem[m] = IF Visited(s, x, k, m) THEN cyc[x] + 1 ELSE cyc[x]
  BY DEF Inductive, MemoriesAreRight
<1>3. QED
  BY <1>1, <1>2 DEF Alone

LEMMA QuietStep ==
  ASSUME Inductive, NEW b \in Block, Alone(b), at[b] # "sync", mem' = mem, smem' = smem,
         TypeOK', BlockOK(b)',
         \A s \in 1 .. NumStages : \A k \in DOMAIN Script[s][b] : \A w \in Script[s][b][k].out :
           Stored(s, b, k, w)' <=> Stored(s, b, k, w),
         \A s \in 1 .. NumStages : \A k \in DOMAIN Script[s][b] : \A m \in Touches(s, b, k) :
           Visited(s, b, k, m)' <=> Visited(s, b, k, m)
  PROVE  Inductive'
BY TogetherKept, BlocksKept, RowsKept, MemoriesKept DEF Inductive

LEMMA GotoFacts ==
  ASSUME TypeOK, NEW b \in Block, NEW place \in Places, NEW left \in SUBSET Tasks, Goto(b, place, left)
  PROVE  /\ at'[b] = place /\ todo'[b] = left
         /\ \A x \in Block \ {b} : at'[x] = at[x] /\ todo'[x] = todo[x]
         /\ at' \in [Block -> Places] /\ todo' \in [Block -> SUBSET Tasks]
BY SMT DEF TypeOK, Goto

-----------------------------------------------------------------------------
(* One lemma for each action. *)

LEMMA InitInductive ==
  ASSUME OneOwner, Init
  PROVE  Inductive
<1>1. TypeOK
  BY SizeAssumption, SMT DEF Init, TypeOK, Row, Places
<1>2. \A b \in Block : BlockOK(b)
  BY ScriptFacts, SizeAssumption, SMT DEF Init, BlockOK
<1>3. Together
  BY SMT DEF Init, Together, Behind
<1>4. RowsAreRight
  <2> SUFFICES ASSUME NEW r \in Row, NEW w \in Word, r # 0, w \notin InputWord, Written(r - 1, w)
               PROVE  FALSE
    BY DEF Init, RowsAreRight
  <2>1. PICK s \in 1 .. NumStages, b \in Block : \E k \in DOMAIN Script[s][b] : Past(r - 1, s, b, k, w)
    BY DEF Written
  <2> PICK k \in DOMAIN Script[s][b] : Past(r - 1, s, b, k, w)
    BY <2>1
  <2>2. cyc[b] = 0 /\ stg[b] = 1 /\ part[b] = 1 /\ at[b] = "idle"
    BY DEF Init
  <2>3. s \in Nat /\ 1 <= s /\ k \in Nat \ {0} /\ r - 1 \in Nat
    BY ScriptFacts, SMT DEF Row
  <2>4. QED
    BY <2>2, <2>3, SMT DEF Past, Stored
<1>5. MemoriesAreRight
  <2> SUFFICES ASSUME NEW s \in 1 .. NumStages, NEW b \in Block, NEW k \in DOMAIN Script[s][b],
                      NEW m \in Touches(s, b, k)
               PROVE  smem[m] = IF Visited(s, b, k, m) THEN cyc[b] + 1 ELSE cyc[b]
    BY DEF MemoriesAreRight
  <2>1. cyc[b] = 0 /\ stg[b] = 1 /\ part[b] = 1 /\ at[b] = "idle"
    BY DEF Init
  <2>2. s \in Nat /\ 1 <= s /\ k \in Nat \ {0} /\ m \in Memory
    BY ScriptFacts, PartitionFacts, SMT DEF Touches
  <2>3. ~Visited(s, b, k, m)
    BY <2>1, <2>2, SMT DEF Visited
  <2>4. QED
    BY <2>1, <2>2, <2>3 DEF Init
<1>6. QED
  BY <1>1, <1>2, <1>3, <1>4, <1>5 DEF Inductive

LEMMA LaunchKeeps ==
  ASSUME OneOwner, Inductive, Launch
  PROVE  Inductive'
<1>1. UNCHANGED <<capacity, at, cyc, stg, part, todo, good, mem, smem>> /\ host' \in {"running", "refused"}
  BY DEF Launch
<1>2. TypeOK'
  BY <1>1, SMT DEF Inductive, TypeOK
<1>3. \A b \in Block : BlockOK(b)'
  BY <1>1 DEF Inductive, BlockOK, Current
<1>4. Together'
  BY <1>1 DEF Inductive, Together, Behind, OneBarrier
<1>5. RowsAreRight' /\ MemoriesAreRight'
  BY <1>1 DEF Inductive, RowsAreRight, MemoriesAreRight, Written, Past, Stored, Visited
<1>6. QED
  BY <1>2, <1>3, <1>4, <1>5 DEF Inductive

LEMMA StartKeeps ==
  ASSUME OneOwner, Inductive, NEW b \in Block, Start(b)
  PROVE  Inductive'
<1> USE DEF Inductive
<1>1. /\ at[b] = "idle" /\ at'[b] = (IF NumCycles = 0 THEN "exit" ELSE "next")
      /\ \A x \in Block \ {b} : at'[x] = at[x]
      /\ at' \in [Block -> Places]
      /\ UNCHANGED <<host, capacity, cyc, stg, part, todo, good, mem, smem>>
  BY SMT DEF Start, TypeOK, Places
<1>2. TypeOK'
  BY <1>1 DEF TypeOK
<1>3. BlockOK(b)'
  <2>1. BlockOK(b)
    OBVIOUS
  <2>2. NumCycles # 0 => 0 < NumCycles
    BY SizeAssumption, SMT
  <2>3. QED
    BY <1>1, <2>1, <2>2 DEF BlockOK
<1>4. Alone(b)
  BY <1>1 DEF Alone
<1>5. \A s, k, w : Stored(s, b, k, w)' <=> Stored(s, b, k, w)
  BY <1>1 DEF Stored
<1>6. \A s, k, m : Visited(s, b, k, m)' <=> Visited(s, b, k, m)
  BY <1>1 DEF Visited
<1>7. QED
  BY <1>1, <1>2, <1>3, <1>4, <1>5, <1>6, QuietStep

LEMMA EnterKeeps ==
  ASSUME OneOwner, Inductive, NEW b \in Block, Enter(b)
  PROVE  Inductive'
<1> USE DEF Inductive
<1>1. /\ UNCHANGED <<host, capacity, cyc, stg, part, mem, smem>>
      /\ at[b] = "next" /\ good' = [good EXCEPT ![b] = TRUE]
  BY DEF Enter
<1>2. good' \in [Block -> BOOLEAN] /\ good'[b] = TRUE /\ \A x \in Block \ {b} : good'[x] = good[x]
  BY <1>1, SMT DEF TypeOK
<1>3. /\ stg[b] \in 1 .. NumStages /\ part[b] \in DOMAIN Script[stg[b]][b]
      /\ Current(b) = Script[stg[b]][b][part[b]] /\ Current(b) \in Partition
  BY CurrentFacts
<1>4. BlockOK(b) /\ cyc[b] < NumCycles
  BY <1>1 DEF BlockOK
<1>5. CASE Current(b).stages = 0
  <2>1. Goto(b, "sync", {})
    BY <1>5 DEF Enter
  <2>2. /\ at'[b] = "sync" /\ todo'[b] = {}
        /\ \A x \in Block \ {b} : at'[x] = at[x] /\ todo'[x] = todo[x]
        /\ at' \in [Block -> Places] /\ todo' \in [Block -> SUBSET Tasks]
    BY <2>1, GotoFacts DEF Places
  <2>3. TypeOK'
    BY <1>1, <1>2, <2>2 DEF TypeOK
  <2>4. BlockOK(b)'
    BY <1>1, <1>2, <1>4, <2>2 DEF BlockOK
  <2>5. Alone(b)
    BY <1>1, <1>2, <2>2 DEF Alone
  <2>6. Current(b).out = {} /\ Current(b).srls = {} /\ Current(b).rams = {} /\ Len(Script[stg[b]][b]) = 1
    BY <1>3, <1>5, WordAssumption
  <2>7. \A k \in DOMAIN Script[stg[b]][b] : k = part[b]
    BY <1>3, <2>6, ScriptFacts, SMT
  <2>8. \A s \in 1 .. NumStages : \A k \in DOMAIN Script[s][b] : \A w \in Script[s][b][k].out :
          Stored(s, b, k, w)' <=> Stored(s, b, k, w)
    <3> SUFFICES ASSUME NEW s \in 1 .. NumStages, NEW k \in DOMAIN Script[s][b], NEW w \in Script[s][b][k].out
                 PROVE  Stored(s, b, k, w)' <=> Stored(s, b, k, w)
      OBVIOUS
    <3>1. stg[b] # s
      BY <1>3, <2>6, <2>7
    <3>2. QED
      BY <1>1, <3>1 DEF Stored
  <2>9. \A s \in 1 .. NumStages : \A k \in DOMAIN Script[s][b] : \A m \in Touches(s, b, k) :
          Visited(s, b, k, m)' <=> Visited(s, b, k, m)
    <3> SUFFICES ASSUME NEW s \in 1 .. NumStages, NEW k \in DOMAIN Script[s][b], NEW m \in Touches(s, b, k)
                 PROVE  Visited(s, b, k, m)' <=> Visited(s, b, k, m)
      OBVIOUS
    <3>1. stg[b] # s
      BY <1>3, <2>6, <2>7 DEF Touches
    <3>2. QED
      BY <1>1, <3>1 DEF Visited
  <2>10. QED
    BY <1>1, <2>3, <2>4, <2>5, <2>8, <2>9, QuietStep
<1>6. CASE Current(b).stages # 0
  <2> DEFINE left == (Current(b).old \X {"old"}) \cup (Current(b).new \X {"new"})
  <2>1. Goto(b, "load", left)
    BY <1>6 DEF Enter
  <2>2. left \in SUBSET Tasks
    BY <1>3, PartitionFacts DEF Tasks
  <2>3. /\ at'[b] = "load" /\ todo'[b] = left
        /\ \A x \in Block \ {b} : at'[x] = at[x] /\ todo'[x] = todo[x]
        /\ at' \in [Block -> Places] /\ todo' \in [Block -> SUBSET Tasks]
    <3> HIDE DEF left, Inductive
    <3>1. TypeOK /\ "load" \in Places
      BY DEF Inductive, Places
    <3>2. QED
      BY <2>1, <2>2, <3>1, GotoFacts
  <2>4. TypeOK'
    BY <1>1, <1>2, <2>3 DEF TypeOK
  <2>5. Current(b)' = Current(b)
    BY <1>1 DEF Current
  <2>6. BlockOK(b)'
    BY <1>1, <1>2, <1>4, <2>3, <2>5 DEF BlockOK
  <2>7. Alone(b)
    BY <1>1, <1>2, <2>3 DEF Alone
  <2>8. \A s, k, w : Stored(s, b, k, w)' <=> Stored(s, b, k, w)
    BY <1>1, <2>3 DEF Stored
  <2>9. \A s, k, m : Visited(s, b, k, m)' <=> Visited(s, b, k, m)
    BY <1>1, <2>3 DEF Visited
  <2>10. QED
    BY <1>1, <2>4, <2>6, <2>7, <2>8, <2>9, QuietStep
<1>7. QED
  BY <1>5, <1>6

\* What a partition reads of its cycle's row is right: whoever wrote it is past
\* that cycle, or waits at the last barrier of it.
LEMMA OldIsRight ==
  ASSUME Inductive, NEW b \in Block, NEW w \in Word,
         w \in InputWord \/ \E s \in 1 .. NumStages : \E d \in Block : \E j \in DOMAIN Script[s][d] : w \in Script[s][d][j].out
  PROVE  mem[cyc[b]][w] = cyc[b]
<1> USE DEF Inductive
<1>1. cyc[b] \in Row
  BY DEF TypeOK
<1>2. CASE cyc[b] = 0 \/ w \in InputWord
  BY <1>1, <1>2 DEF RowsAreRight
<1>3. CASE cyc[b] # 0 /\ w \notin InputWord
  <2>1. PICK s \in 1 .. NumStages, d \in Block : \E j \in DOMAIN Script[s][d] : w \in Script[s][d][j].out
    BY <1>3
  <2>2. PICK j \in DOMAIN Script[s][d] : w \in Script[s][d][j].out
    BY <2>1
  <2>3. cyc[b] \in Nat /\ cyc[d] \in Nat /\ stg[d] \in 1 .. NumStages /\ NumStages \in Nat
    BY SizeAssumption, SMT DEF TypeOK, Row
  <2>4. Past(cyc[b] - 1, s, d, j, w)
    <3>1. CASE cyc[d] >= cyc[b]
      BY <2>3, <3>1, SMT DEF Past
    <3>2. CASE cyc[d] < cyc[b]
      <4>1. OneBarrier(d, b)
        BY <3>2 DEF Together, Behind
      <4>2. at[d] = "sync" /\ cyc[b] = cyc[d] + 1 /\ ~(stg[d] < NumStages)
        BY <2>3, <3>2, <4>1, SMT DEF OneBarrier
      <4>3. stg[d] >= s
        BY <2>3, <4>2, SMT
      <4>4. QED
        BY <2>3, <4>2, <4>3, SMT DEF Past, Stored
    <3>3. QED
      BY <2>3, <3>1, <3>2, SMT
  <2>5. Written(cyc[b] - 1, w)
    BY <2>2, <2>4 DEF Written
  <2>6. QED
    BY <1>1, <2>5 DEF RowsAreRight
<1>4. QED
  BY <1>2, <1>3

\* What it reads of the next row is right: the stage that wrote it is over.
LEMMA NewIsRight ==
  ASSUME Inductive, NEW b \in Block, NEW w \in Word, cyc[b] < NumCycles,
         w \in InputWord \/ \E s \in 1 .. stg[b] - 1 : \E d \in Block : \E j \in DOMAIN Script[s][d] : w \in Script[s][d][j].out
  PROVE  mem[cyc[b] + 1][w] = cyc[b] + 1
<1> USE DEF Inductive
<1>1. cyc[b] \in Nat /\ cyc[b] + 1 \in Row /\ cyc[b] + 1 # 0 /\ (cyc[b] + 1) - 1 = cyc[b]
  BY SizeAssumption, SMT DEF TypeOK, Row
<1>2. CASE w \in InputWord
  BY <1>1, <1>2 DEF RowsAreRight
<1>3. CASE w \notin InputWord
  <2>1. PICK s \in 1 .. stg[b] - 1, d \in Block : \E j \in DOMAIN Script[s][d] : w \in Script[s][d][j].out
    BY <1>3
  <2>2. PICK j \in DOMAIN Script[s][d] : w \in Script[s][d][j].out
    BY <2>1
  <2>3. /\ cyc[d] \in Nat /\ stg[d] \in 1 .. NumStages /\ stg[b] \in 1 .. NumStages /\ NumStages \in Nat
        /\ s \in 1 .. NumStages /\ s < stg[b]
    BY SizeAssumption, SMT DEF TypeOK, Row
  <2>4. Past(cyc[b], s, d, j, w)
    <3>1. CASE cyc[d] > cyc[b]
      BY <3>1 DEF Past
    <3>2. CASE cyc[d] = cyc[b] /\ stg[d] > s
      BY <3>2 DEF Past, Stored
    <3>3. CASE (cyc[d] = cyc[b] /\ stg[d] <= s) \/ cyc[d] < cyc[b]
      <4>1. OneBarrier(d, b)
        BY <1>1, <2>3, <3>3, SMT DEF Together, Behind
      <4>2. at[d] = "sync" /\ cyc[d] = cyc[b] /\ stg[d] = s
        BY <1>1, <2>3, <3>3, <4>1, SMT DEF OneBarrier
      <4>3. QED
        BY <4>2 DEF Past, Stored
    <3>4. QED
      BY <1>1, <2>3, <3>1, <3>2, <3>3, SMT
  <2>5. Written(cyc[b], w)
    BY <2>2, <2>3, <2>4 DEF Written
  <2>6. QED
    BY <1>1, <2>5 DEF RowsAreRight
<1>4. QED
  BY <1>2, <1>3

LEMMA LoadKeeps ==
  ASSUME OneOwner, Inductive, NEW b \in Block, Load(b)
  PROVE  Inductive'
<1> USE DEF Inductive
<1>1. at[b] = "load" /\ UNCHANGED <<host, capacity, cyc, stg, part, mem, smem>>
  BY DEF Load
<1> DEFINE RowOf(x) == IF x[2] = "new" THEN OutRow(b) ELSE cyc[b]
<1>2. PICK x \in todo[b] : good' = [good EXCEPT ![b] = good[b] /\ mem[RowOf(x)][x[1]] = RowOf(x)]
                           /\ Goto(b, "load", todo[b] \ {x})
  BY DEF Load
<1>3. /\ stg[b] \in 1 .. NumStages /\ part[b] \in DOMAIN Script[stg[b]][b]
      /\ Current(b) = Script[stg[b]][b][part[b]] /\ Current(b) \in Partition
  BY CurrentFacts
<1>4. BlockOK(b) /\ cyc[b] < NumCycles /\ good[b] = TRUE
      /\ todo[b] \subseteq (Current(b).old \X {"old"}) \cup (Current(b).new \X {"new"})
  BY <1>1 DEF BlockOK
<1>5. mem[RowOf(x)][x[1]] = RowOf(x)
  <2>1. CASE x \in Current(b).old \X {"old"}
    <3>1. x[1] \in Current(b).old /\ x[2] = "old" /\ x[1] \in Word
      BY <1>3, <2>1, PartitionFacts, SMT
    <3>2. x[1] \in InputWord \/ \E s \in 1 .. NumStages : \E d \in Block : \E j \in DOMAIN Script[s][d] : x[1] \in Script[s][d][j].out
      BY <1>3, <3>1, ReadAssumption
    <3>3. mem[cyc[b]][x[1]] = cyc[b]
      BY <3>1, <3>2, OldIsRight
    <3>4. QED
      BY <3>1, <3>3
  <2>2. CASE x \in Current(b).new \X {"new"}
    <3>1. x[1] \in Current(b).new /\ x[2] = "new" /\ x[1] \in Word
      BY <1>3, <2>2, PartitionFacts, SMT
    <3>2. x[1] \in InputWord \/ \E s \in 1 .. stg[b] - 1 : \E d \in Block : \E j \in DOMAIN Script[s][d] : x[1] \in Script[s][d][j].out
      BY <1>3, <3>1, ReadAssumption
    <3>3. mem[cyc[b] + 1][x[1]] = cyc[b] + 1
      BY <1>4, <3>1, <3>2, NewIsRight
    <3>4. QED
      BY <3>1, <3>3 DEF OutRow
  <2>3. QED
    BY <1>4, <2>1, <2>2
<1>6. good' = good
  <2>1. (good[b] /\ mem[RowOf(x)][x[1]] = RowOf(x)) = good[b]
    BY <1>4, <1>5
  <2>2. QED
    BY <1>2, <2>1 DEF TypeOK
<1> HIDE DEF RowOf
<1>7. /\ at'[b] = "load" /\ todo'[b] = todo[b] \ {x}
      /\ \A y \in Block \ {b} : at'[y] = at[y] /\ todo'[y] = todo[y]
      /\ at' \in [Block -> Places] /\ todo' \in [Block -> SUBSET Tasks]
  <2> DEFINE left == todo[b] \ {x}
  <2>1. left \in SUBSET Tasks /\ TypeOK /\ "load" \in Places /\ Goto(b, "load", left)
    BY <1>2 DEF TypeOK, Places
  <2> HIDE DEF left, Inductive
  <2>2. /\ at'[b] = "load" /\ todo'[b] = left
        /\ \A y \in Block \ {b} : at'[y] = at[y] /\ todo'[y] = todo[y]
        /\ at' \in [Block -> Places] /\ todo' \in [Block -> SUBSET Tasks]
    BY <2>1, GotoFacts
  <2>3. QED
    BY <2>2 DEF left
<1>8. TypeOK'
  BY <1>1, <1>6, <1>7 DEF TypeOK
<1>9. BlockOK(b)'
  <2>1. Current(b)' = Current(b)
    BY <1>1 DEF Current
  <2>2. QED
    BY <1>1, <1>4, <1>6, <1>7, <2>1 DEF BlockOK
<1>10. Alone(b)
  BY <1>1, <1>6, <1>7 DEF Alone
<1>11. \A s, k, w : Stored(s, b, k, w)' <=> Stored(s, b, k, w)
  BY <1>1, <1>7 DEF Stored
<1>12. \A s, k, m : Visited(s, b, k, m)' <=> Visited(s, b, k, m)
  BY <1>1, <1>7 DEF Visited
<1>13. QED
  BY <1>1, <1>8, <1>9, <1>10, <1>11, <1>12, QuietStep

LEMMA LoadEndKeeps ==
  ASSUME OneOwner, Inductive, NEW b \in Block, LoadEnd(b)
  PROVE  Inductive'
<1> USE DEF Inductive
<1>1. /\ at[b] = "load" /\ todo[b] = {}
      /\ UNCHANGED <<host, capacity, cyc, stg, part, good, mem, smem>>
  BY DEF LoadEnd
<1>2. /\ stg[b] \in 1 .. NumStages /\ part[b] \in DOMAIN Script[stg[b]][b]
      /\ Current(b) = Script[stg[b]][b][part[b]] /\ Current(b) \in Partition
  BY CurrentFacts
<1>3. BlockOK(b)
  OBVIOUS
<1>4. /\ at'[b] = "phase" /\ todo'[b] = Current(b).srls
      /\ \A x \in Block \ {b} : at'[x] = at[x] /\ todo'[x] = todo[x]
      /\ at' \in [Block -> Places] /\ todo' \in [Block -> SUBSET Tasks]
  <2> DEFINE left == Current(b).srls
  <2>1. left \in SUBSET Tasks /\ TypeOK /\ "phase" \in Places /\ Goto(b, "phase", left)
    BY <1>2, PartitionFacts DEF LoadEnd, Places, Tasks
  <2> HIDE DEF left, Inductive
  <2>2. /\ at'[b] = "phase" /\ todo'[b] = left
        /\ \A x \in Block \ {b} : at'[x] = at[x] /\ todo'[x] = todo[x]
        /\ at' \in [Block -> Places] /\ todo' \in [Block -> SUBSET Tasks]
    BY <2>1, GotoFacts
  <2>3. QED
    BY <2>2 DEF left
<1>5. TypeOK'
  BY <1>1, <1>4 DEF TypeOK
<1>6. BlockOK(b)'
  <2>1. Current(b)' = Current(b)
    BY <1>1 DEF Current
  <2>2. QED
    BY <1>1, <1>3, <1>4, <2>1 DEF BlockOK
<1>7. Alone(b)
  BY <1>1, <1>4 DEF Alone
<1>8. \A s \in 1 .. NumStages : \A k \in DOMAIN Script[s][b] : \A w \in Script[s][b][k].out :
        Stored(s, b, k, w)' <=> Stored(s, b, k, w)
  BY <1>1, <1>2, <1>4 DEF Stored
<1>9. \A s \in 1 .. NumStages : \A k \in DOMAIN Script[s][b] : \A m \in Touches(s, b, k) :
        Visited(s, b, k, m)' <=> Visited(s, b, k, m)
  <2> SUFFICES ASSUME NEW s \in 1 .. NumStages, NEW k \in DOMAIN Script[s][b], NEW m \in Touches(s, b, k)
               PROVE  Visited(s, b, k, m)' <=> Visited(s, b, k, m)
    OBVIOUS
  <2>1. m \in Script[s][b][k].srls => m \notin Script[s][b][k].rams
    BY DEF OneOwner
  <2>2. QED
    BY <1>1, <1>2, <1>4, <2>1 DEF Visited, Touches
<1>10. QED
  BY <1>1, <1>5, <1>6, <1>7, <1>8, <1>9, QuietStep


LEMMA PhaseEndKeeps ==
  ASSUME OneOwner, Inductive, NEW b \in Block, PhaseEnd(b)
  PROVE  Inductive'
<1> USE DEF Inductive
<1>1. /\ at[b] = "phase" /\ todo[b] = {}
      /\ UNCHANGED <<host, capacity, cyc, stg, part, good, mem, smem>>
  BY DEF PhaseEnd
<1>2. /\ stg[b] \in 1 .. NumStages /\ part[b] \in DOMAIN Script[stg[b]][b]
      /\ Current(b) = Script[stg[b]][b][part[b]] /\ Current(b) \in Partition
  BY CurrentFacts
<1>3. BlockOK(b)
  OBVIOUS
<1>4. /\ at'[b] = "commit" /\ todo'[b] = Current(b).rams
      /\ \A x \in Block \ {b} : at'[x] = at[x] /\ todo'[x] = todo[x]
      /\ at' \in [Block -> Places] /\ todo' \in [Block -> SUBSET Tasks]
  <2> DEFINE left == Current(b).rams
  <2>1. left \in SUBSET Tasks /\ TypeOK /\ "commit" \in Places /\ Goto(b, "commit", left)
    BY <1>2, PartitionFacts DEF PhaseEnd, Places, Tasks, Committed
  <2> HIDE DEF left, Inductive
  <2>2. /\ at'[b] = "commit" /\ todo'[b] = left
        /\ \A x \in Block \ {b} : at'[x] = at[x] /\ todo'[x] = todo[x]
        /\ at' \in [Block -> Places] /\ todo' \in [Block -> SUBSET Tasks]
    BY <2>1, GotoFacts
  <2>3. QED
    BY <2>2 DEF left
<1>5. TypeOK'
  BY <1>1, <1>4 DEF TypeOK
<1>6. BlockOK(b)'
  <2>1. Current(b)' = Current(b)
    BY <1>1 DEF Current
  <2>2. QED
    BY <1>1, <1>3, <1>4, <2>1 DEF BlockOK
<1>7. Alone(b)
  BY <1>1, <1>4 DEF Alone
<1>8. \A s \in 1 .. NumStages : \A k \in DOMAIN Script[s][b] : \A w \in Script[s][b][k].out :
        Stored(s, b, k, w)' <=> Stored(s, b, k, w)
  BY <1>1, <1>2, <1>4 DEF Stored
<1>9. \A s \in 1 .. NumStages : \A k \in DOMAIN Script[s][b] : \A m \in Touches(s, b, k) :
        Visited(s, b, k, m)' <=> Visited(s, b, k, m)
  <2> SUFFICES ASSUME NEW s \in 1 .. NumStages, NEW k \in DOMAIN Script[s][b], NEW m \in Touches(s, b, k)
               PROVE  Visited(s, b, k, m)' <=> Visited(s, b, k, m)
    OBVIOUS
  <2>1. m \in Script[s][b][k].srls => m \notin Script[s][b][k].rams
    BY DEF OneOwner
  <2>2. QED
    BY <1>1, <1>2, <1>4, <2>1 DEF Visited, Touches
<1>10. QED
  BY <1>1, <1>5, <1>6, <1>7, <1>8, <1>9, QuietStep


LEMMA CommitEndKeeps ==
  ASSUME OneOwner, Inductive, NEW b \in Block, CommitEnd(b)
  PROVE  Inductive'
<1> USE DEF Inductive
<1>1. /\ at[b] = "commit" /\ todo[b] = {}
      /\ UNCHANGED <<host, capacity, cyc, stg, part, good, mem, smem>>
  BY DEF CommitEnd
<1>2. /\ stg[b] \in 1 .. NumStages /\ part[b] \in DOMAIN Script[stg[b]][b]
      /\ Current(b) = Script[stg[b]][b][part[b]] /\ Current(b) \in Partition
  BY CurrentFacts
<1>3. BlockOK(b)
  OBVIOUS
<1>4. /\ at'[b] = "store" /\ todo'[b] = Current(b).out
      /\ \A x \in Block \ {b} : at'[x] = at[x] /\ todo'[x] = todo[x]
      /\ at' \in [Block -> Places] /\ todo' \in [Block -> SUBSET Tasks]
  <2> DEFINE left == Current(b).out
  <2>1. left \in SUBSET Tasks /\ TypeOK /\ "store" \in Places /\ Goto(b, "store", left)
    BY <1>2, PartitionFacts DEF CommitEnd, Places, Tasks
  <2> HIDE DEF left, Inductive
  <2>2. /\ at'[b] = "store" /\ todo'[b] = left
        /\ \A x \in Block \ {b} : at'[x] = at[x] /\ todo'[x] = todo[x]
        /\ at' \in [Block -> Places] /\ todo' \in [Block -> SUBSET Tasks]
    BY <2>1, GotoFacts
  <2>3. QED
    BY <2>2 DEF left
<1>5. TypeOK'
  BY <1>1, <1>4 DEF TypeOK
<1>6. BlockOK(b)'
  <2>1. Current(b)' = Current(b)
    BY <1>1 DEF Current
  <2>2. QED
    BY <1>1, <1>3, <1>4, <2>1 DEF BlockOK
<1>7. Alone(b)
  BY <1>1, <1>4 DEF Alone
<1>8. \A s \in 1 .. NumStages : \A k \in DOMAIN Script[s][b] : \A w \in Script[s][b][k].out :
        Stored(s, b, k, w)' <=> Stored(s, b, k, w)
  BY <1>1, <1>2, <1>4 DEF Stored
<1>9. \A s \in 1 .. NumStages : \A k \in DOMAIN Script[s][b] : \A m \in Touches(s, b, k) :
        Visited(s, b, k, m)' <=> Visited(s, b, k, m)
  <2> SUFFICES ASSUME NEW s \in 1 .. NumStages, NEW k \in DOMAIN Script[s][b], NEW m \in Touches(s, b, k)
               PROVE  Visited(s, b, k, m)' <=> Visited(s, b, k, m)
    OBVIOUS
  <2>1. m \in Script[s][b][k].srls => m \notin Script[s][b][k].rams
    BY DEF OneOwner
  <2>2. QED
    BY <1>1, <1>2, <1>4, <2>1 DEF Visited, Touches
<1>10. QED
  BY <1>1, <1>5, <1>6, <1>7, <1>8, <1>9, QuietStep


LEMMA PhaseKeeps ==
  ASSUME OneOwner, Inductive, NEW b \in Block, NEW m \in Memory, Phase(b, m)
  PROVE  Inductive' /\ smem[m] = cyc[b]
<1> USE DEF Inductive
<1>1. /\ at[b] = "phase" /\ m \in todo[b]
      /\ UNCHANGED <<host, capacity, cyc, stg, part, mem>>
      /\ good' = [good EXCEPT ![b] = good[b] /\ smem[m] = cyc[b]]
      /\ smem' = [smem EXCEPT ![m] = smem[m] + 1]
  BY DEF Phase
<1>2. /\ stg[b] \in 1 .. NumStages /\ part[b] \in DOMAIN Script[stg[b]][b]
      /\ Current(b) = Script[stg[b]][b][part[b]] /\ Current(b) \in Partition
  BY CurrentFacts
<1>3. BlockOK(b) /\ good[b] = TRUE /\ todo[b] \subseteq Current(b).srls
  BY <1>1 DEF BlockOK
<1>4. /\ m \in Script[stg[b]][b][part[b]].srls /\ m \in Touches(stg[b], b, part[b])
      /\ (m \in Script[stg[b]][b][part[b]].srls => m \notin Script[stg[b]][b][part[b]].rams)
  BY <1>1, <1>2, <1>3 DEF Touches, OneOwner
<1>5. part[b] \in Nat /\ stg[b] \in Nat /\ cyc[b] \in Nat
  BY <1>2, ScriptFacts, SMT DEF TypeOK, Row
<1>6. ~Visited(stg[b], b, part[b], m)
  BY <1>1, <1>4, <1>5, SMT DEF Visited
<1>7. smem[m] = cyc[b]
  BY <1>2, <1>4, <1>6 DEF MemoriesAreRight
<1>8. good' = good
  <2>1. (good[b] /\ smem[m] = cyc[b]) = good[b]
    BY <1>3, <1>7
  <2>2. QED
    BY <1>1, <2>1 DEF TypeOK
<1>9. /\ at'[b] = "phase" /\ todo'[b] = todo[b] \ {m}
      /\ \A x \in Block \ {b} : at'[x] = at[x] /\ todo'[x] = todo[x]
      /\ at' \in [Block -> Places] /\ todo' \in [Block -> SUBSET Tasks]
  <2> DEFINE left == todo[b] \ {m}
  <2>1. left \in SUBSET Tasks /\ TypeOK /\ "phase" \in Places /\ Goto(b, "phase", left)
    BY DEF Phase, TypeOK, Places
  <2> HIDE DEF left, Inductive
  <2>2. /\ at'[b] = "phase" /\ todo'[b] = left
        /\ \A x \in Block \ {b} : at'[x] = at[x] /\ todo'[x] = todo[x]
        /\ at' \in [Block -> Places] /\ todo' \in [Block -> SUBSET Tasks]
    BY <2>1, GotoFacts
  <2>3. QED
    BY <2>2 DEF left
<1>10. smem' \in [Memory -> Nat] /\ smem'[m] = cyc[b] + 1 /\ \A n \in Memory \ {m} : smem'[n] = smem[n]
  BY <1>1, <1>5, <1>7, SMT DEF TypeOK
<1>11. TypeOK'
  BY <1>1, <1>8, <1>9, <1>10 DEF TypeOK
<1>12. BlockOK(b)'
  <2>1. Current(b)' = Current(b)
    BY <1>1 DEF Current
  <2>2. QED
    BY <1>1, <1>3, <1>8, <1>9, <2>1 DEF BlockOK
<1>13. Alone(b)
  BY <1>1, <1>8, <1>9 DEF Alone
<1>14. \A s, k, w : Stored(s, b, k, w)' <=> Stored(s, b, k, w)
  BY <1>1, <1>9 DEF Stored
<1>15. MemoriesAreRight'
  <2> SUFFICES ASSUME NEW s \in 1 .. NumStages, NEW x \in Block, NEW k \in DOMAIN Script[s][x],
                      NEW n \in Touches(s, x, k)
               PROVE  smem'[n] = IF Visited(s, x, k, n)' THEN cyc'[x] + 1 ELSE cyc'[x]
    BY DEF MemoriesAreRight, Touches
  <2>1. smem[n] = IF Visited(s, x, k, n) THEN cyc[x] + 1 ELSE cyc[x]
    BY DEF MemoriesAreRight
  <2>2. n \in Memory
    BY ScriptFacts, PartitionFacts DEF Touches
  <2>3. CASE n = m
    <3>1. s = stg[b] /\ x = b /\ k = part[b]
      BY <1>2, <1>4, <2>3 DEF OneOwner, Touches
    <3>2. Visited(stg[b], b, part[b], m)'
      BY <1>1, <1>4, <1>9 DEF Visited
    <3>3. Visited(s, x, k, n)'
      BY <1>1, <2>3, <3>1, <3>2 DEF Visited
    <3>4. QED
      BY <1>1, <1>10, <2>3, <3>1, <3>3
  <2>4. CASE n # m
    <3>1. Visited(s, x, k, n)' <=> Visited(s, x, k, n)
      <4>1. CASE x = b
        BY <1>1, <1>9, <2>4, <4>1 DEF Visited
      <4>2. CASE x # b
        BY <1>1, <1>9, <4>2 DEF Visited
      <4>3. QED
        BY <4>1, <4>2
    <3>2. QED
      BY <1>1, <1>10, <2>1, <2>2, <2>4, <3>1
  <2>5. QED
    BY <2>3, <2>4
<1>16. QED
  BY <1>1, <1>7, <1>11, <1>12, <1>13, <1>14, <1>15, TogetherKept, BlocksKept, RowsKept


LEMMA CommitKeeps ==
  ASSUME OneOwner, Inductive, NEW b \in Block, NEW m \in Memory, Commit(b, m)
  PROVE  Inductive' /\ smem[m] = cyc[b]
<1> USE DEF Inductive
<1>1. /\ at[b] = "commit" /\ m \in todo[b]
      /\ UNCHANGED <<host, capacity, cyc, stg, part, mem>>
      /\ good' = [good EXCEPT ![b] = good[b] /\ smem[m] = cyc[b]]
      /\ smem' = [smem EXCEPT ![m] = smem[m] + 1]
  BY DEF Commit
<1>2. /\ stg[b] \in 1 .. NumStages /\ part[b] \in DOMAIN Script[stg[b]][b]
      /\ Current(b) = Script[stg[b]][b][part[b]] /\ Current(b) \in Partition
  BY CurrentFacts
<1>3. BlockOK(b) /\ good[b] = TRUE /\ todo[b] \subseteq Current(b).rams
  BY <1>1 DEF BlockOK
<1>4. /\ m \in Script[stg[b]][b][part[b]].rams /\ m \in Touches(stg[b], b, part[b])
      /\ (m \in Script[stg[b]][b][part[b]].srls => m \notin Script[stg[b]][b][part[b]].rams)
  BY <1>1, <1>2, <1>3 DEF Touches, OneOwner
<1>5. part[b] \in Nat /\ stg[b] \in Nat /\ cyc[b] \in Nat
  BY <1>2, ScriptFacts, SMT DEF TypeOK, Row
<1>6. ~Visited(stg[b], b, part[b], m)
  BY <1>1, <1>4, <1>5, SMT DEF Visited
<1>7. smem[m] = cyc[b]
  BY <1>2, <1>4, <1>6 DEF MemoriesAreRight
<1>8. good' = good
  <2>1. (good[b] /\ smem[m] = cyc[b]) = good[b]
    BY <1>3, <1>7
  <2>2. QED
    BY <1>1, <2>1 DEF TypeOK
<1>9. /\ at'[b] = "commit" /\ todo'[b] = todo[b] \ {m}
      /\ \A x \in Block \ {b} : at'[x] = at[x] /\ todo'[x] = todo[x]
      /\ at' \in [Block -> Places] /\ todo' \in [Block -> SUBSET Tasks]
  <2> DEFINE left == todo[b] \ {m}
  <2>1. left \in SUBSET Tasks /\ TypeOK /\ "commit" \in Places /\ Goto(b, "commit", left)
    BY DEF Commit, TypeOK, Places
  <2> HIDE DEF left, Inductive
  <2>2. /\ at'[b] = "commit" /\ todo'[b] = left
        /\ \A x \in Block \ {b} : at'[x] = at[x] /\ todo'[x] = todo[x]
        /\ at' \in [Block -> Places] /\ todo' \in [Block -> SUBSET Tasks]
    BY <2>1, GotoFacts
  <2>3. QED
    BY <2>2 DEF left
<1>10. smem' \in [Memory -> Nat] /\ smem'[m] = cyc[b] + 1 /\ \A n \in Memory \ {m} : smem'[n] = smem[n]
  BY <1>1, <1>5, <1>7, SMT DEF TypeOK
<1>11. TypeOK'
  BY <1>1, <1>8, <1>9, <1>10 DEF TypeOK
<1>12. BlockOK(b)'
  <2>1. Current(b)' = Current(b)
    BY <1>1 DEF Current
  <2>2. QED
    BY <1>1, <1>3, <1>8, <1>9, <2>1 DEF BlockOK
<1>13. Alone(b)
  BY <1>1, <1>8, <1>9 DEF Alone
<1>14. \A s, k, w : Stored(s, b, k, w)' <=> Stored(s, b, k, w)
  BY <1>1, <1>9 DEF Stored
<1>15. MemoriesAreRight'
  <2> SUFFICES ASSUME NEW s \in 1 .. NumStages, NEW x \in Block, NEW k \in DOMAIN Script[s][x],
                      NEW n \in Touches(s, x, k)
               PROVE  smem'[n] = IF Visited(s, x, k, n)' THEN cyc'[x] + 1 ELSE cyc'[x]
    BY DEF MemoriesAreRight, Touches
  <2>1. smem[n] = IF Visited(s, x, k, n) THEN cyc[x] + 1 ELSE cyc[x]
    BY DEF MemoriesAreRight
  <2>2. n \in Memory
    BY ScriptFacts, PartitionFacts DEF Touches
  <2>3. CASE n = m
    <3>1. s = stg[b] /\ x = b /\ k = part[b]
      BY <1>2, <1>4, <2>3 DEF OneOwner, Touches
    <3>2. Visited(stg[b], b, part[b], m)'
      BY <1>1, <1>4, <1>9 DEF Visited
    <3>3. Visited(s, x, k, n)'
      BY <1>1, <2>3, <3>1, <3>2 DEF Visited
    <3>4. QED
      BY <1>1, <1>10, <2>3, <3>1, <3>3
  <2>4. CASE n # m
    <3>1. Visited(s, x, k, n)' <=> Visited(s, x, k, n)
      <4>1. CASE x = b
        BY <1>1, <1>9, <2>4, <4>1 DEF Visited
      <4>2. CASE x # b
        BY <1>1, <1>9, <4>2 DEF Visited
      <4>3. QED
        BY <4>1, <4>2
    <3>2. QED
      BY <1>1, <1>10, <2>1, <2>2, <2>4, <3>1
  <2>5. QED
    BY <2>3, <2>4
<1>16. QED
  BY <1>1, <1>7, <1>11, <1>12, <1>13, <1>14, <1>15, TogetherKept, BlocksKept, RowsKept

\* The word stored is right, and nothing was there: it has no other writer.
LEMMA StoreKeeps ==
  ASSUME OneOwner, Inductive, NEW b \in Block, Store(b)
  PROVE  /\ Inductive'
         /\ \A r \in Row, v \in Word : mem'[r][v] # mem[r][v] => mem[r][v] = Unwritten
<1> USE DEF Inductive
<1>1. at[b] = "store" /\ UNCHANGED <<host, capacity, cyc, stg, part, good, smem>>
  BY DEF Store
<1>2. PICK w \in todo[b] :
        /\ mem' = [mem EXCEPT ![OutRow(b)][w] = IF good[b] /\ mem[cyc[b]][w] = cyc[b] THEN cyc[b] + 1 ELSE Wrong]
        /\ Goto(b, "store", todo[b] \ {w})
  BY DEF Store
<1>3. /\ stg[b] \in 1 .. NumStages /\ part[b] \in DOMAIN Script[stg[b]][b]
      /\ Current(b) = Script[stg[b]][b][part[b]] /\ Current(b) \in Partition
  BY CurrentFacts
<1>4. BlockOK(b) /\ cyc[b] < NumCycles /\ good[b] = TRUE /\ todo[b] \subseteq Current(b).out
  BY <1>1 DEF BlockOK
<1>5. w \in Word /\ w \in Script[stg[b]][b][part[b]].out
  BY <1>3, <1>4, PartitionFacts
<1>6. /\ cyc[b] \in Nat /\ cyc[b] + 1 \in Row /\ cyc[b] + 1 # 0 /\ (cyc[b] + 1) - 1 = cyc[b]
      /\ part[b] \in Nat /\ stg[b] \in Nat
  <2>1. cyc[b] \in Row
    BY DEF TypeOK
  <2> HIDE DEF Inductive
  <2>2. cyc[b] \in Nat /\ cyc[b] + 1 \in Row /\ cyc[b] + 1 # 0 /\ (cyc[b] + 1) - 1 = cyc[b]
    BY <1>4, <2>1, SizeAssumption, SMT DEF Row
  <2>3. part[b] \in Nat /\ stg[b] \in Nat
    BY <1>3, ScriptFacts, SMT
  <2>4. QED
    BY <2>2, <2>3
<1>7. mem[cyc[b]][w] = cyc[b]
  <2>1. \E s \in 1 .. NumStages : \E d \in Block : \E j \in DOMAIN Script[s][d] : w \in Script[s][d][j].out
    BY <1>3, <1>5
  <2>2. QED
    BY <1>5, <2>1, OldIsRight
<1>8. ~Written(cyc[b], w) /\ w \notin InputWord
  <2>1. w \notin InputWord
    BY <1>3, <1>5, WordAssumption
  <2> SUFFICES ASSUME Written(cyc[b], w) PROVE FALSE
    BY <2>1
  <2>2. Written(cyc[b], w)
    OBVIOUS
  <2>3. PICK s \in 1 .. NumStages, d \in Block : \E k \in DOMAIN Script[s][d] :
               w \in Script[s][d][k].out /\ Past(cyc[b], s, d, k, w)
    BY <2>2 DEF Written
  <2>4. PICK k \in DOMAIN Script[s][d] : w \in Script[s][d][k].out /\ Past(cyc[b], s, d, k, w)
    BY <2>3
  <2>5. s = stg[b] /\ d = b /\ k = part[b]
    BY <1>3, <1>5, <2>4, OneWriter
  <2>6. QED
    BY <1>1, <1>2, <1>6, <2>4, <2>5, SMT DEF Past, Stored
<1>9. mem[cyc[b] + 1][w] = Unwritten
  BY <1>5, <1>6, <1>8 DEF RowsAreRight
<1>10. /\ mem' \in [Row -> [Word -> Row \cup {Unwritten, Wrong}]]
       /\ mem'[cyc[b] + 1][w] = cyc[b] + 1
       /\ \A r \in Row, v \in Word : r # cyc[b] + 1 \/ v # w => mem'[r][v] = mem[r][v]
  <2>1. mem' = [mem EXCEPT ![cyc[b] + 1][w] = cyc[b] + 1]
    BY <1>2, <1>4, <1>7 DEF OutRow
  <2>2. mem \in [Row -> [Word -> Row \cup {Unwritten, Wrong}]]
    BY DEF TypeOK
  <2> HIDE DEF Inductive
  <2>3. QED
    BY <1>5, <1>6, <2>1, <2>2, SMT
<1>11. /\ at'[b] = "store" /\ todo'[b] = todo[b] \ {w}
       /\ \A x \in Block \ {b} : at'[x] = at[x] /\ todo'[x] = todo[x]
       /\ at' \in [Block -> Places] /\ todo' \in [Block -> SUBSET Tasks]
  <2> DEFINE left == todo[b] \ {w}
  <2>1. left \in SUBSET Tasks /\ TypeOK /\ "store" \in Places /\ Goto(b, "store", left)
    BY <1>2 DEF TypeOK, Places
  <2> HIDE DEF left, Inductive
  <2>2. /\ at'[b] = "store" /\ todo'[b] = left
        /\ \A x \in Block \ {b} : at'[x] = at[x] /\ todo'[x] = todo[x]
        /\ at' \in [Block -> Places] /\ todo' \in [Block -> SUBSET Tasks]
    BY <2>1, GotoFacts
  <2>3. QED
    BY <2>2 DEF left
<1>12. TypeOK'
  BY <1>1, <1>10, <1>11 DEF TypeOK
<1>13. BlockOK(b)'
  <2>1. Current(b)' = Current(b)
    BY <1>1 DEF Current
  <2>2. QED
    BY <1>1, <1>4, <1>11, <2>1 DEF BlockOK
<1>14. Alone(b)
  BY <1>1, <1>11 DEF Alone
<1>15. RowsAreRight'
  <2>1. \A s \in 1 .. NumStages : \A x \in Block : \A k \in DOMAIN Script[s][x] : \A c, v :
          c # cyc[b] \/ v # w => (Past(c, s, x, k, v)' <=> Past(c, s, x, k, v))
    <3> SUFFICES ASSUME NEW s \in 1 .. NumStages, NEW x \in Block, NEW k \in DOMAIN Script[s][x], NEW c, NEW v,
                        c # cyc[b] \/ v # w
                 PROVE  Past(c, s, x, k, v)' <=> Past(c, s, x, k, v)
      OBVIOUS
    <3>1. CASE x # b
      BY <1>1, <1>11, <3>1 DEF Past, Stored
    <3>2. CASE x = b /\ v # w
      BY <1>1, <1>11, <3>2 DEF Past, Stored
    <3>3. CASE x = b /\ c # cyc[b]
      BY <1>1, <3>3 DEF Past
    <3>4. QED
      BY <3>1, <3>2, <3>3
  <2>2. \A c, v : c # cyc[b] \/ v # w => (Written(c, v)' <=> Written(c, v))
    BY <2>1 DEF Written
  <2>3. Written(cyc[b], w)'
    <3>1. Past(cyc[b], stg[b], b, part[b], w)'
      BY <1>1, <1>11 DEF Past, Stored
    <3>2. QED
      BY <1>1, <1>3, <1>5, <3>1 DEF Written
  <2> SUFFICES ASSUME NEW r \in Row, NEW v \in Word
               PROVE  mem'[r][v] = IF r = 0 \/ v \in InputWord \/ Written(r - 1, v)' THEN r ELSE Unwritten
    BY DEF RowsAreRight
  <2>4. CASE r = cyc[b] + 1 /\ v = w
    <3>1. r - 1 = cyc[b]
      BY <1>6, <2>4
    <3>2. QED
      BY <1>1, <1>10, <2>3, <2>4, <3>1
  <2>5. CASE r # cyc[b] + 1 \/ v # w
    <3>1. r - 1 # cyc[b] \/ v # w
      BY <1>6, <2>5, SMT DEF Row
    <3>2. QED
      BY <1>10, <2>2, <2>5, <3>1 DEF RowsAreRight
  <2>6. QED
    BY <2>4, <2>5
<1>16. \A s, k, m : Visited(s, b, k, m)' <=> Visited(s, b, k, m)
  BY <1>1, <1>11 DEF Visited
<1>17. Inductive'
  BY <1>1, <1>12, <1>13, <1>14, <1>15, <1>16, TogetherKept, BlocksKept, MemoriesKept
<1>18. QED
  BY <1>9, <1>10, <1>17

\* A partition is over: all it writes is stored, all it visits is updated.
LEMMA StoreEndKeeps ==
  ASSUME OneOwner, Inductive, NEW b \in Block, StoreEnd(b)
  PROVE  Inductive'
<1> USE DEF Inductive
<1>1. /\ at[b] = "store" /\ todo[b] = {}
      /\ UNCHANGED <<host, capacity, cyc, stg, good, mem, smem>>
  BY DEF StoreEnd
<1>2. /\ stg[b] \in 1 .. NumStages /\ part[b] \in DOMAIN Script[stg[b]][b]
      /\ Current(b) = Script[stg[b]][b][part[b]] /\ Current(b) \in Partition
  BY CurrentFacts
<1>3. BlockOK(b)
  OBVIOUS
<1> DEFINE last == part[b] = Len(Script[stg[b]][b])
<1> DEFINE place == IF last THEN "sync" ELSE "next"
<1>4. Goto(b, place, {}) /\ part' = IF last THEN part ELSE [part EXCEPT ![b] = part[b] + 1]
  BY DEF StoreEnd
<1>5. /\ DOMAIN Script[stg[b]][b] = 1 .. Len(Script[stg[b]][b]) /\ Len(Script[stg[b]][b]) \in Nat
      /\ part[b] \in Nat \ {0}
      /\ \A k \in DOMAIN Script[stg[b]][b] : k \in Nat /\ k <= Len(Script[stg[b]][b])
  <2> HIDE DEF Inductive
  <2>1. DOMAIN Script[stg[b]][b] = 1 .. Len(Script[stg[b]][b]) /\ Len(Script[stg[b]][b]) \in Nat
    BY <1>2, ScriptFacts
  <2>2. QED
    BY <1>2, <2>1, SMT
<1>6. /\ at'[b] = place /\ todo'[b] = {}
      /\ \A x \in Block \ {b} : at'[x] = at[x] /\ todo'[x] = todo[x]
      /\ at' \in [Block -> Places] /\ todo' \in [Block -> SUBSET Tasks]
  <2>1. place \in Places /\ TypeOK
    BY DEF Places
  <2> HIDE DEF place, Inductive
  <2>2. QED
    BY <1>4, <2>1, GotoFacts
<1>7. /\ part' \in [Block -> Nat \ {0}] /\ \A x \in Block \ {b} : part'[x] = part[x]
      /\ part'[b] = IF last THEN part[b] ELSE part[b] + 1
  <2>1. part \in [Block -> Nat \ {0}]
    BY DEF TypeOK
  <2> HIDE DEF Inductive
  <2>2. QED
    BY <1>4, <1>5, <2>1, SMT
<1>8. part'[b] \in DOMAIN Script[stg[b]][b]
  <2> HIDE DEF Inductive
  <2>1. QED
    BY <1>2, <1>5, <1>7, SMT
<1>9. TypeOK'
  BY <1>1, <1>6, <1>7 DEF TypeOK
<1>10. BlockOK(b)'
  BY <1>1, <1>3, <1>6, <1>8 DEF BlockOK
<1>11. Alone(b)
  BY <1>1, <1>6, <1>7 DEF Alone
<1>12. \A k \in DOMAIN Script[stg[b]][b] :
         (at'[b] = "sync" \/ part'[b] > k) <=> (part[b] > k \/ part[b] = k)
  <2>1. CASE last
    BY <1>5, <1>6, <2>1, SMT
  <2>2. CASE ~last
    <3>1. at'[b] = "next" /\ part'[b] = part[b] + 1
      BY <1>6, <1>7, <2>2
    <3> HIDE DEF Inductive
    <3>2. QED
      BY <1>5, <3>1, SMT
  <2>3. QED
    BY <2>1, <2>2
<1>13. at'[b] # "store" /\ at'[b] # "commit" /\ at'[b] # "phase"
  BY <1>6
<1>14. \A s \in 1 .. NumStages : \A k \in DOMAIN Script[s][b] : \A w \in Script[s][b][k].out :
         Stored(s, b, k, w)' <=> Stored(s, b, k, w)
  <2> SUFFICES ASSUME NEW s \in 1 .. NumStages, NEW k \in DOMAIN Script[s][b], NEW w
               PROVE  Stored(s, b, k, w)' <=> Stored(s, b, k, w)
    OBVIOUS
  <2>1. CASE stg[b] = s
    BY <1>1, <1>12, <1>13, <2>1 DEF Stored
  <2>2. CASE stg[b] # s
    BY <1>1, <2>2 DEF Stored
  <2>3. QED
    BY <2>1, <2>2
<1>15. \A s \in 1 .. NumStages : \A k \in DOMAIN Script[s][b] : \A m \in Touches(s, b, k) :
         Visited(s, b, k, m)' <=> Visited(s, b, k, m)
  <2> SUFFICES ASSUME NEW s \in 1 .. NumStages, NEW k \in DOMAIN Script[s][b], NEW m
               PROVE  Visited(s, b, k, m)' <=> Visited(s, b, k, m)
    OBVIOUS
  <2>1. CASE stg[b] = s
    BY <1>1, <1>12, <1>13, <2>1 DEF Visited
  <2>2. CASE stg[b] # s
    BY <1>1, <2>2 DEF Visited
  <2>3. QED
    BY <2>1, <2>2
<1>16. QED
  BY <1>1, <1>9, <1>10, <1>11, <1>14, <1>15, QuietStep

\* The barrier: every other block waits at it too, or is past this one only.
LEMMA SyncKeeps ==
  ASSUME OneOwner, Inductive, NEW b \in Block, Sync(b)
  PROVE  Inductive'
<1> USE DEF Inductive
<1> DEFINE more == stg[b] < NumStages
<1> DEFINE place == IF more THEN "next" ELSE IF cyc[b] + 1 = NumCycles THEN "exit" ELSE "next"
<1>1. /\ at[b] = "sync" /\ AllArrived(b)
      /\ UNCHANGED <<host, capacity, good, mem, smem>>
      /\ part' = [part EXCEPT ![b] = 1]
      /\ stg' = [stg EXCEPT ![b] = IF more THEN stg[b] + 1 ELSE 1]
      /\ cyc' = IF more THEN cyc ELSE [cyc EXCEPT ![b] = cyc[b] + 1]
      /\ Goto(b, place, {})
  BY DEF Sync, MoreStages
<1>2. cyc[b] < NumCycles
  BY <1>1 DEF BlockOK
<1>3. /\ NumStages \in Nat \ {0} /\ NumCycles \in Nat
      /\ cyc[b] \in Nat /\ stg[b] \in 1 .. NumStages /\ stg[b] \in Nat
      /\ cyc \in [Block -> Row] /\ stg \in [Block -> 1 .. NumStages] /\ part \in [Block -> Nat \ {0}]
      /\ \A x \in Block : cyc[x] \in Nat /\ stg[x] \in Nat /\ stg[x] <= NumStages /\ stg[x] >= 1
  <2>1. cyc \in [Block -> Row] /\ stg \in [Block -> 1 .. NumStages] /\ part \in [Block -> Nat \ {0}]
    BY DEF TypeOK
  <2> HIDE DEF Inductive
  <2>2. QED
    BY <2>1, SizeAssumption, SMT DEF Row
<1>4. /\ at'[b] = place /\ todo'[b] = {}
      /\ \A x \in Block \ {b} : at'[x] = at[x] /\ todo'[x] = todo[x]
      /\ at' \in [Block -> Places] /\ todo' \in [Block -> SUBSET Tasks]
  <2>1. place \in Places /\ TypeOK
    BY DEF Places
  <2> HIDE DEF place, Inductive
  <2>2. QED
    BY <1>1, <2>1, GotoFacts
<1>5. /\ part' \in [Block -> Nat \ {0}] /\ part'[b] = 1
      /\ stg' \in [Block -> 1 .. NumStages] /\ stg'[b] = IF more THEN stg[b] + 1 ELSE 1
      /\ \A x \in Block \ {b} : part'[x] = part[x] /\ stg'[x] = stg[x]
  <2> HIDE DEF Inductive
  <2>1. (IF more THEN stg[b] + 1 ELSE 1) \in 1 .. NumStages
    BY <1>3, SMT
  <2> HIDE DEF more
  <2>2. QED
    BY <1>1, <1>3, <2>1, SMT
<1>6. /\ cyc' \in [Block -> Row] /\ cyc'[b] = IF more THEN cyc[b] ELSE cyc[b] + 1
      /\ \A x \in Block \ {b} : cyc'[x] = cyc[x]
  <2>1. CASE more
    BY <1>1, <1>3, <2>1
  <2>2. CASE ~more
    <3> HIDE DEF Inductive, more
    <3>1. cyc[b] + 1 \in Row
      BY <1>2, <1>3, SMT DEF Row
    <3>2. cyc' = [cyc EXCEPT ![b] = cyc[b] + 1]
      BY <1>1, <2>2
    <3>3. QED
      BY <1>3, <2>2, <3>1, <3>2, SMT
  <2>3. QED
    BY <2>1, <2>2
<1>7. TypeOK'
  BY <1>1, <1>4, <1>5, <1>6 DEF TypeOK
<1>8. BlockOK(b)'
  <2>1. part'[b] \in DOMAIN Script[stg'[b]][b]
    <3>1. stg'[b] \in 1 .. NumStages
      BY <1>5
    <3>2. QED
      BY <1>5, <3>1, ScriptFacts
  <2>2. CASE more
    <3>1. at'[b] = "next" /\ cyc'[b] < NumCycles
      BY <1>2, <1>4, <1>6, <2>2
    <3>2. QED
      BY <2>1, <3>1 DEF BlockOK
  <2>3. CASE ~more /\ cyc[b] + 1 = NumCycles
    <3>1. at'[b] = "exit" /\ cyc'[b] = NumCycles /\ stg'[b] = 1 /\ part'[b] = 1
      BY <1>4, <1>5, <1>6, <2>3
    <3>2. QED
      BY <2>1, <3>1 DEF BlockOK
  <2>4. CASE ~more /\ cyc[b] + 1 # NumCycles
    <3>1. at'[b] = "next" /\ cyc'[b] = cyc[b] + 1
      BY <1>4, <1>6, <2>4
    <3>2. cyc'[b] < NumCycles
      <4> HIDE DEF Inductive
      <4>1. QED
        BY <1>2, <1>3, <2>4, <3>1, SMT
    <3>3. QED
      BY <2>1, <3>1, <3>2 DEF BlockOK
  <2>5. QED
    BY <2>2, <2>3, <2>4
<1>9. \A x \in Block : BlockOK(x)'
  <2> SUFFICES ASSUME NEW x \in Block, x # b PROVE BlockOK(x)'
    BY <1>8
  <2>1. BlockOK(x)
    OBVIOUS
  <2>2. Current(x)' = Current(x)
    BY <1>5 DEF Current
  <2>3. QED
    BY <1>1, <1>4, <1>5, <1>6, <2>1, <2>2 DEF BlockOK
<1>10. \A x \in Block \ {b} :
         \/ cyc[x] = cyc'[b] /\ stg[x] = stg'[b]
         \/ cyc[x] = cyc[b] /\ stg[x] = stg[b] /\ at[x] = "sync"
  <2> SUFFICES ASSUME NEW x \in Block \ {b}, ~(cyc[x] = cyc[b] /\ stg[x] = stg[b] /\ at[x] = "sync")
               PROVE  cyc[x] = cyc'[b] /\ stg[x] = stg'[b]
    OBVIOUS
  <2>1. Behind(b, x)
    BY <1>1 DEF AllArrived, Behind
  <2>2. OneBarrier(b, x)
    BY <2>1 DEF Together
  <2>3. QED
    BY <1>5, <1>6, <2>2 DEF OneBarrier
<1>11. Together'
  <2> SUFFICES ASSUME NEW c \in Block, NEW x \in Block, Behind(c, x)' PROVE OneBarrier(c, x)'
    BY DEF Together
  <2>1. \A y \in Block : cyc'[y] \in Int /\ stg'[y] \in Int
    <3> HIDE DEF Inductive
    <3>1. QED
      BY <1>3, <1>5, <1>6, SMT DEF Row
  <2>2. c # x
    <3> HIDE DEF Inductive
    <3>1. QED
      BY <2>1, SMT DEF Behind
  <2>3. CASE c # b /\ x # b
    <3>1. Behind(c, x)
      BY <1>5, <1>6, <2>3 DEF Behind
    <3>2. OneBarrier(c, x)
      BY <3>1 DEF Together
    <3>3. QED
      BY <1>4, <1>5, <1>6, <2>3, <3>2 DEF OneBarrier
  <2>4. CASE c = b
    <3>1. x \in Block \ {b} /\ cyc'[x] = cyc[x] /\ stg'[x] = stg[x]
      BY <1>5, <1>6, <2>2, <2>4
    <3>2. (cyc[x] = cyc'[b] /\ stg[x] = stg'[b]) \/ (cyc[x] = cyc[b] /\ stg[x] = stg[b])
      BY <1>10, <3>1
    <3> HIDE DEF Inductive
    <3>3. ~Behind(b, x)'
      BY <1>3, <1>5, <1>6, <3>1, <3>2, SMT DEF Behind
    <3>4. QED
      BY <2>4, <3>3
  <2>5. CASE x = b
    <3>1. c \in Block \ {b} /\ cyc'[c] = cyc[c] /\ stg'[c] = stg[c] /\ at'[c] = at[c]
      BY <1>4, <1>5, <1>6, <2>2, <2>5
    <3>2. ~(cyc'[c] = cyc'[b] /\ stg'[c] = stg'[b])
      <4> HIDE DEF Inductive
      <4>1. QED
        BY <2>1, <2>5, <3>1, SMT DEF Behind
    <3>3. cyc[c] = cyc[b] /\ stg[c] = stg[b] /\ at[c] = "sync"
      BY <1>10, <3>1, <3>2
    <3>4. QED
      BY <1>5, <1>6, <2>5, <3>1, <3>3 DEF OneBarrier
  <2>6. QED
    BY <2>3, <2>4, <2>5
<1>12. /\ \A s \in 1 .. NumStages : \A k \in DOMAIN Script[s][b] : \A w :
            /\ Stored(s, b, k, w) <=> s <= stg[b]
            /\ Stored(s, b, k, w)' <=> (more /\ s <= stg[b])
       /\ \A s \in 1 .. NumStages : \A k \in DOMAIN Script[s][b] : \A m :
            /\ Visited(s, b, k, m) <=> s <= stg[b]
            /\ Visited(s, b, k, m)' <=> (more /\ s <= stg[b])
  <2> SUFFICES ASSUME NEW s \in 1 .. NumStages, NEW k \in DOMAIN Script[s][b], NEW w
               PROVE  /\ Stored(s, b, k, w) <=> s <= stg[b]
                      /\ Stored(s, b, k, w)' <=> (more /\ s <= stg[b])
                      /\ Visited(s, b, k, w) <=> s <= stg[b]
                      /\ Visited(s, b, k, w)' <=> (more /\ s <= stg[b])
    OBVIOUS
  <2>1. s \in Nat /\ 1 <= s /\ k \in Nat /\ ~(1 > k)
    <3> HIDE DEF Inductive
    <3>1. k \in Nat \ {0}
      BY ScriptFacts
    <3>2. QED
      BY <3>1, <1>3, SMT
  <2>2. s <= stg[b] <=> stg[b] > s \/ stg[b] = s
    BY <1>3, <2>1, SMT
  <2>3. stg'[b] > s <=> (more /\ s <= stg[b])
    <3> HIDE DEF Inductive
    <3>1. QED
      BY <1>3, <1>5, <2>1, SMT
  <2>4. at'[b] \notin {"sync", "store", "commit", "phase"} /\ ~(part'[b] > k)
    BY <1>4, <1>5, <2>1
  <2>5. (Stored(s, b, k, w) <=> s <= stg[b]) /\ (Visited(s, b, k, w) <=> s <= stg[b])
    BY <1>1, <2>2 DEF Stored, Visited
  <2>6. (Stored(s, b, k, w)' <=> stg'[b] > s) /\ (Visited(s, b, k, w)' <=> stg'[b] > s)
    BY <2>4 DEF Stored, Visited
  <2>7. QED
    BY <2>3, <2>5, <2>6
<1>13. ~more => \A s \in 1 .. NumStages : s <= stg[b]
  <2> HIDE DEF Inductive
  <2>1. QED
    BY <1>3, SMT
<1>14. RowsAreRight'
  <2>1. \A s \in 1 .. NumStages : \A x \in Block : \A k \in DOMAIN Script[s][x] : \A c \in Int : \A v :
          Past(c, s, x, k, v)' <=> Past(c, s, x, k, v)
    <3> SUFFICES ASSUME NEW s \in 1 .. NumStages, NEW x \in Block, NEW k \in DOMAIN Script[s][x], NEW c \in Int, NEW v
                 PROVE  Past(c, s, x, k, v)' <=> Past(c, s, x, k, v)
      OBVIOUS
    <3>1. CASE x # b
      BY <1>4, <1>5, <1>6, <3>1 DEF Past, Stored
    <3>2. CASE x = b /\ more
      BY <1>6, <1>12, <3>2 DEF Past
    <3>3. CASE x = b /\ ~more
      <4>1. Stored(s, b, k, v) /\ ~Stored(s, b, k, v)' /\ cyc'[b] = cyc[b] + 1
        BY <1>6, <1>12, <1>13, <3>3
      <4>2. cyc[b] > c \/ cyc[b] = c <=> cyc[b] + 1 > c
        BY <1>3, SMT
      <4>3. QED
        BY <3>3, <4>1, <4>2 DEF Past
    <3>4. QED
      BY <3>1, <3>2, <3>3
  <2>2. \A c \in Int : \A v : Written(c, v)' <=> Written(c, v)
    BY <2>1 DEF Written
  <2>3. \A r \in Row : r - 1 \in Int
    BY <1>3, SMT DEF Row
  <2>4. QED
    BY <1>1, <2>2, <2>3 DEF RowsAreRight
<1>15. MemoriesAreRight'
  <2> SUFFICES ASSUME NEW s \in 1 .. NumStages, NEW x \in Block, NEW k \in DOMAIN Script[s][x],
                      NEW m \in Touches(s, x, k)
               PROVE  smem'[m] = IF Visited(s, x, k, m)' THEN cyc'[x] + 1 ELSE cyc'[x]
    BY DEF MemoriesAreRight, Touches
  <2>1. smem[m] = IF Visited(s, x, k, m) THEN cyc[x] + 1 ELSE cyc[x]
    BY DEF MemoriesAreRight
  <2>2. CASE x # b
    BY <1>1, <1>4, <1>5, <1>6, <2>1, <2>2 DEF Visited
  <2>3. CASE x = b /\ more
    BY <1>1, <1>6, <1>12, <2>1, <2>3
  <2>4. CASE x = b /\ ~more
    <3>1. Visited(s, b, k, m) /\ ~Visited(s, b, k, m)' /\ cyc'[b] = cyc[b] + 1
      BY <1>6, <1>12, <1>13, <2>4
    <3>2. Visited(s, x, k, m) /\ ~Visited(s, x, k, m)'
      BY <2>4, <3>1
    <3>3. QED
      BY <1>1, <2>1, <2>4, <3>1, <3>2
  <2>5. QED
    BY <2>2, <2>3, <2>4
<1>16. QED
  BY <1>7, <1>9, <1>11, <1>14, <1>15

-----------------------------------------------------------------------------
(* The theorems. *)

LEMMA StutterKeeps ==
  ASSUME Inductive, UNCHANGED vars
  PROVE  Inductive'
<1>1. TypeOK'
  BY DEF Inductive, TypeOK, vars
<1>2. \A b \in Block : BlockOK(b)'
  BY DEF Inductive, BlockOK, Current, vars
<1>3. Together'
  BY DEF Inductive, Together, Behind, OneBarrier, vars
<1>4. RowsAreRight' /\ MemoriesAreRight'
  BY DEF Inductive, RowsAreRight, MemoriesAreRight, Written, Past, Stored, Visited, vars
<1>5. QED
  BY <1>1, <1>2, <1>3, <1>4 DEF Inductive

\* A step keeps the invariant and does what the action properties ask of it.
LEMMA NextKeeps ==
  ASSUME OneOwner, Inductive, [Next]_vars
  PROVE  /\ Inductive'
         /\ \A b \in Block, m \in Memory : Phase(b, m) \/ Commit(b, m) => smem[m] = cyc[b]
         /\ \A r \in Row, w \in Word : mem'[r][w] # mem[r][w] => mem[r][w] = Unwritten
<1>1. \A b \in Block, m \in Memory : Phase(b, m) \/ Commit(b, m) => Inductive' /\ smem[m] = cyc[b]
  BY PhaseKeeps, CommitKeeps
<1>2. \A b \in Block : Store(b) =>
        Inductive' /\ \A r \in Row, w \in Word : mem'[r][w] # mem[r][w] => mem[r][w] = Unwritten
  BY StoreKeeps
<1>3. CASE Launch
  BY <1>1, <1>3, LaunchKeeps DEF Launch
<1>4. ASSUME NEW b \in Block, BlockStep(b)
      PROVE  /\ Inductive'
             /\ \A r \in Row, w \in Word : mem'[r][w] # mem[r][w] => mem[r][w] = Unwritten
  <2>1. CASE Start(b)
    BY <2>1, StartKeeps DEF Start
  <2>2. CASE Enter(b)
    BY <2>2, EnterKeeps DEF Enter
  <2>3. CASE Load(b)
    BY <2>3, LoadKeeps DEF Load
  <2>4. CASE LoadEnd(b)
    BY <2>4, LoadEndKeeps DEF LoadEnd
  <2>5. CASE \E m \in Memory : Phase(b, m) \/ Commit(b, m)
    <3>1. PICK m \in Memory : Phase(b, m) \/ Commit(b, m)
      BY <2>5
    <3>2. mem' = mem
      BY <3>1 DEF Phase, Commit
    <3>3. QED
      BY <1>1, <3>1, <3>2
  <2>6. CASE PhaseEnd(b)
    BY <2>6, PhaseEndKeeps DEF PhaseEnd
  <2>7. CASE CommitEnd(b)
    BY <2>7, CommitEndKeeps DEF CommitEnd
  <2>8. CASE Store(b)
    BY <1>2, <2>8
  <2>9. CASE StoreEnd(b)
    BY <2>9, StoreEndKeeps DEF StoreEnd
  <2>10. CASE Sync(b)
    BY <2>10, SyncKeeps DEF Sync
  <2>11. QED
    BY <1>4, <2>1, <2>2, <2>3, <2>4, <2>5, <2>6, <2>7, <2>8, <2>9, <2>10 DEF BlockStep
<1>5. CASE Finished \/ UNCHANGED vars
  <2>1. UNCHANGED vars
    BY <1>5 DEF Finished
  <2>2. mem' = mem
    BY <2>1 DEF vars
  <2>3. QED
    BY <1>1, <2>1, <2>2, StutterKeeps
<1>6. QED
  BY <1>1, <1>3, <1>4, <1>5 DEF Next

\* The invariant holds in every state the grid reaches: blocks are one barrier
\* apart at most, and every word and memory is as its one owner has left it.
THEOREM InductiveHolds == ASSUME OneOwner PROVE Spec => []Inductive
<1>1. Init => Inductive
  BY InitInductive
<1>2. Inductive /\ [Next]_vars => Inductive'
  BY NextKeeps
<1>3. QED
  BY <1>1, <1>2, PTL DEF Spec

\* No block stores a value computed from a stale, missing or early one
\* (kernel_v1_impl.cuh:612-616, 646-658), however the blocks interleave.
THEOREM RowsExactHolds == ASSUME OneOwner PROVE Spec => []RowsExact
<1>1. Inductive => RowsExact
  BY DEF Inductive, RowsAreRight, RowsExact
<1>2. QED
  BY <1>1, InductiveHolds, PTL

\* Each memory is updated once per cycle, by the partition that owns it: what a
\* clocked cell takes in is seen in the next cycle (macros.rs:303-309).
THEOREM UpdatedOncePerCycleHolds == ASSUME OneOwner PROVE Spec => UpdatedOncePerCycle
<1>1. Inductive /\ [Next]_vars =>
        [\A b \in Block, m \in Memory : Phase(b, m) \/ Commit(b, m) => smem[m] = cyc[b]]_vars
  BY NextKeeps
<1>2. QED
  BY <1>1, InductiveHolds, PTL DEF Spec, UpdatedOncePerCycle

\* Each word of a row is stored once: by one partition, in its own cycle
\* (kernel_v1_impl.cuh:599-619).
THEOREM StoredOnceHolds == ASSUME OneOwner PROVE Spec => StoredOnce
<1>1. Inductive /\ [Next]_vars =>
        [\A r \in Row, w \in Word : mem'[r][w] # mem[r][w] => mem[r][w] = Unwritten]_vars
  BY NextKeeps
<1>2. QED
  BY <1>1, InductiveHolds, PTL DEF Spec, StoredOnce

-----------------------------------------------------------------------------
(* The grid as a synchronous circuit. *)

LEMMA CompletedUnique ==
  ASSUME NEW n \in Row, CompletedIs(n)
  PROVE  Completed = n
<1>1. \A m \in Row : CompletedIs(m) => m = n
  <2> SUFFICES ASSUME NEW m \in Row, CompletedIs(m), m # n PROVE FALSE
    OBVIOUS
  <2>1. m \in Nat /\ n \in Nat /\ m <= NumCycles /\ n <= NumCycles /\ NumCycles \in Nat
    BY SizeAssumption, SMT DEF Row
  <2>2. CASE m < n
    <3>1. m < NumCycles /\ m \in 0 .. n - 1
      BY <2>1, <2>2, SMT
    <3>2. QED
      BY <3>1 DEF CompletedIs
  <2>3. CASE n < m
    <3>1. n < NumCycles /\ n \in 0 .. m - 1
      BY <2>1, <2>3, SMT
    <3>2. QED
      BY <3>1 DEF CompletedIs
  <2>4. QED
    BY <2>1, <2>2, <2>3, SMT
<1>2. \E m \in Row : CompletedIs(m)
  OBVIOUS
<1>3. QED
  BY <1>1, <1>2 DEF Completed

\* A block moves on to the next cycle from the last barrier, and no further.
LEMMA CycleStep ==
  ASSUME Inductive, [Next]_vars, NEW x \in Block
  PROVE  \/ cyc'[x] = cyc[x] /\ ~(at[x] = "sync" /\ stg[x] = NumStages)
         \/ cyc'[x] = cyc[x] /\ at'[x] = at[x] /\ stg'[x] = stg[x]
         \/ cyc'[x] = cyc[x] + 1 /\ at[x] = "sync" /\ stg[x] = NumStages
<1> DEFINE Goal == \/ cyc'[x] = cyc[x] /\ ~(at[x] = "sync" /\ stg[x] = NumStages)
                   \/ cyc'[x] = cyc[x] /\ at'[x] = at[x] /\ stg'[x] = stg[x]
                   \/ cyc'[x] = cyc[x] + 1 /\ at[x] = "sync" /\ stg[x] = NumStages
<1>1. cyc \in [Block -> Row] /\ stg \in [Block -> 1 .. NumStages] /\ at \in [Block -> Places]
  BY DEF Inductive, TypeOK
<1>2. CASE Launch \/ Finished \/ UNCHANGED vars
  BY <1>2 DEF Launch, Finished, vars
<1>3. ASSUME NEW b \in Block, BlockStep(b) PROVE Goal
  <2>1. CASE Sync(b)
    <3>1. CASE x = b /\ MoreStages(b)
      <4>1. cyc'[x] = cyc[x] /\ stg[x] < NumStages
        BY <2>1, <3>1 DEF Sync, MoreStages
      <4>2. stg[x] # NumStages
        BY <1>1, <4>1, SizeAssumption, SMT
      <4>3. QED
        BY <4>1, <4>2
    <3>2. CASE x = b /\ ~MoreStages(b)
      <4>1. cyc' = [cyc EXCEPT ![b] = cyc[b] + 1] /\ at[b] = "sync" /\ ~(stg[b] < NumStages)
        BY <2>1, <3>2 DEF Sync, MoreStages
      <4>2. stg[b] = NumStages
        BY <1>1, <4>1, SizeAssumption, SMT
      <4>3. cyc'[b] = cyc[b] + 1
        BY <1>1, <4>1
      <4>4. QED
        BY <3>2, <4>1, <4>2, <4>3
    <3>3. CASE x # b
      BY <1>1, <2>1, <3>3 DEF Sync, Goto
    <3>4. QED
      BY <3>1, <3>2, <3>3
  <2>2. CASE ~Sync(b)
    <3>1. at[b] # "sync" /\ UNCHANGED <<cyc, stg>> /\ at' = [at EXCEPT ![b] = at'[b]]
      BY <1>1, <1>3, <2>2 DEF BlockStep, Start, Enter, Load, LoadEnd, Phase, PhaseEnd, Commit, CommitEnd,
                              Store, StoreEnd, Goto
    <3>2. QED
      BY <1>1, <3>1
  <2>3. QED
    BY <2>1, <2>2
<1>4. QED
  BY <1>2, <1>3 DEF Next

LEMMA ThroughStep ==
  ASSUME Inductive, [Next]_vars, NEW x \in Block, NEW c \in Nat
  PROVE  /\ Through(x, c) => Through(x, c)'
         /\ ~Through(x, c) => ~Through(x, c + 1)'
<1>1. cyc[x] \in Nat
  BY SizeAssumption, SMT DEF Inductive, TypeOK, Row
<1>2. CASE cyc'[x] = cyc[x] /\ ~(at[x] = "sync" /\ stg[x] = NumStages)
  BY <1>1, <1>2, SMT DEF Through
<1>3. CASE cyc'[x] = cyc[x] /\ at'[x] = at[x] /\ stg'[x] = stg[x]
  BY <1>1, <1>3, SMT DEF Through
<1>4. CASE cyc'[x] = cyc[x] + 1 /\ at[x] = "sync" /\ stg[x] = NumStages
  BY <1>1, <1>4, SMT DEF Through
<1>5. QED
  BY <1>2, <1>3, <1>4, CycleStep

LEMMA CompletedStep ==
  ASSUME Inductive, [Next]_vars, NEW n \in Row, CompletedIs(n)
  PROVE  CompletedIs(n)' \/ (n < NumCycles /\ CompletedIs(n + 1)')
<1>1. n \in Nat /\ NumCycles \in Nat /\ n <= NumCycles
  BY SizeAssumption, SMT DEF Row
<1>2. \A b \in Block : \A c \in 0 .. n - 1 : Through(b, c)'
  <2>1. \A c \in 0 .. n - 1 : c \in Nat
    BY <1>1, SMT
  <2>2. QED
    BY <2>1, ThroughStep DEF CompletedIs
<1>3. CASE n < NumCycles /\ \A b \in Block : Through(b, n)'
  <2>1. \A c \in 0 .. (n + 1) - 1 : c \in 0 .. n - 1 \/ c = n
    BY <1>1, SMT
  <2>2. \A b \in Block : \A c \in 0 .. (n + 1) - 1 : Through(b, c)'
    BY <1>2, <1>3, <2>1
  <2>3. \E b \in Block : ~Through(b, n + 1)'
    BY <1>1, <1>3, ThroughStep DEF CompletedIs
  <2>4. QED
    BY <1>3, <2>2, <2>3 DEF CompletedIs
<1>4. CASE n < NumCycles => \E b \in Block : ~Through(b, n)'
  BY <1>2, <1>4 DEF CompletedIs
<1>5. QED
  BY <1>3, <1>4

\* The row of a completed cycle is complete and right.
LEMMA CompletedRow ==
  ASSUME Inductive, EveryWordWritten, NEW n \in Row, CompletedIs(n)
  PROVE  mem[n] = [w \in Word |-> n]
<1> USE DEF Inductive
<1>1. ASSUME NEW w \in Word PROVE mem[n][w] = n
  <2>1. CASE n = 0 \/ w \in InputWord
    BY <2>1 DEF RowsAreRight
  <2>2. CASE n # 0 /\ w \notin InputWord
    <3>1. PICK s \in 1 .. NumStages, b \in Block : \E k \in DOMAIN Script[s][b] : w \in Script[s][b][k].out
      BY <2>2 DEF EveryWordWritten
    <3>2. PICK k \in DOMAIN Script[s][b] : w \in Script[s][b][k].out
      BY <3>1
    <3>3. n - 1 \in 0 .. n - 1
      BY <2>2, SizeAssumption, SMT DEF Row
    <3>4. Through(b, n - 1)
      BY <3>3 DEF CompletedIs
    <3>5. stg[b] \in 1 .. NumStages /\ NumStages \in Nat
      BY SizeAssumption DEF TypeOK
    <3>6. stg[b] = NumStages => stg[b] > s \/ stg[b] = s
      BY <3>5, SMT
    <3>7. Past(n - 1, s, b, k, w)
      BY <3>4, <3>6 DEF Through, Past, Stored
    <3>8. QED
      BY <3>2, <3>7 DEF RowsAreRight, Written
  <2>3. QED
    BY <2>1, <2>2
<1>2. mem[n] \in [Word -> Row \cup {Unwritten, Wrong}]
  BY DEF TypeOK
<1> HIDE DEF Inductive
<1>3. QED
  BY <1>1, <1>2

\* Every word of a row turns right at once, if a row is taken to be there when
\* all blocks are through with its cycle: the grid implements SyncCircuit.
THEOREM GridImplementsCircuit == ASSUME OneOwner, EveryWordWritten PROVE Spec => ImplementsCircuit
<1> DEFINE Counted == \E n \in Row : CompletedIs(n)
<1>1. Init => Counted /\ Abstract!Init
  <2> SUFFICES ASSUME Init PROVE Counted /\ Abstract!Init
    OBVIOUS
  <2>1. 0 \in Row /\ 0 .. 0 - 1 = {}
    BY SizeAssumption, SMT DEF Row
  <2>2. PICK b \in Block : TRUE
    BY SizeAssumption
  <2>3. ~Through(b, 0)
    BY SMT DEF Init, Through
  <2>4. CompletedIs(0)
    BY <2>1, <2>3 DEF CompletedIs
  <2>5. Completed = 0
    BY <2>1, <2>4, CompletedUnique
  <2>6. mem[0] = [w \in Word |-> 0]
    BY <2>1 DEF Init
  <2>7. QED
    BY <2>1, <2>4, <2>5, <2>6 DEF Abstract!Init
<1> DEFINE CountIs == \A k \in Row : CompletedIs(k) => Completed = k
<1> DEFINE RowIs == Inductive => \A k \in Row : CompletedIs(k) => mem[k] = [w \in Word |-> k]
<1>2. CountIs /\ RowIs
  BY CompletedUnique, CompletedRow
<1>3. CountIs' /\ RowIs'
  <2> HIDE DEF CountIs, RowIs
  <2>1. QED
    BY <1>2, PTL
<1>4. Inductive /\ Counted /\ [Next]_vars => Counted' /\ [Abstract!Tick]_<<Completed, mem[Completed]>>
  <2> SUFFICES ASSUME Inductive, Counted, [Next]_vars
               PROVE  Counted' /\ [Abstract!Tick]_<<Completed, mem[Completed]>>
    OBVIOUS
  <2>1. PICK n \in Row : CompletedIs(n)
    OBVIOUS
  <2>2. Inductive'
    BY NextKeeps
  <2>3. Completed = n /\ mem[n] = [w \in Word |-> n]
    BY <2>1, CompletedUnique, CompletedRow
  <2>4. CASE CompletedIs(n)'
    <3>1. Completed' = n
      BY <1>3, <2>4
    <3>2. mem'[n] = [w \in Word |-> n]
      BY <1>3, <2>2, <2>4
    <3>3. QED
      BY <2>3, <2>4, <3>1, <3>2
  <2>5. CASE n < NumCycles /\ CompletedIs(n + 1)'
    <3>1. n + 1 \in Row
      BY <2>5, SizeAssumption, SMT DEF Row
    <3>2. Completed' = n + 1
      BY <1>3, <2>5, <3>1
    <3>3. mem'[n + 1] = [w \in Word |-> n + 1]
      BY <1>3, <2>2, <2>5, <3>1
    <3>4. QED
      BY <2>3, <2>5, <3>1, <3>2, <3>3 DEF Abstract!Tick
  <2>6. QED
    BY <2>1, <2>4, <2>5, CompletedStep
<1>5. QED
  BY <1>1, <1>4, InductiveHolds, PTL DEF Spec, ImplementsCircuit, Abstract!Spec

-----------------------------------------------------------------------------
(* The carries of a macro phase. The walk of the oracle leaves lanes that   *)
(* satisfy the ripple equation (Walked); during the scan gen and prop       *)
(* relate a lane's carry to that of the lane dist below it (ScanInvariant); *)
(* afterwards gen is the carry, and so the outputs agree.                   *)

USE LanesAssumption, InputAssumption DEF Lane

\* The oracle's carry into lane l, from the carry out of the lane before it.
RefCIn(l) ==
  (IF inp[l].start THEN inp[l].ci ELSE l > 0 /\ refCO[l - 1][3]) \/ inp[l].cyinit

\* Lane l is as the oracle leaves it.
Walked(l) ==
  IF inp[l].carry4
    THEN refO[l] = OBits(inp[l], RefCIn(l)) /\ refCO[l] = COBits(inp[l], RefCIn(l))
    ELSE refO[l] = NoBits /\ refCO[l] = NoBits

WalkInv ==
  /\ pc # "walk" => cursor = Lanes
  /\ \A l \in Lane : l < cursor => Walked(l)
  /\ prev_co3 = (cursor > 0 /\ refCO[cursor - 1][3])

ResultInv ==
  /\ pc = "reduce" => dist = 1
  /\ pc = "walk" => dist = 1 /\ \A l \in Lane : l >= cursor => refO[l] = NoBits /\ refCO[l] = NoBits
  /\ pc = "evaluate" => \A l \in Lane : gen[l] = refCO[l][3]

ScanIInv == ScanTypeOK /\ WalkInv /\ ScanInvariant /\ ResultInv /\ ScanAgrees

-----------------------------------------------------------------------------
(* One CARRY4. *)

LEMMA CarryType ==
  ASSUME NEW x \in LaneInput, NEW c \in BOOLEAN
  PROVE  /\ Carry0(x, c) \in BOOLEAN /\ Carry1(x, c) \in BOOLEAN
         /\ Carry2(x, c) \in BOOLEAN /\ Carry3(x, c) \in BOOLEAN
BY DEF Carry0, Carry1, Carry2, Carry3, Mux, LaneInput, Bit

\* A carry leaves a lane exactly if the lane makes one or passes one through.
LEMMA GeneratePropagate ==
  ASSUME NEW x \in LaneInput, NEW c \in BOOLEAN
  PROVE  Carry3(x, c) = (Generate(x) \/ (Propagate(x) /\ c))
BY DEF Carry0, Carry1, Carry2, Carry3, Generate, Propagate, Mux, LaneInput, Bit

LEMMA BitsType ==
  ASSUME NEW x \in LaneInput, NEW c \in BOOLEAN
  PROVE  /\ OBits(x, c) \in [Bit -> BOOLEAN]
         /\ COBits(x, c) \in [Bit -> BOOLEAN]
         /\ COBits(x, c)[3] = Carry3(x, c)
<1>1. COBits(x, c) \in [Bit -> BOOLEAN]
  BY CarryType DEF COBits, CarryInto
<1>2. OBits(x, c) \in [Bit -> BOOLEAN]
  BY DEF OBits
<1>3. COBits(x, c)[3] = Carry3(x, c)
  BY DEF COBits, CarryInto, Bit
<1> QED BY <1>1, <1>2, <1>3

-----------------------------------------------------------------------------
(* Types. *)

LEMMA InputType ==
  ASSUME ScanTypeOK, NEW l \in Lane
  PROVE  /\ inp[l] \in LaneInput
         /\ inp[l].carry4 \in BOOLEAN /\ inp[l].start \in BOOLEAN
         /\ inp[l].ci \in BOOLEAN /\ inp[l].cyinit \in BOOLEAN
BY DEF ScanTypeOK, LaneInput

LEMMA TypeInit == ScanInit => ScanTypeOK
<1> SUFFICES ASSUME ScanInit PROVE ScanTypeOK
  OBVIOUS
<1>1. NoBits \in [Bit -> BOOLEAN]
  BY DEF NoBits
<1>2. inp \in [Lane -> LaneInput]
  BY DEF ScanInit
<1>3. cursor \in 0..Lanes
  BY DEF ScanInit
<1>4. refO \in LaneBits /\ refCO \in LaneBits /\ outO \in LaneBits /\ outCO \in LaneBits
  BY <1>1 DEF ScanInit, LaneBits
<1>5. gen \in [Lane -> BOOLEAN] /\ prop \in [Lane -> BOOLEAN]
  BY DEF ScanInit
<1>6. pc = "walk" /\ dist = 1 /\ prev_co3 = FALSE
  BY DEF ScanInit
<1>7. prev_co3 \in BOOLEAN
  BY <1>6
<1>8. dist \in Nat \ {0}
  BY <1>6
<1> QED BY <1>2, <1>3, <1>4, <1>5, <1>6, <1>7, <1>8 DEF ScanTypeOK

LEMMA TypeStep ==
  ASSUME ScanTypeOK, [ScanNext]_scanVars
  PROVE  ScanTypeOK'
<1>1. CASE WalkOther
  <2>1. cursor' \in 0..Lanes
    BY <1>1 DEF WalkOther, ScanTypeOK
  <2> QED BY <1>1, <2>1 DEF WalkOther, ScanTypeOK
<1>2. CASE WalkCarry4
  <2> DEFINE c == (IF inp[cursor].start THEN inp[cursor].ci ELSE prev_co3) \/ inp[cursor].cyinit
  <2>1. cursor \in Lane
    BY <1>2 DEF WalkCarry4, ScanTypeOK
  <2>2. c \in BOOLEAN /\ inp[cursor] \in LaneInput
    BY <2>1, InputType DEF ScanTypeOK
  <2>3. /\ OBits(inp[cursor], c) \in [Bit -> BOOLEAN]
        /\ COBits(inp[cursor], c) \in [Bit -> BOOLEAN]
        /\ Carry3(inp[cursor], c) \in BOOLEAN
    BY <2>2, BitsType, CarryType
  <2> HIDE DEF c
  <2>4. /\ refO' = [refO EXCEPT ![cursor] = OBits(inp[cursor], c)]
        /\ refCO' = [refCO EXCEPT ![cursor] = COBits(inp[cursor], c)]
        /\ prev_co3' = Carry3(inp[cursor], c)
        /\ cursor' = cursor + 1
        /\ UNCHANGED <<pc, inp, dist, gen, prop, outO, outCO>>
        /\ cursor < Lanes
    BY <1>2 DEF WalkCarry4, c
  <2> QED BY <2>1, <2>3, <2>4 DEF ScanTypeOK, LaneBits
<1>3. CASE WalkEnd
  BY <1>3 DEF WalkEnd, ScanTypeOK
<1>4. CASE Reduce
  BY <1>4 DEF Reduce, ScanTypeOK
<1>5. CASE ScanStep
  <2>1. \A l \in Lane : l >= dist => l - dist \in Lane
    BY DEF ScanTypeOK
  <2> QED BY <1>5, <2>1 DEF ScanStep, ScanTypeOK
<1>6. CASE ScanEnd
  BY <1>6 DEF ScanEnd, ScanTypeOK
<1>7. CASE Evaluate
  <2>1. \A l \in Lane : CIn(l) \in BOOLEAN
    BY DEF CIn, Seed
  <2>2. \A l \in Lane : /\ OBits(inp[l], CIn(l)) \in [Bit -> BOOLEAN]
                        /\ COBits(inp[l], CIn(l)) \in [Bit -> BOOLEAN]
    BY <2>1, InputType, BitsType
  <2>3. NoBits \in [Bit -> BOOLEAN]
    BY DEF NoBits
  <2> QED BY <1>7, <2>2, <2>3 DEF Evaluate, ScanTypeOK, LaneBits
<1>8. CASE UNCHANGED scanVars
  BY <1>8 DEF scanVars, ScanTypeOK
<1> QED BY <1>1, <1>2, <1>3, <1>4, <1>5, <1>6, <1>7, <1>8 DEF ScanNext, ScanFinished

-----------------------------------------------------------------------------
(* The oracle's walk. *)

LEMMA WalkInit == ScanInit => WalkInv /\ ScanInvariant /\ ResultInv /\ ScanAgrees
<1> SUFFICES ASSUME ScanInit PROVE WalkInv /\ ScanInvariant /\ ResultInv /\ ScanAgrees
  OBVIOUS
<1>1. pc = "walk" /\ cursor = 0 /\ prev_co3 = FALSE /\ dist = 1
  BY DEF ScanInit
<1>2. \A l \in Lane : refO[l] = NoBits /\ refCO[l] = NoBits
  BY DEF ScanInit
<1>3. ~(cursor > 0) /\ \A l \in Lane : ~(l < cursor)
  BY <1>1
<1>4. WalkInv
  BY <1>1, <1>3 DEF WalkInv
<1> QED BY <1>1, <1>2, <1>4 DEF ScanInvariant, ResultInv, ScanAgrees

\* A step that leaves the oracle's variables alone.
LEMMA WalkUnchanged ==
  ASSUME WalkInv, UNCHANGED <<inp, cursor, prev_co3, refO, refCO>>,
         pc' # "walk" => cursor = Lanes
  PROVE  WalkInv'
BY DEF WalkInv, Walked, RefCIn

LEMMA WalkStep ==
  ASSUME ScanTypeOK, WalkInv, ResultInv, [ScanNext]_scanVars
  PROVE  WalkInv'
<1>1. CASE WalkOther
  <2>1. cursor \in Lane /\ cursor' = cursor + 1 /\ pc = "walk" /\ pc' = pc
    BY <1>1 DEF WalkOther, ScanTypeOK
  <2>2. refO[cursor] = NoBits /\ refCO[cursor] = NoBits
    BY <2>1 DEF ResultInv
  <2>3. \A l \in Lane : l < cursor' => Walked(l)'
    BY <1>1, <2>1, <2>2 DEF WalkOther, WalkInv, Walked, RefCIn
  <2>4. prev_co3' = (cursor' > 0 /\ refCO'[cursor' - 1][3])
    <3>1. prev_co3' = FALSE /\ refCO' = refCO
      BY <1>1 DEF WalkOther
    <3>2. NoBits[3] = FALSE
      BY DEF NoBits, Bit
    <3>3. cursor' - 1 = cursor
      BY <2>1
    <3> QED BY <3>1, <3>2, <3>3, <2>2
  <2> QED BY <2>1, <2>3, <2>4 DEF WalkInv
<1>2. CASE WalkCarry4
  <2> DEFINE c == (IF inp[cursor].start THEN inp[cursor].ci ELSE prev_co3) \/ inp[cursor].cyinit
  <2>1. /\ cursor \in Lane /\ cursor' = cursor + 1 /\ pc = "walk" /\ pc' = pc
        /\ inp' = inp /\ inp[cursor].carry4
        /\ refO' = [refO EXCEPT ![cursor] = OBits(inp[cursor], c)]
        /\ refCO' = [refCO EXCEPT ![cursor] = COBits(inp[cursor], c)]
        /\ prev_co3' = Carry3(inp[cursor], c)
    BY <1>2 DEF WalkCarry4, ScanTypeOK
  <2>2. c \in BOOLEAN /\ inp[cursor] \in LaneInput
    BY <2>1, InputType DEF ScanTypeOK
  <2>3. c = RefCIn(cursor)
    BY <2>1 DEF WalkInv, RefCIn
  <2> HIDE DEF c
  <2>4. \A l \in Lane : l # cursor => refO'[l] = refO[l] /\ refCO'[l] = refCO[l]
    BY <2>1
  <2>5. /\ refO'[cursor] = OBits(inp[cursor], c)
        /\ refCO'[cursor] = COBits(inp[cursor], c)
    BY <2>1 DEF ScanTypeOK, LaneBits
  <2>6. \A l \in Lane : l <= cursor => RefCIn(l)' = RefCIn(l)
    <3> SUFFICES ASSUME NEW l \in Lane, l <= cursor PROVE RefCIn(l)' = RefCIn(l)
      OBVIOUS
    <3>1. l > 0 => l - 1 \in Lane /\ l - 1 # cursor
      BY <2>1
    <3>2. l > 0 => refCO'[l - 1] = refCO[l - 1]
      BY <3>1, <2>4
    <3> QED BY <2>1, <3>2 DEF RefCIn
  <2>7. \A l \in Lane : l < cursor' => Walked(l)'
    <3> SUFFICES ASSUME NEW l \in Lane, l < cursor' PROVE Walked(l)'
      OBVIOUS
    <3>1. CASE l = cursor
      BY <3>1, <2>1, <2>3, <2>5, <2>6 DEF Walked
    <3>2. CASE l # cursor
      <4>1. l < cursor
        BY <3>2, <2>1
      <4>2. Walked(l)
        BY <4>1 DEF WalkInv
      <4> QED BY <4>1, <4>2, <2>1, <2>4, <2>6 DEF Walked
    <3> QED BY <3>1, <3>2
  <2>8. prev_co3' = (cursor' > 0 /\ refCO'[cursor' - 1][3])
    <3>1. cursor' > 0 /\ cursor' - 1 = cursor
      BY <2>1
    <3>2. refCO'[cursor][3] = Carry3(inp[cursor], c)
      BY <2>2, <2>5, BitsType
    <3>3. prev_co3' = refCO'[cursor][3]
      BY <2>1, <3>2
    <3>4. refCO'[cursor' - 1][3] = refCO'[cursor][3]
      BY <3>1
    <3>5. refCO'[cursor][3] \in BOOLEAN
      BY <3>2, <2>2, CarryType
    <3>6. (cursor' > 0) = TRUE
      BY <2>1
    <3> QED BY <3>3, <3>4, <3>5, <3>6, Zenon
  <2> QED BY <2>1, <2>7, <2>8 DEF WalkInv
<1>3. CASE WalkEnd
  BY <1>3, WalkUnchanged DEF WalkEnd
<1>4. CASE Reduce
  BY <1>4, WalkUnchanged DEF Reduce, WalkInv
<1>5. CASE ScanStep
  BY <1>5, WalkUnchanged DEF ScanStep, WalkInv
<1>6. CASE ScanEnd
  BY <1>6, WalkUnchanged DEF ScanEnd, WalkInv
<1>7. CASE Evaluate
  BY <1>7, WalkUnchanged DEF Evaluate, WalkInv
<1>8. CASE UNCHANGED scanVars
  BY <1>8, WalkUnchanged DEF scanVars, WalkInv
<1> QED BY <1>1, <1>2, <1>3, <1>4, <1>5, <1>6, <1>7, <1>8 DEF ScanNext, ScanFinished

-----------------------------------------------------------------------------
(* The kernel's scan. *)

\* What a lane's gen and prop say, once composed with those of a lane further down.
LEMMA Compose ==
  ASSUME NEW r \in BOOLEAN, NEW r1 \in BOOLEAN, NEW r2 \in BOOLEAN,
         NEW g0 \in BOOLEAN, NEW p0 \in BOOLEAN, NEW g1 \in BOOLEAN, NEW p1 \in BOOLEAN,
         r = (g0 \/ (p0 /\ r1)), r1 = (g1 \/ (p1 /\ r2))
  PROVE  r = ((g0 \/ (p0 /\ g1)) \/ ((p0 /\ p1) /\ r2))
OBVIOUS

\* The two cases of ScanInvariant, apart.
ScanFrom(l) == refCO[l][3] = (gen[l] \/ (prop[l] /\ refCO[l - dist][3]))
ScanFirst(l) == refCO[l][3] = gen[l]

LEMMA ScanCases ==
  ASSUME ScanTypeOK
  PROVE  (\A l \in Lane : refCO[l][3] = (gen[l] \/ (l >= dist /\ prop[l] /\ refCO[l - dist][3])))
         <=> (\A l \in Lane : (l >= dist => ScanFrom(l)) /\ (l < dist => ScanFirst(l)))
<1>1. ASSUME NEW l \in Lane
      PROVE  (refCO[l][3] = (gen[l] \/ (l >= dist /\ prop[l] /\ refCO[l - dist][3])))
             <=> (l >= dist => ScanFrom(l)) /\ (l < dist => ScanFirst(l))
  <2>1. gen[l] \in BOOLEAN /\ prop[l] \in BOOLEAN /\ refCO[l][3] \in BOOLEAN
    BY DEF ScanTypeOK, LaneBits, Bit
  <2>2. CASE l >= dist
    <3>1. ~(l < dist)
      BY <2>2 DEF ScanTypeOK
    <3> QED BY <2>1, <2>2, <3>1, Zenon DEF ScanFrom
  <2>3. CASE ~(l >= dist)
    <3>1. l < dist
      BY <2>3 DEF ScanTypeOK
    <3> QED BY <2>1, <2>3, <3>1, Zenon DEF ScanFirst
  <2> QED BY <2>2, <2>3
<1> QED BY <1>1

ScanSplit == \A l \in Lane : (l >= dist => ScanFrom(l)) /\ (l < dist => ScanFirst(l))

LEMMA ScanInvariantSplit ==
  ScanTypeOK => (ScanInvariant <=> (pc = "scan" => ScanSplit))
BY ScanCases DEF ScanInvariant, ScanSplit

\* The chain seed is the part of the carry-in that a link does not have.
LEMMA SeedSplit ==
  ASSUME NEW s \in BOOLEAN, NEW ci \in BOOLEAN, NEW cy \in BOOLEAN,
         NEW G \in BOOLEAN, NEW P \in BOOLEAN, NEW r1 \in BOOLEAN
  PROVE  (G \/ (P /\ ((IF s THEN ci ELSE r1) \/ cy)))
         = ((G \/ (P /\ ((s /\ ci) \/ cy))) \/ ((~s /\ P) /\ r1))
OBVIOUS

\* What the walk left for a lane, as one equation over its carry out.
LEMMA WalkedCarry ==
  ASSUME ScanTypeOK, NEW l \in Lane, Walked(l)
  PROVE  /\ inp[l].carry4 =>
              refCO[l][3] = (Generate(inp[l]) \/ (Propagate(inp[l]) /\ RefCIn(l)))
         /\ ~inp[l].carry4 => refCO[l][3] = FALSE
<1>1. CASE inp[l].carry4
  <2>1. inp[l] \in LaneInput /\ RefCIn(l) \in BOOLEAN
    BY InputType DEF RefCIn
  <2>2. refCO[l] = COBits(inp[l], RefCIn(l))
    BY <1>1 DEF Walked
  <2>3. refCO[l][3] = Carry3(inp[l], RefCIn(l))
    BY <2>1, <2>2, BitsType
  <2>4. Carry3(inp[l], RefCIn(l)) = (Generate(inp[l]) \/ (Propagate(inp[l]) /\ RefCIn(l)))
    BY <2>1, GeneratePropagate
  <2> QED BY <1>1, <2>3, <2>4, Zenon
<1>2. CASE ~inp[l].carry4
  <2>1. refCO[l] = NoBits
    BY <1>2 DEF Walked
  <2>2. NoBits[3] = FALSE
    BY DEF NoBits, Bit
  <2>3. refCO[l][3] = FALSE
    BY <2>1, <2>2, Zenon
  <2> QED BY <1>2, <2>3
<1> QED BY <1>1, <1>2

LEMMA ReduceEstablishes ==
  ASSUME ScanTypeOK, WalkInv, ResultInv, Reduce, ScanTypeOK'
  PROVE  ScanInvariant'
<1>1. /\ dist' = 1 /\ cursor = Lanes /\ refCO' = refCO /\ pc = "reduce" /\ inp' = inp
  BY DEF Reduce, ResultInv, WalkInv
<1>2. ASSUME NEW l \in Lane
      PROVE  (l >= 1 => ScanFrom(l)') /\ (l < 1 => ScanFirst(l)')
  <2>1. Walked(l)
    BY <1>1 DEF WalkInv
  <2>2. /\ gen'[l] = (/\ inp[l].carry4
                      /\ Generate(inp[l]) \/ (Propagate(inp[l]) /\ Seed(inp[l])))
        /\ prop'[l] = (inp[l].carry4 /\ ~inp[l].start /\ Propagate(inp[l]))
    BY DEF Reduce
  <2>3. /\ inp[l].carry4 \in BOOLEAN /\ inp[l].start \in BOOLEAN
        /\ inp[l].ci \in BOOLEAN /\ inp[l].cyinit \in BOOLEAN
        /\ Generate(inp[l]) \in BOOLEAN /\ Propagate(inp[l]) \in BOOLEAN
        /\ gen'[l] \in BOOLEAN /\ prop'[l] \in BOOLEAN
    <3>1. inp[l] \in LaneInput
      BY InputType
    <3>2. Generate(inp[l]) \in BOOLEAN
      BY <3>1, CarryType DEF Generate
    <3>3. Propagate(inp[l]) \in BOOLEAN
      BY DEF Propagate
    <3> QED BY <3>2, <3>3, InputType DEF ScanTypeOK
  <2>4. refCO[l][3] \in BOOLEAN
    BY DEF ScanTypeOK, LaneBits, Bit
  <2>5. CASE ~inp[l].carry4
    <3>1. refCO[l][3] = FALSE
      BY <2>1, <2>5, WalkedCarry
    <3>2. gen'[l] = FALSE /\ prop'[l] = FALSE
      BY <2>2, <2>5, Zenon
    <3>3. refCO'[l][3] = FALSE
      BY <3>1, <1>1
    <3>4. ScanFrom(l)' /\ ScanFirst(l)'
      BY <3>2, <3>3, Zenon DEF ScanFrom, ScanFirst
    <3> QED BY <3>4
  <2>6. CASE inp[l].carry4
    <3>1. refCO[l][3] = (Generate(inp[l]) \/ (Propagate(inp[l]) /\ RefCIn(l)))
      BY <2>1, <2>6, WalkedCarry
    <3>2. /\ gen'[l] = (Generate(inp[l]) \/ (Propagate(inp[l])
                        /\ ((inp[l].start /\ inp[l].ci) \/ inp[l].cyinit)))
          /\ prop'[l] = (~inp[l].start /\ Propagate(inp[l]))
      BY <2>2, <2>3, <2>6, Zenon DEF Seed
    <3>3. ASSUME l >= 1 PROVE ScanFrom(l)'
      <4>1. l - 1 \in Lane /\ (l > 0) = TRUE
        BY <3>3
      <4>2. refCO[l - 1][3] \in BOOLEAN
        BY <4>1 DEF ScanTypeOK, LaneBits, Bit
      <4>3. RefCIn(l) = ((IF inp[l].start THEN inp[l].ci ELSE refCO[l - 1][3]) \/ inp[l].cyinit)
        BY <4>1, <4>2, <2>3, Zenon DEF RefCIn
      <4>4. refCO[l][3] = (Generate(inp[l]) \/ (Propagate(inp[l])
              /\ ((IF inp[l].start THEN inp[l].ci ELSE refCO[l - 1][3]) \/ inp[l].cyinit)))
        BY <3>1, <4>3, Zenon
      <4>5. refCO[l][3] = (gen'[l] \/ (prop'[l] /\ refCO[l - 1][3]))
        BY <4>4, <4>2, <3>2, <2>3, SeedSplit, Zenon
      <4> QED BY <4>5, <1>1 DEF ScanFrom
    <3>4. ASSUME l < 1 PROVE ScanFirst(l)'
      <4>1. (l > 0) = FALSE
        BY <3>4
      <4>2. RefCIn(l) = ((IF inp[l].start THEN inp[l].ci ELSE FALSE) \/ inp[l].cyinit)
        BY <4>1, <2>3, Zenon DEF RefCIn
      <4>3. refCO[l][3] = gen'[l]
        BY <3>1, <4>2, <3>2, <2>3, Zenon
      <4> QED BY <4>3, <1>1 DEF ScanFirst
    <3> QED BY <3>3, <3>4
  <2> QED BY <2>5, <2>6
<1>3. ScanSplit'
  BY <1>1, <1>2 DEF ScanSplit
<1> QED BY <1>3, ScanInvariantSplit, PTL

LEMMA ScanStepKeeps ==
  ASSUME ScanTypeOK, ScanInvariant, ScanStep, ScanTypeOK'
  PROVE  ScanInvariant'
<1>1. /\ ScanSplit /\ dist' = 2 * dist /\ refCO' = refCO
      /\ dist \in Nat \ {0}
  BY ScanInvariantSplit DEF ScanStep, ScanTypeOK
<1>2. ASSUME NEW l \in Lane
      PROVE  /\ gen[l] \in BOOLEAN /\ prop[l] \in BOOLEAN /\ refCO[l][3] \in BOOLEAN
             /\ l >= dist => l - dist \in Lane
  BY <1>1 DEF ScanTypeOK, LaneBits, Bit
<1>3. ASSUME NEW l \in Lane, l >= 2 * dist PROVE ScanFrom(l)'
  <2>1. l >= dist /\ l - dist \in Lane /\ l - dist >= dist /\ (l - dist) - dist = l - 2 * dist
    BY <1>1, <1>3
  <2>2. refCO[l][3] = (gen[l] \/ (prop[l] /\ refCO[l - dist][3]))
    BY <1>1, <2>1 DEF ScanSplit, ScanFrom
  <2>3. refCO[l - dist][3] = (gen[l - dist] \/ (prop[l - dist] /\ refCO[(l - dist) - dist][3]))
    BY <1>1, <2>1 DEF ScanSplit, ScanFrom
  <2>4. gen'[l] = (gen[l] \/ (prop[l] /\ gen[l - dist])) /\ prop'[l] = (prop[l] /\ prop[l - dist])
    BY <2>1 DEF ScanStep
  <2>5. (l - dist) - dist \in Lane
    BY <1>1, <2>1
  <2>6. refCO[l][3] = (gen'[l] \/ (prop'[l] /\ refCO[(l - dist) - dist][3]))
    BY <2>1, <2>2, <2>3, <2>4, <2>5, <1>2, Compose, Zenon
  <2> QED BY <2>6, <2>1, <1>1 DEF ScanFrom
<1>4. ASSUME NEW l \in Lane, l < 2 * dist PROVE ScanFirst(l)'
  <2>1. CASE l >= dist
    <3>1. l - dist \in Lane /\ l - dist < dist
      BY <1>1, <1>4, <2>1
    <3>2. refCO[l][3] = (gen[l] \/ (prop[l] /\ refCO[l - dist][3]))
      BY <1>1, <2>1 DEF ScanSplit, ScanFrom
    <3>3. refCO[l - dist][3] = gen[l - dist]
      BY <1>1, <3>1 DEF ScanSplit, ScanFirst
    <3>4. gen'[l] = (gen[l] \/ (prop[l] /\ gen[l - dist]))
      BY <2>1 DEF ScanStep
    <3>5. refCO[l][3] = gen'[l]
      BY <3>2, <3>3, <3>4, Zenon
    <3> QED BY <3>5, <1>1 DEF ScanFirst
  <2>2. CASE ~(l >= dist)
    <3>1. l < dist
      BY <1>1, <2>2
    <3>2. gen'[l] = gen[l]
      BY <2>2 DEF ScanStep
    <3> QED BY <1>1, <3>1, <3>2 DEF ScanSplit, ScanFirst
  <2> QED BY <2>1, <2>2
<1>5. ScanSplit'
  BY <1>1, <1>3, <1>4 DEF ScanSplit
<1> QED BY <1>5, ScanInvariantSplit, PTL

\* With no lane dist below it, every lane holds its carry out.
LEMMA ScanEndResult ==
  ASSUME ScanTypeOK, ScanInvariant, ScanEnd
  PROVE  \A l \in Lane : gen[l] = refCO[l][3]
<1>1. pc = "scan" /\ dist >= Lanes
  BY DEF ScanEnd
<1>2. \A l \in Lane : l < dist
  BY <1>1 DEF ScanTypeOK
<1>3. ScanSplit
  BY <1>1, ScanInvariantSplit
<1> QED BY <1>2, <1>3 DEF ScanSplit, ScanFirst

LEMMA EvaluateAgrees ==
  ASSUME ScanTypeOK, WalkInv, ResultInv, Evaluate
  PROVE  outO' = refO /\ outCO' = refCO
<1>1. pc = "evaluate" /\ cursor = Lanes
  BY DEF Evaluate, WalkInv
<1>2. ASSUME NEW l \in Lane
      PROVE  outO'[l] = refO[l] /\ outCO'[l] = refCO[l]
  <2>1. Walked(l)
    BY <1>1 DEF WalkInv
  <2>2. CASE ~inp[l].carry4
    BY <2>1, <2>2 DEF Evaluate, Walked
  <2>3. CASE inp[l].carry4
    <3>1. CIn(l) = RefCIn(l)
      <4>1. /\ inp[l].start \in BOOLEAN /\ inp[l].ci \in BOOLEAN
            /\ inp[l].cyinit \in BOOLEAN
        BY InputType
      <4>2. CASE l > 0
        <5>1. l - 1 \in Lane
          BY <4>2
        <5>2. gen[l - 1] = refCO[l - 1][3] /\ gen[l - 1] \in BOOLEAN
          BY <5>1, <1>1 DEF ResultInv, ScanTypeOK
        <5> QED BY <4>1, <4>2, <5>2, Zenon DEF CIn, RefCIn, Seed
      <4>3. CASE ~(l > 0)
        BY <4>1, <4>3, Zenon DEF CIn, RefCIn, Seed
      <4> QED BY <4>2, <4>3
    <3> QED BY <2>1, <2>3, <3>1 DEF Evaluate, Walked
  <2> QED BY <2>2, <2>3
<1>3. DOMAIN outO' = Lane /\ DOMAIN outCO' = Lane
  BY DEF Evaluate
<1>4. refO \in [Lane -> [Bit -> BOOLEAN]] /\ refCO \in [Lane -> [Bit -> BOOLEAN]]
  BY DEF ScanTypeOK, LaneBits
<1>5. outO' \in [Lane -> [Bit -> BOOLEAN]] /\ outCO' \in [Lane -> [Bit -> BOOLEAN]]
  <2>1. outO' = [l \in Lane |-> outO'[l]] /\ outCO' = [l \in Lane |-> outCO'[l]]
    BY DEF Evaluate
  <2> QED BY <1>2, <1>4, <2>1
<1> QED BY <1>2, <1>4, <1>5

-----------------------------------------------------------------------------
(* The inductive invariant. *)

LEMMA ResultStep ==
  ASSUME ScanTypeOK, ScanInvariant, ResultInv, [ScanNext]_scanVars
  PROVE  ResultInv'
<1>1. CASE WalkOther
  BY <1>1 DEF WalkOther, ResultInv, ScanTypeOK
<1>2. CASE WalkCarry4
  <2>1. cursor \in Lane /\ cursor' = cursor + 1 /\ pc = "walk" /\ pc' = pc /\ dist' = dist
    BY <1>2 DEF WalkCarry4, ScanTypeOK
  <2>2. \A l \in Lane : l # cursor => refO'[l] = refO[l] /\ refCO'[l] = refCO[l]
    BY <1>2 DEF WalkCarry4
  <2> QED BY <2>1, <2>2 DEF ResultInv
<1>3. CASE WalkEnd
  BY <1>3 DEF WalkEnd, ResultInv
<1>4. CASE Reduce
  BY <1>4 DEF Reduce, ResultInv
<1>5. CASE ScanStep
  BY <1>5 DEF ScanStep, ResultInv
<1>6. CASE ScanEnd
  <2>1. \A l \in Lane : gen[l] = refCO[l][3]
    BY <1>6, ScanEndResult
  <2> QED BY <1>6, <2>1 DEF ScanEnd, ResultInv
<1>7. CASE Evaluate
  BY <1>7 DEF Evaluate, ResultInv
<1>8. CASE UNCHANGED scanVars
  BY <1>8 DEF scanVars, ResultInv
<1> QED BY <1>1, <1>2, <1>3, <1>4, <1>5, <1>6, <1>7, <1>8 DEF ScanNext, ScanFinished

LEMMA ScanAndResultStep ==
  ASSUME ScanIInv, [ScanNext]_scanVars, ScanTypeOK'
  PROVE  ScanInvariant' /\ ScanAgrees'
<1>1. CASE Reduce
  BY <1>1, ReduceEstablishes DEF ScanIInv, Reduce, ScanAgrees
<1>2. CASE ScanStep
  BY <1>2, ScanStepKeeps DEF ScanIInv, ScanStep, ScanAgrees
<1>3. CASE Evaluate
  BY <1>3, EvaluateAgrees DEF ScanIInv, Evaluate, ScanAgrees, ScanInvariant
<1>4. CASE WalkOther \/ WalkCarry4 \/ WalkEnd \/ ScanEnd
  BY <1>4 DEF WalkOther, WalkCarry4, WalkEnd, ScanEnd, ScanAgrees, ScanInvariant
<1>5. CASE UNCHANGED scanVars
  BY <1>5 DEF scanVars, ScanIInv, ScanAgrees, ScanInvariant
<1> QED BY <1>1, <1>2, <1>3, <1>4, <1>5 DEF ScanNext, ScanFinished

\* What the walk of the oracle has left and what the scan has combined (flatten_test.rs
\* run_macro_phase; kernel_v1_impl.cuh gem_macro_phase), phase by phase.
THEOREM ScanInductive == ScanSpec => []ScanIInv
<1>1. ScanInit => ScanIInv
  BY TypeInit, WalkInit DEF ScanIInv
<1>2. ScanIInv /\ [ScanNext]_scanVars => ScanIInv'
  BY TypeStep, WalkStep, ResultStep, ScanAndResultStep DEF ScanIInv
<1> QED BY <1>1, <1>2, PTL DEF ScanSpec

(***************************************************************************)
(* Every variable keeps its type, whatever the number of lanes.            *)
(***************************************************************************)
THEOREM TypeCorrect == ScanSpec => []ScanTypeOK
<1>1. ScanIInv => ScanTypeOK
  BY DEF ScanIInv
<1> QED BY <1>1, ScanInductive, PTL

(***************************************************************************)
(* During the scan of gem_macro_phase, gen and prop of lane l relate its   *)
(* carry to that of the lane dist below: no step of it loses or leaks one. *)
(***************************************************************************)
THEOREM ScanCorrect == ScanSpec => []ScanInvariant
<1>1. ScanIInv => ScanInvariant
  BY DEF ScanIInv
<1> QED BY <1>1, ScanInductive, PTL

(***************************************************************************)
(* The O and CO bits of the kernel's macro phase are those of the oracle's *)
(* run_macro_phase, for any number of lanes, any mix of chains and any     *)
(* inputs.                                                                 *)
(***************************************************************************)
THEOREM KernelMatchesOracle == ScanSpec => []ScanAgrees
<1>1. ScanIInv => ScanAgrees
  BY DEF ScanIInv
<1> QED BY <1>1, ScanInductive, PTL

=============================================================================
