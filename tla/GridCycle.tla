----------------------------- MODULE GridCycle -----------------------------
(***************************************************************************)
(* The simulation kernel (kernel_v1_impl.cuh) across thread blocks: every  *)
(* block runs the partitions of its script for a major stage, then waits   *)
(* for the whole grid, for all major stages of all cycles.  States of the  *)
(* design are rows of one array, one row per cycle: a partition reads the  *)
(* row of its cycle, and from the next row the words an earlier major      *)
(* stage left there; it writes the next row.  SRAM, DSP and SRL state is   *)
(* updated in place, once per cycle.                                       *)
(*                                                                         *)
(* A value is named by the cycle it is right for.  A partition that read a *)
(* wrong value stores Wrong.  Within a block the threads run in step       *)
(* (__syncthreads), so the steps of a block are those of one process; the  *)
(* loads and stores of different blocks interleave word by word.           *)
(***************************************************************************)
EXTENDS Integers, Sequences, FiniteSets

CONSTANTS
  Block,
  NumStages,   (* major stages                                             *)
  NumCycles,
  Word,        (* words of a row that carry state, staged IO or inputs     *)
  InputWord,   (* those the host has filled in for every row               *)
  Memory,      (* the in-place state: SRAMs, DSPs and SRLs                 *)
  Script,      (* the partitions of each block, by major stage             *)
  Capacities   (* how many blocks the device may hold at once              *)

\* A partition: its boomerang stages, the words it reads from its cycle's row
\* and from the next row, the SRLs its macro phases visit, the SRAMs and DSPs
\* it commits, and the words it writes.
Partition == [stages : Nat, old : SUBSET Word, new : SUBSET Word,
              srls : SUBSET Memory, rams : SUBSET Memory, out : SUBSET Word]

ASSUME SizeAssumption ==
  /\ IsFiniteSet(Block) /\ Block # {}
  /\ NumStages \in Nat \ {0} /\ NumCycles \in Nat
  /\ Capacities \subseteq Nat

ASSUME ScriptAssumption ==
  /\ InputWord \subseteq Word
  /\ Script \in [1 .. NumStages -> [Block -> Seq(Partition) \ {<< >>}]]

\* What the stages of the compiler before this one give: a word is written by
\* one partition (NoWordShared of FlattenLayout); what is read from the next row
\* is an input or staged by an earlier stage (Staging); the header of a block
\* without partitions is all its script for the stage.
ASSUME WordAssumption ==
  \A s, r \in 1 .. NumStages : \A b, d \in Block :
    \A i \in DOMAIN Script[s][b] : \A j \in DOMAIN Script[r][d] :
      LET p == Script[s][b][i]
          q == Script[r][d][j]
      IN /\ p.out \cap InputWord = {}
         /\ p.out \cap q.out # {} => s = r /\ b = d /\ i = j
         /\ p.stages = 0 => /\ p.out = {} /\ p.srls = {} /\ p.rams = {}
                           /\ Len(Script[s][b]) = 1

ASSUME ReadAssumption ==
  \A s \in 1 .. NumStages : \A b \in Block : \A i \in DOMAIN Script[s][b] :
    /\ \A w \in Script[s][b][i].old \ InputWord :
         \E r \in 1 .. NumStages : \E d \in Block : \E j \in DOMAIN Script[r][d] : w \in Script[r][d][j].out
    /\ \A w \in Script[s][b][i].new \ InputWord :
         \E r \in 1 .. s - 1 : \E d \in Block : \E j \in DOMAIN Script[r][d] : w \in Script[r][d][j].out

\* A memory belongs to one partition, and is visited once in it.  SRAMs and DSPs
\* are endpoints, which have one; an SRL is not, so of some netlists this is not
\* true and it is no assumption of this module.
OneOwner ==
  \A s, r \in 1 .. NumStages : \A b, d \in Block :
    \A i \in DOMAIN Script[s][b] : \A j \in DOMAIN Script[r][d] :
      LET p == Script[s][b][i]
          q == Script[r][d][j]
      IN /\ p.srls \cap p.rams = {}
         /\ (p.srls \cup p.rams) \cap (q.srls \cup q.rams) # {} => s = r /\ b = d /\ i = j

\* A word that carries state has a writer: true of the words the compiler lays
\* out (FlattenLayout), not of those a script leaves unused.
EveryWordWritten ==
  \A w \in Word \ InputWord :
    \E s \in 1 .. NumStages : \E b \in Block : \E k \in DOMAIN Script[s][b] : w \in Script[s][b][k].out

Unwritten == -1

Wrong == -2

Row == 0 .. NumCycles

VARIABLES
  host,      \* "check", "running", "refused"
  capacity,
  at,        \* a block's place in its loop
  cyc,       \* cycle_i
  stg,       \* stage_i
  part,      \* the partition of its script it is at
  todo,      \* words or memories left in its current step
  good,      \* has it read only right values in this partition?
  mem,       \* states_noninteractive
  smem       \* sram_data: how often each memory has been updated

vars == <<host, capacity, at, cyc, stg, part, todo, good, mem, smem>>

Places == {"idle", "next", "load", "phase", "commit", "store", "sync", "exit"}

-----------------------------------------------------------------------------
Init ==
  /\ host = "check"
  /\ capacity \in Capacities
  /\ at = [b \in Block |-> "idle"]
  /\ cyc = [b \in Block |-> 0]
  /\ stg = [b \in Block |-> 1]
  /\ part = [b \in Block |-> 1]
  /\ todo = [b \in Block |-> {}]
  /\ good = [b \in Block |-> TRUE]
  /\ mem = [r \in Row |-> [w \in Word |->
              IF r = 0 \/ w \in InputWord THEN r ELSE Unwritten]]
  /\ smem = [m \in Memory |-> 0]

\* Mutant of TooManyBlocks: off by one.
FarTooManyBlocks ==
  Cardinality(Block) > capacity + 1

TooManyBlocks ==
  Cardinality(Block) > capacity

\* The host launches a grid only if all of it can be resident at once.
Launch ==
  /\ host = "check"
  /\ host' = IF TooManyBlocks THEN "refused" ELSE "running"
  /\ UNCHANGED <<capacity, at, cyc, stg, part, todo, good, mem, smem>>

\* A block gets a place on the device and keeps it until it exits.
Start(b) ==
  /\ host = "running"
  /\ at[b] = "idle"
  /\ Cardinality({x \in Block : at[x] \notin {"idle", "exit"}}) < capacity
  /\ at' = [at EXCEPT ![b] = IF NumCycles = 0 THEN "exit" ELSE "next"]
  /\ UNCHANGED <<host, capacity, cyc, stg, part, todo, good, mem, smem>>

Current(b) == Script[stg[b]][b][part[b]]

\* Mutant of OutRow: output and input state are one row.
SameRow(b) ==
  cyc[b]

\* output_state
OutRow(b) ==
  cyc[b] + 1

\* Mutant of Committed: an SRL is committed like a DSP as well.
CommittedTwice(b) ==
  Current(b).rams \cup Current(b).srls

\* The memories the partition commits at its end.
Committed(b) ==
  Current(b).rams

Goto(b, place, left) ==
  /\ at' = [at EXCEPT ![b] = place]
  /\ todo' = [todo EXCEPT ![b] = left]

\* The top of the loop over partitions: the script of a block without
\* partitions is one header of no stages, which ends its work for this stage.
Enter(b) ==
  /\ at[b] = "next"
  /\ IF Current(b).stages = 0
       THEN Goto(b, "sync", {})
       ELSE Goto(b, "load", (Current(b).old \X {"old"}) \cup (Current(b).new \X {"new"}))
  /\ good' = [good EXCEPT ![b] = TRUE]
  /\ UNCHANGED <<host, capacity, cyc, stg, part, mem, smem>>

\* One word of the global read: from this cycle's row or, for staged IO, from
\* the row being written.
Load(b) ==
  /\ at[b] = "load"
  /\ \E x \in todo[b] :
       LET row == IF x[2] = "new" THEN OutRow(b) ELSE cyc[b]
       IN /\ good' = [good EXCEPT ![b] = @ /\ mem[row][x[1]] = row]
          /\ Goto(b, "load", todo[b] \ {x})
  /\ UNCHANGED <<host, capacity, cyc, stg, part, mem, smem>>

LoadEnd(b) ==
  /\ at[b] = "load"
  /\ todo[b] = {}
  /\ Goto(b, "phase", Current(b).srls)
  /\ UNCHANGED <<host, capacity, cyc, stg, part, good, mem, smem>>

\* A macro phase reads an SRL's taps, then shifts it.
Phase(b, m) ==
  /\ at[b] = "phase"
  /\ m \in todo[b]
  /\ good' = [good EXCEPT ![b] = @ /\ smem[m] = cyc[b]]
  /\ smem' = [smem EXCEPT ![m] = @ + 1]
  /\ Goto(b, "phase", todo[b] \ {m})
  /\ UNCHANGED <<host, capacity, cyc, stg, part, mem>>

PhaseEnd(b) ==
  /\ at[b] = "phase"
  /\ todo[b] = {}
  /\ Goto(b, "commit", Committed(b))
  /\ UNCHANGED <<host, capacity, cyc, stg, part, good, mem, smem>>

\* An SRAM's read data is what it held before this cycle's write; a DSP adds
\* to the P of the cycle before.
Commit(b, m) ==
  /\ at[b] = "commit"
  /\ m \in todo[b]
  /\ good' = [good EXCEPT ![b] = @ /\ smem[m] = cyc[b]]
  /\ smem' = [smem EXCEPT ![m] = @ + 1]
  /\ Goto(b, "commit", todo[b] \ {m})
  /\ UNCHANGED <<host, capacity, cyc, stg, part, mem>>

CommitEnd(b) ==
  /\ at[b] = "commit"
  /\ todo[b] = {}
  /\ Goto(b, "store", Current(b).out)
  /\ UNCHANGED <<host, capacity, cyc, stg, part, good, mem, smem>>

\* One word of the result, mixed by the clock enables with the old value.
Store(b) ==
  /\ at[b] = "store"
  /\ \E w \in todo[b] :
       /\ mem' = [mem EXCEPT ![OutRow(b)][w] =
                    IF good[b] /\ mem[cyc[b]][w] = cyc[b] THEN cyc[b] + 1 ELSE Wrong]
       /\ Goto(b, "store", todo[b] \ {w})
  /\ UNCHANGED <<host, capacity, cyc, stg, part, good, smem>>

StoreEnd(b) ==
  /\ at[b] = "store"
  /\ todo[b] = {}
  /\ IF part[b] = Len(Script[stg[b]][b])   \* is_last_part
       THEN Goto(b, "sync", {}) /\ UNCHANGED part
       ELSE Goto(b, "next", {}) /\ part' = [part EXCEPT ![b] = @ + 1]
  /\ UNCHANGED <<host, capacity, cyc, stg, good, mem, smem>>

\* Mutant of AllArrived: no barrier behind the last stage of a cycle.
AllArrivedInCycle(b) ==
  \/ stg[b] = NumStages
  \/ \A x \in Block :
       \/ cyc[x] > cyc[b]
       \/ cyc[x] = cyc[b] /\ stg[x] > stg[b]
       \/ cyc[x] = cyc[b] /\ stg[x] = stg[b] /\ at[x] = "sync"

\* Mutant of AllArrived: no barrier at all.
NoBarrier(b) ==
  TRUE

\* Every block has arrived at the grid barrier that b waits at, or left it.
AllArrived(b) ==
  \A x \in Block :
    \/ cyc[x] > cyc[b]
    \/ cyc[x] = cyc[b] /\ stg[x] > stg[b]
    \/ cyc[x] = cyc[b] /\ stg[x] = stg[b] /\ at[x] = "sync"

MoreStages(b) ==
  stg[b] < NumStages

\* this_grid().sync(), and on to the next major stage or cycle.
Sync(b) ==
  /\ at[b] = "sync"
  /\ AllArrived(b)
  /\ part' = [part EXCEPT ![b] = 1]
  /\ IF MoreStages(b)
       THEN /\ stg' = [stg EXCEPT ![b] = @ + 1]
            /\ Goto(b, "next", {})
            /\ UNCHANGED cyc
       ELSE /\ stg' = [stg EXCEPT ![b] = 1]
            /\ cyc' = [cyc EXCEPT ![b] = @ + 1]
            /\ Goto(b, IF cyc[b] + 1 = NumCycles THEN "exit" ELSE "next", {})
  /\ UNCHANGED <<host, capacity, good, mem, smem>>

Finished ==
  /\ host = "refused" \/ \A b \in Block : at[b] = "exit"
  /\ UNCHANGED vars

BlockStep(b) ==
  \/ Start(b) \/ Enter(b)
  \/ Load(b) \/ LoadEnd(b)
  \/ \E m \in Memory : Phase(b, m) \/ Commit(b, m)
  \/ PhaseEnd(b) \/ CommitEnd(b)
  \/ Store(b) \/ StoreEnd(b)
  \/ Sync(b)

Next == Launch \/ (\E b \in Block : BlockStep(b)) \/ Finished

\* The device runs every resident block.
Spec ==
  /\ Init /\ [][Next]_vars
  /\ WF_vars(Launch)
  /\ \A b \in Block : WF_vars(BlockStep(b))

-----------------------------------------------------------------------------
Tasks == (Word \X {"old", "new"}) \cup Word \cup Memory

TypeOK ==
  /\ host \in {"check", "running", "refused"}
  /\ capacity \in Capacities
  /\ at \in [Block -> Places]
  /\ cyc \in [Block -> Row]
  /\ stg \in [Block -> 1 .. NumStages]
  /\ part \in [Block -> Nat \ {0}]
  /\ todo \in [Block -> SUBSET Tasks]
  /\ good \in [Block -> BOOLEAN]
  /\ mem \in [Row -> [Word -> Row \cup {Unwritten, Wrong}]]
  /\ smem \in [Memory -> Nat]

(***************************************************************************)
(* No block stores a value computed from a stale, missing or early one:    *)
(* not from a word another block is still writing, not from a memory       *)
(* already updated in this cycle (kernel_v1_impl.cuh:612-616, 646-658);    *)
(* the counters of the blocks stay in their ranges.                        *)
(***************************************************************************)
RowsExact ==
  /\ TypeOK
  /\ \A r \in Row : \A w \in Word : mem[r][w] \in {r, Unwritten}

(***************************************************************************)
(* A memory is updated once per cycle: whoever updates it in cycle c finds *)
(* it updated exactly c times.  For an SRL this is "the new value is only  *)
(* observable on the next cycle" (macros.rs:303-309).                      *)
(***************************************************************************)
UpdatedOncePerCycle ==
  [][\A b \in Block, m \in Memory : Phase(b, m) \/ Commit(b, m) => smem[m] = cyc[b]]_vars

(***************************************************************************)
(* A word of a row is stored once: no two partitions write the same word,  *)
(* and none is written by a block that has fallen behind or run ahead.     *)
(***************************************************************************)
StoredOnce ==
  [][\A r \in Row, w \in Word : mem'[r][w] # mem[r][w] => mem[r][w] = Unwritten]_vars

(***************************************************************************)
(* A grid that has been launched completes all cycles: no block waits at a *)
(* barrier for one that has no place on the device (kernel_v1.cu:28-75).   *)
(***************************************************************************)
Completes == (host = "running") ~> (\A b \in Block : at[b] = "exit")

\* A block has done all it does in cycle c.
Through(b, c) ==
  \/ cyc[b] > c
  \/ cyc[b] = c /\ stg[b] = NumStages /\ at[b] = "sync"

\* Every block is through with n cycles, and not every block with the next.
CompletedIs(n) ==
  /\ \A b \in Block : \A c \in 0 .. n - 1 : Through(b, c)
  /\ n < NumCycles => \E b \in Block : ~Through(b, n)

Completed == CHOOSE n \in Row : CompletedIs(n)

Abstract == INSTANCE SyncCircuit WITH cycle <- Completed, value <- mem[Completed]

(***************************************************************************)
(* The grid implements the synchronous circuit: each row is complete and   *)
(* right once all blocks are through with its cycle, and stays so.         *)
(***************************************************************************)
ImplementsCircuit == Abstract!Spec

=============================================================================
