----------------------------- MODULE ScriptWalk -----------------------------
(***************************************************************************)
(* The script of a block for one major stage: FlatteningPart::build_script *)
(* (flatten.rs) lays it out, and two readers walk it, each with its own    *)
(* address arithmetic: the CUDA kernel, which prefetches a section before  *)
(* it is through with the one in front, and the CPU oracle of flatten_test,*)
(* which goes straight on.  Nothing in the script says where a section     *)
(* begins: a reader that miscounts takes one kind of data for another.     *)
(*                                                                         *)
(* A section is its kind, its address and its length; its words are left   *)
(* out.                                                                    *)
(***************************************************************************)
EXTENDS Integers, Sequences, FiniteSets, SequencesExt

CONSTANTS
  Plan,    (* the partitions a block may have, by the reader it is for     *)
  MaxParts (* how many of them                                             *)

Readers == DOMAIN Plan

\* A partition: its boomerang stages, its macro phases (each is the number of
\* stages it comes after) and the rounds of its global read.
ASSUME PlanAssumption ==
  /\ Readers \subseteq {"kernel", "oracle"}
  /\ \A r \in Readers :
       /\ Plan[r] \subseteq [stages : Nat \ {0}, phases : Seq(Nat), rounds : Nat]
       /\ \A x \in Plan[r] :
            /\ \A i \in DOMAIN x.phases : x.phases[i] <= x.stages
            /\ \A i, j \in DOMAIN x.phases : i <= j => x.phases[i] <= x.phases[j]
  /\ MaxParts \in Nat

MetaWords == 256

RoundWords == 256 * 2

PhaseWords == 32 * 12   \* MACRO_MAX_LANES * MACRO_LANE_WORDS

StageWords == 256 * 4 * 5

\* Mutant of Padding: the script ends with its last block.
NoPadding == 0

Padding == 256 * 8

VARIABLES
  reader, \* who walks the script once it is laid out
  blk,    \* the partitions of the block
  tape,   \* the sections of its script
  walk,   \* "emit" and "lay", then the place in the reader's loop
  p,      \* the partition being emitted or read
  bs,     \* bs_i: boomerang stages behind it
  ph,     \* ph_cursor: macro phases behind it
  gr,     \* rounds of the global read behind it
  pi,     \* script_pi
  fetch,  \* where the data of the next wide section was prefetched
  seen    \* the sections the reader has used: kind and address

vars == <<reader, blk, tape, walk, p, bs, ph, gr, pi, fetch, seen>>

Places == {"emit", "lay", "header", "reads", "stage", "after", "sram", "clken", "end"}

-----------------------------------------------------------------------------
Init ==
  /\ reader \in Readers
  /\ blk \in BoundedSeq(Plan[reader], MaxParts)
  /\ tape = << >>
  /\ walk = "emit"
  /\ p = 1 /\ bs = 0 /\ ph = 0 /\ gr = 0
  /\ pi = 0
  /\ fetch = 0
  /\ seen = << >>

Size == IF tape = << >> THEN 0 ELSE Last(tape).at + Last(tape).len

Section(kind, len) == [kind |-> kind, at |-> Size, len |-> len]

Part == blk[p]

\* The macro phases not yet passed that come after exactly s stages.
Due(s) == Cardinality({i \in ph + 1 .. Len(Part.phases) :
                         \A j \in ph + 1 .. i : Part.phases[j] = s})

Emit(kind, len) ==
  /\ tape' = Append(tape, Section(kind, len))
  /\ UNCHANGED <<reader, blk, pi, fetch, seen>>

\* The header of a partition; that of a block without partitions has no stages.
EmitHeader ==
  /\ walk = "emit"
  /\ Emit("meta", MetaWords)
  /\ walk' = IF blk = << >> THEN "header" ELSE "lay"
  /\ UNCHANGED <<p, bs, ph, gr>>

EmitRound ==
  /\ walk = "lay"
  /\ gr < Part.rounds
  /\ Emit("read", RoundWords)
  /\ gr' = gr + 1
  /\ UNCHANGED <<walk, p, bs, ph>>

EmitPhase ==
  /\ walk = "lay"
  /\ gr = Part.rounds
  /\ Due(bs) > 0
  /\ Emit("phase", PhaseWords)
  /\ ph' = ph + 1
  /\ UNCHANGED <<walk, p, bs, gr>>

EmitStage ==
  /\ walk = "lay"
  /\ gr = Part.rounds
  /\ Due(bs) = 0 /\ bs < Part.stages
  /\ Emit("stage", StageWords)
  /\ bs' = bs + 1
  /\ UNCHANGED <<walk, p, ph, gr>>

\* On to the next partition (the last one has is_last_part set).
NextPartition(after) ==
  /\ bs' = 0 /\ ph' = 0 /\ gr' = 0
  /\ IF p = Len(blk)
       THEN walk' = after /\ p' = 1
       ELSE walk' = (IF walk = "lay" THEN "emit" ELSE "header") /\ p' = p + 1

\* The SRAM and the clock enable permutations, behind the phases that are left.
EmitTail ==
  /\ walk = "lay"
  /\ bs = Part.stages /\ ph = Len(Part.phases)
  /\ tape' = tape \o
       << Section("sram", StageWords),
          [kind |-> "clken", at |-> Size + StageWords, len |-> StageWords] >>
  /\ NextPartition("header")
  /\ UNCHANGED <<reader, blk, pi, fetch, seen>>

-----------------------------------------------------------------------------
Use(kind, at) == seen' = Append(seen, <<kind, at>>)

Keep == UNCHANGED <<reader, blk, tape>>

\* simulate_block_v1 of the kernel.  The header is that of partition p as long
\* as the reader has counted right, which is what is checked.
KernelHeader ==
  /\ walk = "header"
  /\ Use("meta", pi)
  /\ pi' = pi + MetaWords
  /\ IF blk = << >>
       THEN walk' = "end" /\ UNCHANGED fetch
       ELSE /\ walk' = "reads"
            /\ fetch' = pi' + RoundWords * Part.rounds + PhaseWords * Due(0)
  /\ Keep /\ UNCHANGED <<p, bs, ph, gr>>

KernelRound ==
  /\ walk = "reads"
  /\ gr < Part.rounds
  /\ Use("read", pi)
  /\ pi' = pi + RoundWords
  /\ gr' = gr + 1
  /\ Keep /\ UNCHANGED <<walk, p, bs, ph, fetch>>

\* All the phases in front of stage 0.  Their address is counted from
\* script_pi, which has gone past the rounds already.
KernelBefore ==
  /\ walk = "reads"
  /\ gr = Part.rounds
  /\ LET due == Due(0)
         ph_pi == pi + RoundWords * Part.rounds
     IN /\ seen' = seen \o [i \in 1 .. due |-> <<"phase", ph_pi + PhaseWords * (i - 1)>>]
        /\ ph' = ph + due
        /\ pi' = pi + PhaseWords * due
  /\ walk' = "stage"
  /\ Keep /\ UNCHANGED <<p, bs, gr, fetch>>

\* Mutant of NextData: the phases are not stepped over.
NextStage ==
  pi + StageWords

\* The section behind this stage and the phases due after it.
NextData ==
  pi + StageWords + PhaseWords * Due(bs + 1)

\* A boomerang stage.  What comes next is prefetched past the phases due after
\* this stage.
KernelStage ==
  /\ walk = "stage"
  /\ Use("stage", fetch)
  /\ pi' = NextData
  /\ fetch' = pi'
  /\ walk' = "after"
  /\ Keep /\ UNCHANGED <<p, bs, ph, gr>>

KernelAfter ==
  /\ walk = "after"
  /\ LET due == Due(bs + 1)
     IN /\ seen' = seen \o [i \in 1 .. due |-> <<"phase", pi - PhaseWords * (due - i + 1)>>]
        /\ ph' = ph + due
  /\ bs' = bs + 1
  /\ walk' = IF bs + 1 < Part.stages THEN "stage" ELSE "sram"
  /\ Keep /\ UNCHANGED <<p, gr, pi, fetch>>

\* Phases that are left over, then the SRAM and duplicate permutation.
KernelSram ==
  /\ walk = "sram"
  /\ LET left == Len(Part.phases) - ph
     IN /\ seen' = seen \o [i \in 1 .. left |-> <<"phase", pi + PhaseWords * (i - 1)>>]
                        \o << <<"sram", fetch>> >>
        /\ ph' = ph + left
        /\ pi' = pi + PhaseWords * left + StageWords
  /\ fetch' = pi'
  /\ walk' = "clken"
  /\ Keep /\ UNCHANGED <<p, bs, gr>>

KernelClken ==
  /\ walk = "clken"
  /\ Use("clken", fetch)
  /\ pi' = pi + StageWords
  /\ NextPartition("end")
  /\ Keep /\ UNCHANGED fetch

KernelNext ==
  \/ KernelHeader \/ KernelRound \/ KernelBefore \/ KernelStage
  \/ KernelAfter \/ KernelSram \/ KernelClken

-----------------------------------------------------------------------------
\* simulate_block_v1 of flatten_test: every section is read at script_pi.
Step(kind, words) ==
  /\ Use(kind, pi)
  /\ pi' = pi + words
  /\ Keep /\ UNCHANGED fetch

OracleHeader ==
  /\ walk = "header"
  /\ Step("meta", MetaWords)
  /\ walk' = IF blk = << >> THEN "end" ELSE "reads"
  /\ UNCHANGED <<p, bs, ph, gr>>

OracleRound ==
  /\ walk = "reads"
  /\ gr < Part.rounds
  /\ Step("read", RoundWords)
  /\ gr' = gr + 1
  /\ UNCHANGED <<walk, p, bs, ph>>

\* Mutant of PhaseIsDue: the phases left at the end are forgotten.
PhaseInLoop ==
  bs < Part.stages /\ Due(bs) > 0

\* In the loop over stages, or in the one over the phases left at its end.
PhaseIsDue ==
  IF bs < Part.stages THEN Due(bs) > 0 ELSE ph < Len(Part.phases)

OraclePhase ==
  /\ walk = "reads"
  /\ gr = Part.rounds
  /\ PhaseIsDue
  /\ Step("phase", PhaseWords)
  /\ ph' = ph + 1
  /\ UNCHANGED <<walk, p, bs, gr>>

OracleStage ==
  /\ walk = "reads"
  /\ gr = Part.rounds
  /\ bs < Part.stages /\ ~PhaseIsDue
  /\ Step("stage", StageWords)
  /\ bs' = bs + 1
  /\ UNCHANGED <<walk, p, ph, gr>>

OracleSram ==
  /\ walk = "reads"
  /\ gr = Part.rounds
  /\ bs = Part.stages /\ ~PhaseIsDue
  /\ Step("sram", StageWords)
  /\ walk' = "clken"
  /\ UNCHANGED <<p, bs, ph, gr>>

OracleClken ==
  /\ walk = "clken"
  /\ Step("clken", StageWords)
  /\ NextPartition("end")

OracleNext ==
  \/ OracleHeader \/ OracleRound \/ OraclePhase
  \/ OracleStage \/ OracleSram \/ OracleClken

Finished == walk = "end" /\ UNCHANGED vars

Next ==
  \/ EmitHeader \/ EmitRound \/ EmitPhase \/ EmitStage \/ EmitTail
  \/ reader = "kernel" /\ KernelNext
  \/ reader = "oracle" /\ OracleNext
  \/ Finished

Spec == Init /\ [][Next]_vars

-----------------------------------------------------------------------------
TypeOK ==
  /\ reader \in Readers
  /\ walk \in Places
  /\ p \in 1 .. Len(blk) \cup {1}
  /\ {bs, ph, gr, pi, fetch} \subseteq Nat

(***************************************************************************)
(* The reader uses the sections in the order in which they were laid out,  *)
(* each at the address where it begins and as the kind that it is; so the  *)
(* phase scheduled after n stages runs between stages n and n + 1          *)
(* (kernel_v1_impl.cuh:250-322, flatten.rs:851-959).                       *)
(***************************************************************************)
ReadsInOrder ==
  walk \notin {"emit", "lay"} =>
    /\ Len(seen) <= Len(tape)
    /\ \A n \in DOMAIN seen : seen[n] = <<tape[n].kind, tape[n].at>>

(***************************************************************************)
(* A reader that stops has used the whole script and stands at its end     *)
(* (the assertions kernel_v1_impl.cuh:620 and flatten_test.rs:478), and    *)
(* its cursors are in range before that.                                   *)
(***************************************************************************)
ConsumesAll == TypeOK /\ (walk = "end" => pi = Size /\ Len(seen) = Len(tape))

(***************************************************************************)
(* What the kernel prefetches lies in the script or in the padding behind  *)
(* the last block's, also when it is prefetched in vain: the words of a    *)
(* round that follows the last one, or a header without stages             *)
(* (kernel_v1_impl.cuh:231-233, 267-271, 277, 295; flatten.rs:1192).       *)
(***************************************************************************)
PrefetchInBounds ==
  reader = "kernel" =>
    /\ walk = "reads" \/ (walk = "end" /\ blk = << >>) => pi + RoundWords <= Size + Padding
    /\ walk \in {"reads", "stage", "after", "sram", "clken"} =>
         fetch + StageWords <= Size

=============================================================================
