----------------------------- MODULE CarryScan -----------------------------
(***************************************************************************)
(* The carry chains of one macro phase, evaluated twice: by the CPU oracle *)
(* (run_macro_phase of bin/flatten_test.rs), which walks the lanes in      *)
(* order, and by the kernel (gem_macro_phase of kernel_v1_impl.cuh), which *)
(* reduces every CARRY4 to a generate and a propagate bit and runs a       *)
(* segmented Kogge-Stone scan over the lanes of a warp.  A scan step is a  *)
(* __shfl_up_sync, so all lanes take it together.                          *)
(*                                                                         *)
(* The module has no recursion: the ripple order is the oracle's own       *)
(* behaviour, and the scan is compared with what the oracle left behind.   *)
(***************************************************************************)
EXTENDS Integers

CONSTANTS
  Lanes,      (* 32 in the source: MACRO_MAX_LANES                      *)
  LaneInputs  (* what a lane may have gathered: a set of LaneInput      *)

Lane == 0 .. Lanes - 1

Bit == 0..3      (* the four positions of a CARRY4 *)

\* A lane's decoded inputs.  carry4 is FALSE for an invalid lane and for an
\* SRL lane; start is the chain-start flag of the descriptor.
LaneInput == [carry4 : BOOLEAN, start : BOOLEAN, ci : BOOLEAN, cyinit : BOOLEAN,
              S : [Bit -> BOOLEAN], DI : [Bit -> BOOLEAN]]

ASSUME LanesAssumption == Lanes \in Nat \ {0}

ASSUME InputAssumption == LaneInputs \subseteq LaneInput

VARIABLES
  pc,       \* "walk" (oracle), then "reduce", "scan", "evaluate", "done"
  inp,      \* the inputs both read
  cursor,   \* the oracle's lane
  prev_co3, \* the oracle's carry from the lane before
  refO,     \* the oracle's O and CO outputs
  refCO,
  dist,     \* d in the source, the scan distance
  gen,      \* kernel (g): carry out of the lanes scanned so far
  prop,     \* kernel (p): does a carry entering them pass through?
  outO,     \* the kernel's O and CO outputs
  outCO

scanVars == <<pc, inp, cursor, prev_co3, refO, refCO, dist, gen, prop, outO, outCO>>

-----------------------------------------------------------------------------
(* One CARRY4. *)

Mux(s, c, di) == IF s THEN c ELSE di

\* The carries out of the four bits of a CARRY4 with carry-in c.
Carry0(x, c) == Mux(x.S[0], c, x.DI[0])
Carry1(x, c) == Mux(x.S[1], Carry0(x, c), x.DI[1])
Carry2(x, c) == Mux(x.S[2], Carry1(x, c), x.DI[2])
Carry3(x, c) == Mux(x.S[3], Carry2(x, c), x.DI[3])

\* The carry into bit b, for b up to 4: the carry out of the whole CARRY4.
CarryInto(x, c, b) ==
  IF b = 0 THEN c
  ELSE IF b = 1 THEN Carry0(x, c)
  ELSE IF b = 2 THEN Carry1(x, c)
  ELSE IF b = 3 THEN Carry2(x, c)
  ELSE Carry3(x, c)

COBits(x, c) == [b \in Bit |-> CarryInto(x, c, b + 1)]

OBits(x, c) == [b \in Bit |-> x.S[b] # CarryInto(x, c, b)]

NoBits == [b \in Bit |-> FALSE]

\* The lane reduced to two bits: does it make a carry without one coming in,
\* and does it pass one through?
Generate(x) == Carry3(x, FALSE)

\* Mutant of Propagate: the top bit alone decides.
PropagateTop(x) == x.S[3]

Propagate(x) == \A b \in Bit : x.S[b]

\* The carry a lane brings itself: a chain start has its own CI.
Seed(x) == (x.start /\ x.ci) \/ x.cyinit

-----------------------------------------------------------------------------
ScanInit ==
  /\ pc = "walk"
  /\ inp \in [Lane -> LaneInputs]
  /\ cursor = 0
  /\ prev_co3 = FALSE
  /\ refO = [l \in Lane |-> NoBits] /\ refCO = [l \in Lane |-> NoBits]
  /\ dist = 1
  /\ gen = [l \in Lane |-> FALSE] /\ prop = [l \in Lane |-> FALSE]
  /\ outO = [l \in Lane |-> NoBits] /\ outCO = [l \in Lane |-> NoBits]

(***************************************************************************)
(* The oracle: one lane after the other.                                   *)
(***************************************************************************)

\* A lane that is no CARRY4 breaks the running chain.
WalkOther ==
  /\ pc = "walk"
  /\ cursor < Lanes
  /\ ~inp[cursor].carry4
  /\ prev_co3' = FALSE
  /\ cursor' = cursor + 1
  /\ UNCHANGED <<pc, inp, refO, refCO, dist, gen, prop, outO, outCO>>

WalkCarry4 ==
  /\ pc = "walk"
  /\ cursor < Lanes
  /\ inp[cursor].carry4
  /\ LET x  == inp[cursor]
         ci == IF x.start THEN x.ci ELSE prev_co3
         c  == ci \/ x.cyinit
     IN /\ refO' = [refO EXCEPT ![cursor] = OBits(x, c)]
        /\ refCO' = [refCO EXCEPT ![cursor] = COBits(x, c)]
        /\ prev_co3' = Carry3(x, c)
  /\ cursor' = cursor + 1
  /\ UNCHANGED <<pc, inp, dist, gen, prop, outO, outCO>>

WalkEnd ==
  /\ pc = "walk"
  /\ cursor = Lanes
  /\ pc' = "reduce"
  /\ UNCHANGED <<inp, cursor, prev_co3, refO, refCO, dist, gen, prop, outO, outCO>>

(***************************************************************************)
(* The kernel: every lane at once.                                         *)
(***************************************************************************)

\* gen' = G | (P & seed); a chain start, and a lane that is no CARRY4, lets no
\* carry through from the lanes below it.
Reduce ==
  /\ pc = "reduce"
  /\ gen' = [l \in Lane |-> /\ inp[l].carry4
                            /\ Generate(inp[l]) \/ (Propagate(inp[l]) /\ Seed(inp[l]))]
  /\ prop' = [l \in Lane |-> inp[l].carry4 /\ ~inp[l].start /\ Propagate(inp[l])]
  /\ pc' = "scan"
  /\ UNCHANGED <<inp, cursor, prev_co3, refO, refCO, dist, outO, outCO>>

\* Mutant of ScanStep: the distance is halved.
ScanStepHalving ==
  /\ pc = "scan"
  /\ dist < Lanes
  /\ gen' = [l \in Lane |-> IF l >= dist THEN gen[l] \/ (prop[l] /\ gen[l - dist]) ELSE gen[l]]
  /\ prop' = [l \in Lane |-> IF l >= dist THEN prop[l] /\ prop[l - dist] ELSE prop[l]]
  /\ dist' = dist \div 2
  /\ UNCHANGED <<pc, inp, cursor, prev_co3, refO, refCO, outO, outCO>>

\* One shuffle: lane l combines with lane l - dist; the lowest dist lanes keep theirs.
ScanStep ==
  /\ pc = "scan"
  /\ dist < Lanes
  /\ gen' = [l \in Lane |-> IF l >= dist THEN gen[l] \/ (prop[l] /\ gen[l - dist]) ELSE gen[l]]
  /\ prop' = [l \in Lane |-> IF l >= dist THEN prop[l] /\ prop[l - dist] ELSE prop[l]]
  /\ dist' = 2 * dist
  /\ UNCHANGED <<pc, inp, cursor, prev_co3, refO, refCO, outO, outCO>>

ScanEnd ==
  /\ pc = "scan"
  /\ dist >= Lanes
  /\ pc' = "evaluate"
  /\ UNCHANGED <<inp, cursor, prev_co3, refO, refCO, dist, gen, prop, outO, outCO>>

\* Mutant of CIn: a chain start takes the carry of the chain before it.
LeakedCIn(l) == Seed(inp[l]) \/ (l > 0 /\ gen[l - 1])

\* The carry into lane l: its seed or, for a link, the lane before's carry out.
CIn(l) == Seed(inp[l]) \/ (~inp[l].start /\ l > 0 /\ gen[l - 1])

Evaluate ==
  /\ pc = "evaluate"
  /\ outO' = [l \in Lane |-> IF inp[l].carry4 THEN OBits(inp[l], CIn(l)) ELSE NoBits]
  /\ outCO' = [l \in Lane |-> IF inp[l].carry4 THEN COBits(inp[l], CIn(l)) ELSE NoBits]
  /\ pc' = "done"
  /\ UNCHANGED <<inp, cursor, prev_co3, refO, refCO, dist, gen, prop>>

ScanFinished == pc = "done" /\ UNCHANGED scanVars

ScanNext ==
  \/ WalkOther \/ WalkCarry4 \/ WalkEnd
  \/ Reduce \/ ScanStep \/ ScanEnd \/ Evaluate
  \/ ScanFinished

ScanSpec == ScanInit /\ [][ScanNext]_scanVars /\ WF_scanVars(ScanNext)

-----------------------------------------------------------------------------
LaneBits == [Lane -> [Bit -> BOOLEAN]]

ScanTypeOK ==
  /\ pc \in {"walk", "reduce", "scan", "evaluate", "done"}
  /\ inp \in [Lane -> LaneInput]
  /\ cursor \in 0..Lanes
  /\ prev_co3 \in BOOLEAN
  /\ refO \in LaneBits /\ refCO \in LaneBits
  /\ dist \in Nat \ {0}
  /\ gen \in [Lane -> BOOLEAN] /\ prop \in [Lane -> BOOLEAN]
  /\ outO \in LaneBits /\ outCO \in LaneBits

(***************************************************************************)
(* The kernel's sums and carries are the oracle's, lane by lane and bit by *)
(* bit (kernel_v1_impl.cuh:26-31, "Both must agree bit for bit").          *)
(***************************************************************************)
ScanAgrees ==
  pc = "done" => outO = refO /\ outCO = refCO

(***************************************************************************)
(* While the scan runs, lane l's gen and prop say exactly how the true     *)
(* carry out of lane l depends on that of the lane dist below it; a lane   *)
(* with none there already holds its true carry (kernel_v1_impl.cuh:155-   *)
(* 162).  In particular no carry leaks across a chain start.               *)
(***************************************************************************)
ScanInvariant ==
  pc = "scan" =>
    \A l \in Lane :
      refCO[l][3] = (gen[l] \/ (l >= dist /\ prop[l] /\ refCO[l - dist][3]))

=============================================================================
