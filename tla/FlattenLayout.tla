---------------------------- MODULE FlattenLayout ----------------------------
(***************************************************************************)
(* Where the flattener (flatten.rs) puts what a design remembers. Each     *)
(* partition gets words of the state vector: write-outs of its tree, then  *)
(* DSP results, copies of outputs wanted under a further enable, and SRAM  *)
(* read data. Each endpoint is given a position, with the enable under     *)
(* which the kernel commits it; maps lead later readers to the positions;  *)
(* and DSPs and SRLs get offsets in the buffer that follows the SRAMs.     *)
(*                                                                         *)
(* A literal is <<pin, inverted>>; pin 0 is the constant zero. The tree's  *)
(* write-outs are given (BuildOne shows that they hold what the endpoints  *)
(* need). One bit stands for the run of bits of a DSP, of an SRAM and of   *)
(* their inputs.                                                           *)
(***************************************************************************)
EXTENDS Integers, FiniteSets, Sequences, Functions, FiniteSetsExt

CONSTANTS
  Designs,    \* records [parts, srls], see below
  NumBlocks,
  WordBits,   \* 32 in the source
  InputWords, \* words that hold the primary inputs
  SramWords,  \* words of an SRAM: 1 << AIGPDK_SRAM_ADDR_WIDTH, 8192
  DescRange   \* offsets a lane descriptor has room for: 2^16

\* srls is how many SRLs the design has. A partition is [outs, stages, ends]: the pin
\* at each bit of its write-outs, its number of stages, and its endpoints, which are
\*   [kind: "po", iv]          a primary output
\*   [kind: "io", iv]          a pin handed to a later major stage
\*   [kind: "dff", d, en]      a flip-flop, its input and its enable
\*   [kind: "ram", rd, re, a]  an SRAM: read-data pin, read enable, one of its inputs
\*   [kind: "dsp", p, a]       a DSP: output pin and one of its inputs
Literals(p) == ({0} \cup Range(p.outs)) \X {0, 1}

\* The pins that are looked up are constant or among the write-outs; otherwise the code
\* panics, and BuildOne proves that it does not come to that (EndpointsWritten).
Endpoints(p) ==
  [kind : {"po", "io"}, iv : Literals(p)]
    \cup [kind : {"dff"}, d : Literals(p), en : Literals(p)]
    \cup [kind : {"ram"}, rd : Nat, re : Literals(p), a : Literals(p)]
    \cup [kind : {"dsp"}, p : Nat, a : Literals(p)]

ASSUME SizeAssumption ==
  /\ {NumBlocks, WordBits, SramWords, DescRange} \subseteq Nat \ {0}
  /\ InputWords \in Nat

ASSUME DesignAssumption ==
  \A d \in Designs :
    /\ d.srls \in Nat
    /\ Len(d.parts) \in Nat \ {0} /\ DOMAIN d.parts = 1 .. Len(d.parts)
    /\ \A k \in DOMAIN d.parts :
         /\ d.parts[k].outs \in Seq(Nat) /\ Len(d.parts[k].outs) % WordBits = 0
         /\ d.parts[k].stages \in Nat
         /\ d.parts[k].ends \in Seq(Endpoints(d.parts[k]))

VARIABLES
  pc,         \* "arrange", "place", "offsets", "done", "panic"
  design,
  start,      \* state_start of each partition
  i, e,       \* the partition being laid out, and how many of its endpoints are
  placed,     \* comb_outputs_activations: positions of the activations placed so far
  copies,     \* cnt_placed_duplicate_permute
  sram, dsp,  \* cur_sram_id, cur_dsp_id
  enables,    \* clken_permute and data_inv: [gate, inv] by partition and position
  lanes,      \* sram_duplicate_permute: what a gather lane fetches, by partition and bit
  inputMap,   \* endpoints to the positions their outputs are read from
  stagedMap,  \* the same for pins of later major stages
  outputMap,  \* literals to positions
  off         \* macro_state_off

vars == <<pc, design, start, i, e, placed, copies, sram, dsp, enables, lanes, inputMap,
          stagedMap, outputMap, off>>

One == <<0, 1>>

Put(f, key, value) == [k \in DOMAIN f \cup {key} |-> IF k = key THEN value ELSE f[k]]

-----------------------------------------------------------------------------
(* init_afters_writeouts: how many words a partition takes. *)

Of(p, kinds) == {k \in DOMAIN p.ends : p.ends[k].kind \in kinds}

Srams(p) == Cardinality(Of(p, {"ram"}))

Dsps(p) == Cardinality(Of(p, {"dsp"}))

NormalWords(p) == Len(p.outs) \div WordBits

\* Mutant: activations told apart by pin and enable only.
PolarityLost(end) ==
  IF end.kind = "dff" THEN [pin |-> end.d[1], inv |-> 0, en |-> end.en]
  ELSE [pin |-> end.iv[1], inv |-> 0, en |-> One]

\* A pin, whether it is inverted, and the enable it is committed under.
Activation(end) ==
  IF end.kind = "dff" THEN [pin |-> end.d[1], inv |-> end.d[2], en |-> end.en]
  ELSE [pin |-> end.iv[1], inv |-> end.iv[2], en |-> One]

Asked(p) == Of(p, {"po", "io", "dff"})

Activations(p) == {Activation(p.ends[k]) : k \in Asked(p)}

\* Every activation of a pin after its first is a copy.
Copies(p) == Cardinality(Activations(p)) - Cardinality({a.pin : a \in Activations(p)})

CopyWords(p) == (Copies(p) + WordBits - 1) \div WordBits

Words(p) == NormalWords(p) + 2 * Dsps(p) + CopyWords(p) + Srams(p)

-----------------------------------------------------------------------------
(* The arrangement of partitions on blocks, and of words by blocks. *)

Least(load) ==
  CHOOSE b \in DOMAIN load :
    \A c \in DOMAIN load \ {b} : load[b] < load[c] \/ (load[b] = load[c] /\ b < c)

\* One partition a block, then each where the least work is.
BlockFor(n, load) == IF n <= NumBlocks THEN n ELSE Least(load)

\* tot_nstages_blocks, after n partitions
Loads ==
  LET load[n \in 0 .. Len(design.parts)] ==
        IF n = 0 THEN [b \in 1 .. NumBlocks |-> 0]
        ELSE [load[n - 1] EXCEPT ![BlockFor(n, load[n - 1])] = @ + design.parts[n].stages + 3]
  IN load

Block == [n \in DOMAIN design.parts |-> BlockFor(n, Loads[n - 1])]

\* Block by block, and within a block in the order of the partitions.
Earlier(q, p) == Block[q] < Block[p] \/ (Block[q] = Block[p] /\ q < p)

WordsBefore(p) ==
  UNION {{q} \X (1 .. Words(design.parts[q])) : q \in {x \in DOMAIN design.parts : Earlier(x, p)}}

ZeroWord == InputWords

\* Mutant: the word kept at zero not passed over.
StatesStartEarly == ZeroWord

StatesStart == ZeroWord + 1

ZeroPos == ZeroWord * WordBits

EndAt(x) == design.parts[x[1]].ends[x[2]]

Ends(kind) ==
  {x \in UNION {{p} \X DOMAIN design.parts[p].ends : p \in DOMAIN design.parts} : EndAt(x).kind = kind}

TotalSrams == SramWords * Cardinality(Ends("ram"))

-----------------------------------------------------------------------------
(* Positions within the partition being laid out. *)

Part == design.parts[i]

End == Part.ends[e + 1]

Global(pos) == start[i] * WordBits + pos

\* after_writeout_pin2pos
Written(p, pin) == Max({k \in DOMAIN p.outs : p.outs[k] = pin}) - 1

\* Mutant of Query: a literal placed as a copy is fetched from its copy.
QueryPlaced(p, iv) ==
  LET acts == {a \in DOMAIN placed : a.pin = iv[1]}
  IN [pos |-> IF iv[1] = 0 THEN 0 ELSE IF acts = {} THEN Written(p, iv[1]) ELSE Max({placed[a] : a \in acts}),
      inv |-> iv[2], set0 |-> IF iv[1] = 0 THEN 1 ELSE 0]

\* query_permute_with_pin_iv: where a lane or an enable gets a literal from.
Query(p, iv) ==
  IF iv[1] = 0 THEN [pos |-> 0, inv |-> iv[2], set0 |-> 1]
  ELSE [pos |-> Written(p, iv[1]), inv |-> iv[2], set0 |-> 0]

\* Mutant: the lanes of the copies where the DSPs' are.
CopyLaneOverDsps == (4 * Srams(Part) + CopyWords(Part)) * WordBits - (copies + 1)

\* Mutant: DSP words counted as if they came after the copies.
DspWordLast == Words(Part) - Srams(Part) - 2 * Dsps(Part) + 2 * dsp

\* Copies are counted down from the ends of their words and of their lanes.
CopyPos == (Words(Part) - Srams(Part)) * WordBits - (copies + 1)

CopyLane == (4 * Srams(Part) + 4 * Dsps(Part) + CopyWords(Part)) * WordBits - (copies + 1)

SramWord == Words(Part) - Srams(Part) + sram

DspWord == Words(Part) - Srams(Part) - CopyWords(Part) - 2 * Dsps(Part) + 2 * dsp

IsFirst(p, act) ==
  \E k \in Asked(p) :
    /\ Activation(p.ends[k]) = act
    /\ \A j \in Asked(p) : j < k => Activation(p.ends[j]).pin # act.pin

\* get_or_place_output_with_activation: the first activation of a pin is its
\* write-out, others are copies.
Position(act) ==
  IF act \in DOMAIN placed THEN placed[act] ELSE IF IsFirst(Part, act) THEN Written(Part, act.pin) ELSE CopyPos

PlaceActivation(act) ==
  LET new  == act \notin DOMAIN placed
      copy == new /\ ~IsFirst(Part, act)
      pos  == Position(act)
  IN /\ placed' = Put(placed, act, pos)
     /\ copies' = copies + (IF copy THEN 1 ELSE 0)
     /\ enables' = IF new THEN Put(enables, <<i, pos>>, [gate |-> Query(Part, act.en), inv |-> act.inv])
                   ELSE enables
     /\ lanes' = IF copy THEN Put(lanes, <<i, CopyLane>>, Query(Part, <<act.pin, 0>>)) ELSE lanes

-----------------------------------------------------------------------------

Init ==
  /\ pc = "arrange"
  /\ design \in Designs
  /\ start = <<>> /\ i = 1 /\ e = 0
  /\ placed = <<>> /\ copies = 0 /\ sram = 0 /\ dsp = 0
  /\ enables = <<>> /\ lanes = <<>>
  /\ inputMap = <<>> /\ stagedMap = <<>> /\ outputMap = <<>> /\ off = <<>>

\* State words follow the inputs and one word that nobody writes.
ArrangeParts ==
  /\ pc = "arrange"
  /\ start' = [p \in DOMAIN design.parts |-> StatesStart + Cardinality(WordsBefore(p))]
  /\ pc' = "place"
  /\ UNCHANGED <<design, i, e, placed, copies, sram, dsp, enables, lanes, inputMap, stagedMap,
                 outputMap, off>>

Placing(kind) == pc = "place" /\ e < Len(Part.ends) /\ End.kind = kind /\ e' = e + 1

PlaceOutput ==
  /\ Placing("po") /\ End.iv[1] # 0
  /\ PlaceActivation(Activation(End))
  /\ outputMap' = Put(outputMap, End.iv, Global(Position(Activation(End))))
  /\ UNCHANGED <<pc, design, start, i, sram, dsp, inputMap, stagedMap, off>>

PlaceStagedPin ==
  /\ Placing("io") /\ End.iv[1] # 0
  /\ PlaceActivation(Activation(End))
  /\ stagedMap' = Put(stagedMap, End.iv, Global(Position(Activation(End))))
  /\ UNCHANGED <<pc, design, start, i, sram, dsp, inputMap, outputMap, off>>

PlaceFlop ==
  /\ Placing("dff") /\ End.d[1] # 0
  /\ PlaceActivation(Activation(End))
  /\ outputMap' = Put(outputMap, End.d, Global(Position(Activation(End))))
  /\ inputMap' = Put(inputMap, <<i, e + 1>>, Global(Position(Activation(End))))
  /\ UNCHANGED <<pc, design, start, i, sram, dsp, stagedMap, off>>

\* A flip-flop that is always zero is read from the word nobody writes.
PlaceZeroFlop ==
  /\ Placing("dff") /\ End.d = <<0, 0>>
  /\ inputMap' = Put(inputMap, <<i, e + 1>>, ZeroPos)
  /\ UNCHANGED <<pc, design, start, i, placed, copies, sram, dsp, enables, lanes, stagedMap,
                 outputMap, off>>

\* A flip-flop that is always one has no position; constant outputs none either.
RefuseConstant ==
  /\ pc = "place" /\ e < Len(Part.ends)
  /\ \/ End.kind = "dff" /\ End.d = One
     \/ End.kind \in {"po", "io"} /\ End.iv[1] = 0
  /\ pc' = "panic"
  /\ UNCHANGED <<design, start, i, e, placed, copies, sram, dsp, enables, lanes, inputMap,
                 stagedMap, outputMap, off>>

PlaceRam ==
  /\ Placing("ram")
  /\ sram' = sram + 1
  /\ inputMap' = Put(inputMap, <<i, e + 1>>, Global(SramWord * WordBits))
  /\ outputMap' = Put(outputMap, <<End.rd, 0>>, Global(SramWord * WordBits))
  /\ enables' = Put(enables, <<i, SramWord * WordBits>>, [gate |-> Query(Part, End.re), inv |-> 0])
  /\ lanes' = Put(lanes, <<i, 4 * sram * WordBits>>, Query(Part, End.a))
  /\ UNCHANGED <<pc, design, start, i, placed, copies, dsp, stagedMap, off>>

\* A DSP is not entered in the output map: its output pin is what logic reads now, its
\* position what it will read next.
PlaceDsp ==
  /\ Placing("dsp")
  /\ dsp' = dsp + 1
  /\ inputMap' = Put(inputMap, <<i, e + 1>>, Global(DspWord * WordBits))
  /\ enables' = Put(enables, <<i, DspWord * WordBits>>, [gate |-> Query(Part, One), inv |-> 0])
  /\ lanes' = Put(lanes, <<i, (4 * Srams(Part) + 4 * dsp) * WordBits>>, Query(Part, End.a))
  /\ UNCHANGED <<pc, design, start, i, placed, copies, sram, stagedMap, outputMap, off>>

CountsAgree ==
  /\ sram = Srams(Part)
  /\ (copies + WordBits - 1) \div WordBits = CopyWords(Part)

EndPart ==
  /\ pc = "place" /\ e = Len(Part.ends)
  /\ IF ~CountsAgree THEN pc' = "panic" /\ UNCHANGED <<i, e, placed, copies, sram, dsp>>
     ELSE /\ placed' = <<>> /\ copies' = 0 /\ sram' = 0 /\ dsp' = 0
          /\ IF i < Len(design.parts) THEN i' = i + 1 /\ e' = 0 /\ UNCHANGED pc
             ELSE pc' = "offsets" /\ UNCHANGED <<i, e>>
  /\ UNCHANGED <<design, start, enables, lanes, inputMap, stagedMap, outputMap, off>>

\* What has state to be kept with the SRAMs: the DSPs, two words each, and the SRLs.
Stateful == Ends("dsp") \cup {<<0, n>> : n \in 1 .. design.srls}

StateWords(x) == IF x[1] = 0 THEN 1 ELSE 2

\* The order in which they get offsets: DSPs in block order, then SRLs.
AllocatedBefore(y, x) ==
  \/ y[1] # 0 /\ x[1] = 0
  \/ y[1] # 0 /\ x[1] # 0 /\ Earlier(y[1], x[1])
  \/ y[1] = x[1] /\ y[2] < x[2]

StateBefore(x) == UNION {{y} \X (1 .. StateWords(y)) : y \in {z \in Stateful : AllocatedBefore(z, x)}}

\* Mutant: state kept where the SRAMs are.
OriginAtSrams == 0

Origin == TotalSrams

AllocState ==
  /\ pc = "offsets"
  /\ off' = [x \in Stateful |-> Origin + Cardinality(StateBefore(x))]
  /\ pc' = "done"
  /\ UNCHANGED <<design, start, i, e, placed, copies, sram, dsp, enables, lanes, inputMap,
                 stagedMap, outputMap>>

Next ==
  \/ ArrangeParts
  \/ PlaceOutput \/ PlaceStagedPin \/ PlaceFlop \/ PlaceZeroFlop \/ RefuseConstant
  \/ PlaceRam \/ PlaceDsp
  \/ EndPart \/ AllocState

Spec == Init /\ [][Next]_vars

-----------------------------------------------------------------------------
(* What the kernel makes of the layout at the end of a partition: what it   *)
(* puts at a position, under which enable, and where it keeps state.        *)

Literal(p, q) ==
  <<"pin", IF q.set0 = 1 THEN 0 ELSE design.parts[p].outs[q.pos + 1], q.inv>>

\* What a gather lane delivers; a lane nobody filled delivers zero.
Gathered(p, bit) == IF <<p, bit>> \in DOMAIN lanes THEN Literal(p, lanes[<<p, bit>>]) ELSE <<"pin", 0, 0>>

SramAt(p) == Words(design.parts[p]) - Srams(design.parts[p])

CopyAt(p) == SramAt(p) - CopyWords(design.parts[p])

DspAt(p) == CopyAt(p) - 2 * Dsps(design.parts[p])

LaneOfCopy(p, word) == 4 * Srams(design.parts[p]) + 4 * Dsps(design.parts[p]) + word - CopyAt(p)

\* An SRAM's read data is a word, a DSP's result two: bits are numbered through them.
Computed(p, pos) ==
  LET word == pos \div WordBits
  IN IF word >= SramAt(p) THEN <<"ram", pos - SramAt(p) * WordBits, 0>>
     ELSE IF word >= CopyAt(p) THEN Gathered(p, LaneOfCopy(p, word) * WordBits + (pos % WordBits))
     ELSE IF word >= DspAt(p) THEN <<"dsp", pos - DspAt(p) * WordBits, 0>>
     ELSE <<"pin", design.parts[p].outs[pos + 1], 0>>

\* What partition p commits at a position of the state vector, and when.
Commits(p, global) ==
  LET pos == global - start[p] * WordBits
      en  == enables[<<p, pos>>]
      c   == Computed(p, pos)
  IN IF <<p, pos>> \notin DOMAIN enables THEN [value |-> <<"none", 0, 0>>, gate |-> <<"pin", 0, 0>>]
     ELSE [value |-> <<c[1], c[2], (c[3] + en.inv) % 2>>, gate |-> Literal(p, en.gate)]

AsLiteral(iv) == <<"pin", iv[1], iv[2]>>

\* Some partition (there is but one, NoWordShared) commits a literal there in every cycle.
HoldsLogic(global, iv) ==
  \E p \in DOMAIN design.parts : Commits(p, global) = [value |-> AsLiteral(iv), gate |-> AsLiteral(One)]

DspAddress(p, n) ==
  LET first == CHOOSE k \in DOMAIN design.parts[p].ends :
                 /\ design.parts[p].ends[k].kind = "dsp"
                 /\ \A j \in 1 .. k - 1 : design.parts[p].ends[j].kind # "dsp"
  IN off[<<p, first>>] + 2 * n

SrlAddress(n) == off[<<0, n>>] % DescRange

-----------------------------------------------------------------------------
(* Properties. *)

\* How many endpoints of that kind come before it in its partition.
IndexOf(x) == Cardinality({y \in Ends(EndAt(x).kind) : y[1] = x[1] /\ y[2] < x[2]})

\* Everything placed so far is inside the words that were reserved for it
\* (init_afters_writeouts against make_inputs_outputs, flatten.rs:281-602): counters do
\* not pass what was counted, no position is below zero or past the partition's words,
\* and no copy's lane lies among those of SRAMs and DSPs.
TypeOK ==
  /\ pc \in {"arrange", "place", "offsets", "done", "panic"}
  /\ copies <= Copies(Part) /\ sram <= Srams(Part) /\ dsp <= Dsps(Part)
  /\ \A x \in DOMAIN enables : x[2] \in 0 .. Words(design.parts[x[1]]) * WordBits - 1
  /\ \A x \in DOMAIN lanes :
       x[2] \in 0 .. LaneOfCopy(x[1], SramAt(x[1])) * WordBits - 1

\* No word of the state vector is committed by two partitions, and none commits an input
\* or the word that flip-flops of constant zero are read from (flatten.rs:1029-1034,
\* 1095-1105), whichever way the blocks were filled; positions lie within the words.
NoWordShared ==
  /\ TypeOK
  /\ (pc = "done") =>
    LET wordsOf(p) == start[p] .. start[p] + Words(design.parts[p]) - 1
    IN \A p \in DOMAIN design.parts :
         /\ \A w \in wordsOf(p) : w > ZeroWord
         /\ \A q \in DOMAIN design.parts \ {p} : wordsOf(p) \cap wordsOf(q) = {}

\* A flip-flop's output, or a pin handed to a later major stage, is read from a position
\* at which the kernel commits exactly its input, in its polarity, under its own enable:
\* positions shared by several activations, copies and their gather lanes included
\* (flatten.rs:391-433, 495-511, 565-595 against kernel_v1_impl.cuh:476-616).
FlopsCommitted ==
  (pc = "done") =>
    /\ \A x \in Ends("dff") :
         EndAt(x).d[1] # 0 =>
           Commits(x[1], inputMap[x]) = [value |-> AsLiteral(EndAt(x).d), gate |-> AsLiteral(EndAt(x).en)]
    /\ \A x \in Ends("io") : HoldsLogic(stagedMap[EndAt(x).iv], EndAt(x).iv)

\* An SRAM's read data and a DSP's result are read from the words into which the kernel
\* puts those of that same SRAM or DSP, and the kernel gathers its inputs from the
\* lanes they were assigned (flatten.rs:446-483, 512-563).
MemoriesCommitted ==
  (pc = "done") =>
    /\ \A x \in Ends("ram") :
         /\ Commits(x[1], inputMap[x]) = [value |-> <<"ram", IndexOf(x) * WordBits, 0>>, gate |-> AsLiteral(EndAt(x).re)]
         /\ Gathered(x[1], 4 * IndexOf(x) * WordBits) = AsLiteral(EndAt(x).a)
    /\ \A x \in Ends("dsp") :
         /\ Commits(x[1], inputMap[x]) = [value |-> <<"dsp", 2 * IndexOf(x) * WordBits, 0>>, gate |-> AsLiteral(One)]
         /\ Gathered(x[1], (4 * Srams(design.parts[x[1]]) + 4 * IndexOf(x)) * WordBits) = AsLiteral(EndAt(x).a)

\* What a lane or an enable gathers, for SRAMs, DSPs, copies and commits, lies in the
\* words of the tree. The leaders of SRAMs, DSPs and copies overwrite only words after
\* them, so the gathers of other warps need no barrier before that
\* (kernel_v1_impl.cuh:443-500, where one is commented out, 541-600; flatten.rs:345-371).
GatherApart ==
  \A x \in DOMAIN lanes \cup DOMAIN enables :
    LET fetched == (IF x \in DOMAIN lanes THEN {lanes[x]} ELSE {})
                     \cup (IF x \in DOMAIN enables THEN {enables[x].gate} ELSE {})
    IN \A q \in fetched : q.set0 = 1 \/ q.pos \div WordBits < DspAt(x[1])

\* Literals that a gated flip-flop or an SRAM also registers in the output map.
Latched ==
  {EndAt(x).d : x \in {y \in Ends("dff") : EndAt(y).en # One}} \cup {<<EndAt(x).rd, 0>> : x \in Ends("ram")}

ShowsLogic(x) == HoldsLogic(outputMap[EndAt(x).iv], EndAt(x).iv)

\* A primary output is read from a position to which the kernel commits its literal in
\* every cycle, unless a memory registers the same literal (flatten.rs:495-502).
OutputsCommitted == (pc = "done") => \A x \in Ends("po") : EndAt(x).iv \in Latched \/ ShowsLogic(x)

\* What the output map is for (flatten.rs:106-108, 531-537): a primary output shows what
\* this cycle's logic computes, not what a memory has committed.
OutputsShowLogic == (pc = "done") => \A x \in Ends("po") : ShowsLogic(x)

\* The words that the kernel updates for the DSPs and SRLs are apart from each other and
\* from the SRAMs they follow in the buffer (flatten.rs:637-642, 705-714, 1116-1153;
\* kernel_v1_impl.cuh:104-110, 185-195, 571-594).
StateApart ==
  (pc = "done") =>
    LET dspWords(x) == {DspAddress(x[1], IndexOf(x)), DspAddress(x[1], IndexOf(x)) + 1}
        srlWords == {SrlAddress(n) : n \in 1 .. design.srls}
    IN /\ \A x \in Ends("dsp") :
            /\ \A w \in dspWords(x) : w >= TotalSrams /\ w \notin srlWords
            /\ \A y \in Ends("dsp") \ {x} : dspWords(x) \cap dspWords(y) = {}
       /\ \A w \in srlWords : w >= TotalSrams
       /\ Cardinality(srlWords) = design.srls

\* flatten.rs:1030-1032: a flip-flop whose input is constant zero has a home in the word
\* nobody writes; so a design is refused only for a constant that has none.
ZeroFlopsPlaced ==
  (pc = "panic") =>
    \/ \E x \in Ends("dff") : EndAt(x).d = One
    \/ \E x \in Ends("po") \cup Ends("io") : EndAt(x).iv[1] = 0

=============================================================================
