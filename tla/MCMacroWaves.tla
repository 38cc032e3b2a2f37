---------------------------- MODULE MCMacroWaves ----------------------------
(***************************************************************************)
(* MacroWaves, two lanes per phase, on netlists that extend a base by up   *)
(* to MaxWires further connections.  MCMacroWaves.cfg: three CARRY4s in    *)
(* one chain, which is split, or on one CO[3], in every order of their     *)
(* indices; and an SRL cascade beside a CARRY4 and its consumer.           *)
(* MCLateInput.cfg, MCEarlyOutput.cfg and MCShiftRing.cfg: one netlist     *)
(* each, on which the code departs from what its comments say.             *)
(* Inputs that are not connected are ordinary logic.                       *)
(***************************************************************************)
EXTENDS MacroWaves, FiniteSetsExt, TLC

CONSTANTS
  Bases,     (* [kind, wire]: functions from macros, and from <<macro, slot>> *)
             (* to pins; macros without a kind are not in the netlist        *)
  MaxWires

g == 10

MCGate == {g}

Three == 1 .. 3

Four == 1 .. 4

PortsOf(kind) == UNION {{<<m, o>> : o \in Ports[kind[m]]} : m \in DOMAIN kind}

SlotsOf(kind) == UNION {{<<m, s>> : s \in Slots[kind[m]]} : m \in DOMAIN kind}

\* The base with more connections.
Wirings(b) ==
  {b.wire @@ w : w \in UNION {[D -> PortsOf(b.kind) \cup {<<g, "y">>}] :
     D \in UNION {kSubset(n, SlotsOf(b.kind) \ DOMAIN b.wire) : n \in 0 .. MaxWires}}}

\* D is driven directly, and no macro depends on itself, except that an SRL may
\* shift its own Q31 back in.
Sound(w, fanin) ==
  LET driven == {x \in DOMAIN w : ~(x[2] = "d" /\ w[x] = <<x[1], "q31">>)}
      edges  == {<<x[1], w[x][1]>> : x \in driven} \cup {<<g, pin[1]>> : pin \in fanin}
      later[k \in 0 .. Cardinality(Macro) + 1] ==
        IF k = 0 THEN Macro \cup {g}
        ELSE LET s == later[k - 1] IN {m \in s : \E e \in edges : e[1] = m /\ e[2] \in s}
  IN /\ later[Cardinality(Macro) + 1] = {}
     /\ \A x \in DOMAIN w : x[2] = "d" => w[x][1] # g

\* A macro without a kind is a CARRY4 that nothing needs.
NetOf(kind, w, fanin) ==
  LET all == kind @@ [m \in Macro |-> "carry4"] IN
  [kind |-> all,
   wire |-> [m \in Macro |-> [s \in Slots[all[m]] |->
               IF <<m, s>> \in DOMAIN w THEN w[<<m, s>>] ELSE NoPin]],
   gate |-> [x \in {g} |-> fanin],
   targets |-> PortsOf(kind)]

\* A gate that computes from one macro output, where the gate is used.
Fanins(kind, w) ==
  IF \E x \in DOMAIN w : w[x][1] = g
    THEN {{<<1, o>>} : o \in Ports[kind[1]]}
    ELSE {{}}

MCNets ==
  UNION {UNION {{NetOf(b.kind, w, fanin) : fanin \in {f \in Fanins(b.kind, w) : Sound(w, f)}} :
                  w \in Wirings(b)} : b \in Bases}

AllCarry4 == [m \in Three |-> "carry4"]

ChainBases ==
  {[kind |-> AllCarry4,
    wire |-> <<q[2], "ci">> :> <<q[1], "co">> @@ <<q[3], "ci">> :> <<q[i], "co">>] :
     i \in 1 .. 2,
     q \in {q \in [Three -> Three] : \A i, j \in Three : q[i] = q[j] => i = j}}

\* SRLs a and b, CARRY4 c reading a's Q, CARRY4 z reading c's sum or chained to it.
Cascade(a, b, c, z, slot, port) ==
  [kind |-> (a :> "srl" @@ b :> "srl" @@ c :> "carry4" @@ z :> "carry4"),
   wire |-> <<c, "lo">> :> <<a, "q">> @@ <<z, slot>> :> <<c, port>>]

CascadeBases ==
  {Cascade(1, 2, 3, 4, "ci", "co"), Cascade(4, 3, 2, 1, "ci", "co"), Cascade(4, 3, 2, 1, "hi", "o")}

AllBases == ChainBases \cup CascadeBases

\* A chain of two whose second link also reads a CARRY4 of its own head's depth.
LateInput ==
  {[kind |-> AllCarry4,
    wire |-> <<2, "ci">> :> <<1, "co">> @@ <<2, "lo">> :> <<3, "co">>]}

\* A CARRY4 whose O[0] is ready before its CO[3]: 3 waits for the low sum bit of
\* 1 behind a gate, and 1 for 2 at its high bits.
EarlyOutput ==
  {[kind |-> AllCarry4,
    wire |-> <<1, "hi">> :> <<2, "co">> @@ <<3, "lo">> :> <<g, "y">>]}

EarlyNets == {NetOf(b.kind, b.wire, {<<1, "o">>}) : b \in EarlyOutput}

\* Two SRLs, each shifting in the other's Q31, and a CARRY4 that reads one.
ShiftRing ==
  {[kind |-> (1 :> "srl" @@ 2 :> "srl" @@ 3 :> "carry4"),
    wire |-> <<1, "d">> :> <<2, "q31">> @@ <<2, "d">> :> <<1, "q31">>
               @@ <<3, "lo">> :> <<1, "q">>]}

RingNets == {NetOf(b.kind, b.wire, {}) : b \in ShiftRing}
=============================================================================
