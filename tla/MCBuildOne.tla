----------------------------- MODULE MCBuildOne -----------------------------
(***************************************************************************)
(* BuildOne on every design of a few pins and a given shape: how many      *)
(* leaves (ports or flip-flops), pins that are there from the start,       *)
(* macros and gates it has, these in every order, how many endpoint inputs *)
(* at most, and how many macro inputs that feed committed state.           *)
(* MCBuildOne.cfg takes four shapes: many gates and no macro, one macro    *)
(* with its phase between stages, two macros in one or two waves, and the  *)
(* same with two endpoint inputs, where waves can be out of order.         *)
(***************************************************************************)
EXTENDS BuildOne, TLC

CONSTANTS NumPins, Shapes

Shape(l, e, m, g, t, s) ==
  [leaves |-> l, early |-> e, macros |-> m, gates |-> g, targets |-> t, state |-> s]

AllShapes ==
  {Shape(2, 0, 0, 4, 2, 0), Shape(1, 1, 1, 2, 2, 1),
   Shape(1, 1, 2, 1, 1, 1), Shape(0, 1, 2, 1, 2, 1)}

OneGateOnHold == {Shape(2, 0, 1, 1, 1, 0)}

MacroFeedsMacro == {Shape(1, 0, 2, 1, 1, 0)}

MacroFeedsState == {Shape(1, 0, 2, 0, 1, 1)}

MCPins == 1 .. NumPins

Base(sh) == sh.leaves + sh.early

Inner(sh) == Base(sh) + 1 .. Base(sh) + sh.macros + sh.gates

OneOrTwo(S) == {{a, b} : a \in S, b \in S}

\* What feeds a pin: two pins a gate, one or two a macro, of which some may
\* feed its state instead of its output.
Feeds ==
  [p \in MCPins |->
     [macro |-> {<<s \ d, d>> : s \in OneOrTwo(1 .. p - 1), d \in {{}} \cup OneOrTwo(1 .. p - 1)},
      gate  |-> {<<s, {}>> : s \in kSubset(2, 1 .. p - 1)}]]

\* Sequences of fan-ins and of state inputs, pin by pin; pins past the last of
\* the shape are leaves that nothing reads.
Wirings(sh, macros) ==
  LET inner == Inner(sh)
      upTo[p \in 0 .. NumPins] ==
        IF p = 0 THEN {<<<<>>, <<>>, 0>>}
        ELSE LET feeds == IF p \notin inner THEN {<<{}, {}>>}
                          ELSE IF p \in macros THEN Feeds[p].macro ELSE Feeds[p].gate
             IN {<<Append(w[1], s[1]), Append(w[2], s[2]), w[3] + Cardinality(s[2])>> :
                   w \in upTo[p - 1],
                   s \in {x \in feeds : Cardinality(x[2]) <= sh.state /\ Cardinality(x[1] \cup x[2]) <= 2}}
  IN {w \in upTo[NumPins] : w[3] <= sh.state}

TargetSets(sh) == UNION {kSubset(k, Inner(sh)) : k \in 1 .. sh.targets}

NetsOf(sh, macros) ==
  {[fanin |-> w[1], state |-> w[2], gates |-> Inner(sh) \ macros, macros |-> macros,
    early |-> sh.leaves + 1 .. Base(sh), targets |-> t] :
      w \in Wirings(sh, macros), t \in TargetSets(sh)}

MCNets == UNION {UNION {NetsOf(sh, macros) : macros \in kSubset(sh.macros, Inner(sh))} : sh \in Shapes}
=============================================================================
