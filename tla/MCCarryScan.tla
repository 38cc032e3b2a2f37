---------------------------- MODULE MCCarryScan ----------------------------
(***************************************************************************)
(* CarryScan on four lanes: two scan steps.  A lane is a chain start, a    *)
(* link or no CARRY4; it kills, passes or makes a carry, at its top bit or *)
(* below it.                                                               *)
(***************************************************************************)
EXTENDS CarryScan

Bits(S) == [b \in Bit |-> b \in S]

\* Passes a carry; kills it at bit 1 and passes that on; makes one at bit 3.
Nibbles == {<<Bits(Bit), Bits({})>>, <<Bits({0, 2, 3}), Bits({0})>>,
            <<Bits({0, 1, 2}), Bits({3})>>}

Carry4(n, st, ci, cy) ==
  [carry4 |-> TRUE, start |-> st, ci |-> ci, cyinit |-> cy, S |-> n[1], DI |-> n[2]]

MCLaneInputs ==
  {Carry4(n, TRUE, ci, FALSE) : n \in Nibbles, ci \in BOOLEAN}
    \cup {Carry4(n, FALSE, FALSE, cy) : n \in Nibbles, cy \in BOOLEAN}
    \cup {[carry4 |-> FALSE, start |-> FALSE, ci |-> FALSE, cyinit |-> FALSE,
           S |-> Bits({}), DI |-> Bits({})]}
=============================================================================
