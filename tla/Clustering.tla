----------------------------- MODULE Clustering -----------------------------
(***************************************************************************)
(* What the mapper promises about the endpoint groups of one major stage:  *)
(* each is either still loose or in exactly one block, a loose endpoint is *)
(* settled once and for all, and blocks only ever grow by absorbing whole  *)
(* other blocks.  CutMap implements this specification.                    *)
(***************************************************************************)
CONSTANT Endpoint

VARIABLES loose, blocks

\* Everything is loose, or blocks are given to begin with.
Init ==
  /\ loose \cup UNION blocks = Endpoint
  /\ {} \notin blocks
  /\ \A B \in blocks : B \cap (loose \cup UNION (blocks \ {B})) = {}

Settle(B) ==
  /\ B # {}
  /\ loose' = loose \ B
  /\ blocks' = blocks \cup {B}

Merge(A, B) ==
  /\ A # B
  /\ blocks' = (blocks \ {A, B}) \cup {A \cup B}
  /\ UNCHANGED loose

Next ==
  \/ \E B \in SUBSET loose : Settle(B)
  \/ \E A, B \in blocks : Merge(A, B)

Spec == Init /\ [][Next]_<<loose, blocks>>

=============================================================================
