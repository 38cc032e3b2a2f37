---------------------------- MODULE SyncCircuit ----------------------------
(***************************************************************************)
(* What a run of the simulator promises: the state of the design advances  *)
(* one clock cycle at a time, all of it at once.  A word of the state is   *)
(* named by the cycle it belongs to: after n cycles every word holds its   *)
(* value of cycle n.  GridCycle implements this specification.             *)
(***************************************************************************)
EXTENDS Integers

CONSTANTS Word, NumCycles

VARIABLES cycle, value

Init ==
  /\ cycle = 0
  /\ value = [w \in Word |-> 0]

Tick ==
  /\ cycle < NumCycles
  /\ cycle' = cycle + 1
  /\ value' = [w \in Word |-> cycle + 1]

Spec == Init /\ [][Tick]_<<cycle, value>>

=============================================================================
