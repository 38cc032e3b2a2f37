---------------------------- MODULE MCScriptWalk ----------------------------
(***************************************************************************)
(* ScriptWalk on blocks of up to two partitions of up to two stages, two   *)
(* macro phases and two rounds of global read.  Phases in front of stage 0 *)
(* are left out of the kernel's blocks in MCScriptWalk.cfg wherever there  *)
(* is a round to skip; MCPhaseBefore.cfg shows what it does with them.     *)
(***************************************************************************)
EXTENDS ScriptWalk

Plans ==
  UNION {[stages : {s}, rounds : 0 .. 2,
          phases : {q \in BoundedSeq(0 .. s, 2) : Len(q) = 2 => q[1] <= q[2]}] : s \in 1 .. 2}

KernelPlans == {x \in Plans : x.rounds = 0 \/ x.phases = << >> \/ x.phases[1] > 0}

PlanOf == [r \in {"kernel", "oracle"} |-> IF r = "kernel" THEN KernelPlans ELSE Plans]

OnePhaseBefore ==
  [r \in {"kernel"} |-> {[stages |-> 1, rounds |-> 1, phases |-> <<0>>]}]
=============================================================================
