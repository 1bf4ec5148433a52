----------------------------- MODULE MCCpuFreq -----------------------------
(***************************************************************************)
(* Instances of CpuFreq for TLC: a hybrid part on which CPU 0 has policy    *)
(* "big" and the others share policy "little", whose range is lower.        *)
(***************************************************************************)
EXTENDS CpuFreq, TLC

MCPolicyOf == [c \in Cpu |-> IF c = 0 THEN "big" ELSE "little"]
MCHwMin == [k \in Policy |-> IF k = "big" THEN 2 ELSE 1]
MCHwMax == [k \in Policy |-> IF k = "big" THEN 4 ELSE 3]

(* Negative; in the range of "little" only; of both; of "big" only. *)
MCHz == {-1000, 1999, 3000, 4000}

Symmetry == Permutations(Proc)
=============================================================================
