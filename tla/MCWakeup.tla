------------------------------ MODULE MCWakeup ------------------------------
(* Instances of Wakeup for TLC: callers are interchangeable, devices too. *)
EXTENDS Wakeup, TLC

Symmetry == Permutations(Proc) \cup Permutations(Dev)
=============================================================================
