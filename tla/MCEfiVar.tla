------------------------------ MODULE MCEfiVar ------------------------------
(* Instances of EfiVar for TLC: callers are interchangeable, and so are data. *)
EXTENDS EfiVar, TLC

Symmetry == Permutations(Proc) \cup Permutations(Data)
=============================================================================
