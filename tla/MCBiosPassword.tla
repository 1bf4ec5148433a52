--------------------------- MODULE MCBiosPassword ---------------------------
(* Three calls, with the right, a wrong or no password, on a vendor driver  *)
(* with two authentication roles.                                           *)
EXTENDS BiosPassword, TLC

Symmetry == Permutations(Proc)
=============================================================================
