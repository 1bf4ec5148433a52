---------------------------- MODULE MCAttributes ----------------------------
(* Two devices of the attribute's class, every attribute, scaled integers.  *)
EXTENDS Attributes, TLC

MCIntMod == 1048576
MCLongMax == 16777216
(* Within every range, at its ends and beyond; one beyond int on each side. *)
MCNumbers == {-1, 0, 1, 100, 256, MCIntMod + 1, 5 - MCIntMod, MCLongMax + 1}
(* Names with a device and without, and three that an int does not hold:    *)
(* they become -1, a name, and one that no device has.                      *)
MCIndices == {-1, 0, 1, 2, MCIntMod - 1, MCIntMod + 1, MCIntMod - 2}
Symmetry == Permutations(Dev)
=============================================================================
