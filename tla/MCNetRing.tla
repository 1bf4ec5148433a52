----------------------------- MODULE MCNetRing -----------------------------
(***************************************************************************)
(* Instances of NetRing for TLC.  An int is -8..7: 1 and 3 fit, 6 fits but  *)
(* is above both maxima, 9 becomes negative, 17 becomes 1.                   *)
(***************************************************************************)
EXTENDS NetRing

MCRingMax == [r \in Ring |-> IF r = "rx" THEN 3 ELSE 2]
MCSize == {1, 3, 6, 9, 17}
=============================================================================
