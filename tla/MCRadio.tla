------------------------------ MODULE MCRadio ------------------------------
(* Two clients, two controllers and two Wi-Fi radios of which two are       *)
(* plugged in at first.                                                     *)
EXTENDS Radio, TLC

Symmetry == Permutations(Proc) \cup Permutations(Bluetooth) \cup Permutations(Wlan)
=============================================================================
