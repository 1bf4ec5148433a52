----------------------------- MODULE MCNl80211 -----------------------------
(* Instances of Nl80211 for TLC; its constants are numbers, set in the cfg. *)
EXTENDS Nl80211
=============================================================================
