----------------------------- MODULE MCCliGate -----------------------------
(***************************************************************************)
(* Instances of CliGate for TLC: which handlers a run exercises.            *)
(***************************************************************************)
EXTENDS CliGate

(* profile delete does not look at --dry-run. *)
AllButDelete == Command \ {"profile_delete_cmd"}
=============================================================================
