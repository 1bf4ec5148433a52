----------------------------- MODULE Processes -----------------------------
(***************************************************************************)
(* What EfiVar, Wakeup and NetRing have in common: zenctl processes that    *)
(* run the same call on one kernel object, each with a place in the code.   *)
(* The three are extended together by RaceProofs, so the names that every   *)
(* specification has carry a prefix in them (EfiInit, RingNext).            *)
(***************************************************************************)
CONSTANT Proc   \* the zenctl processes

VARIABLE pc     \* where each process is

Goto(p, l) == pc' = [pc EXCEPT ![p] = l]
=============================================================================
