----------------------------- MODULE MCProfile -----------------------------
(***************************************************************************)
(* An instance of Profile for TLC.  There is no CPU 1, and CPU 2 is out of  *)
(* the loop's reach.  There is one memory number and a disk with a          *)
(* scheduler, and no thp.                                                   *)
(***************************************************************************)
EXTENDS Profile

MCPolicyOf == [c \in Cpu |-> "big"]
MCHwMin == [k \in Policy |-> 1]
MCHwMax == [k \in Policy |-> 2]
MCAttrs == <<"swappiness", "scheduler">>
MCAccepts == [a \in Attr |-> IF a = "swappiness" THEN {60} ELSE {0}]

Unusable(k, v) == [Entry(k, v) EXCEPT !.usable = FALSE]

(* A range that may fail on the first load but not on the second, a number  *)
(* beyond int that the cast brings into range, and a value of the wrong     *)
(* form.                                                                    *)
MCRange ==
  <<Entry("freq_min_hz", 2000), Entry("freq_max_hz", 2000),
    Entry("swappiness", 60 + IntMod), Unusable("swappiness", 6)>>

(* A section that load does not know, and entries that fail on every load:  *)
(* no file, and out of range after the cast.                                *)
MCRefused == <<Entry("gpu", 1), Entry("thp", 0), Entry("swappiness", IntMod - 1)>>

MCUserDocs == {MCRange, MCRefused}
=============================================================================
