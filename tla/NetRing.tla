------------------------------ MODULE NetRing ------------------------------
(***************************************************************************)
(* "zenctl net set ring rx|tx N --iface I" run by several processes on one  *)
(* interface: net_set_ring (cli/cmd/net.c) and zenctl_net_set_ring_rx/_tx    *)
(* (lib/net/net.c).  ethtool has one call for both rings, so each setter     *)
(* reads the pair, replaces its own half and writes the pair back.          *)
(***************************************************************************)
EXTENDS Integers, Processes

CONSTANTS
  RingMax,    \* rx_max_pending and tx_max_pending of the interface
  IntMax,     \* INT_MAX
  Size        \* the N that callers give: a non-negative C long

Ring == {"rx", "tx"}

ASSUME NetRingAssumption ==
  /\ RingMax \in [Ring -> Nat]
  /\ IntMax \in Nat
  /\ Size \subseteq Nat

VARIABLES
  pending,  \* the interface's ring sizes
  up,       \* the interface is there
  which,    \* the ring it sets
  size,     \* the size it was asked for
  rp,       \* struct ethtool_ringparam: the pair it will write back
  status,   \* its exit status: "none" before the end, "ok" or "error"
  raced     \* history: the processes that saw another's write since they read

args == <<which, size>>
ring_vars == <<pending, up, pc, which, size, rp, status, raced>>

RingTypeOK ==
  /\ pending \in [Ring -> Nat]
  /\ up \in BOOLEAN
  /\ pc \in [Proc -> {"idle", "open", "get", "set", "done"}]
  /\ which \in [Proc -> Ring]
  /\ size \in [Proc -> Size]
  /\ rp \in [Proc -> [Ring -> Nat]]
  /\ status \in [Proc -> {"none", "ok", "error"}]
  /\ raced \subseteq Proc

(* The cast (int)n of the size that strtol has read as a long: an int has   *)
(* 2 * (IntMax + 1) values, half of them negative.                          *)
AsInt(n) ==
  LET range == 2 * (IntMax + 1)
      m == n % range
  IN IF m <= IntMax THEN m ELSE m - range

RingInit ==
  /\ pending \in [Ring -> UNION {0 .. RingMax[r] : r \in Ring}]
  /\ \A r \in Ring : pending[r] <= RingMax[r]
  /\ up = TRUE
  /\ pc = [p \in Proc |-> "idle"]
  /\ which \in [Proc -> Ring]
  /\ size \in [Proc -> Size]
  /\ rp = [p \in Proc |-> pending]
  /\ status = [p \in Proc |-> "none"]
  /\ raced = {}

-----------------------------------------------------------------------------
Exit(p, s) ==
  /\ Goto(p, "done")
  /\ status' = [status EXCEPT ![p] = s]

(* net_set_ring: the arguments are good and this is no dry run. *)
RingStart(p) ==
  /\ pc[p] = "idle"
  /\ Goto(p, "open")
  /\ UNCHANGED <<pending, up, args, rp, status, raced>>

(* zenctl_net_open, and the setter's test for a negative size. *)
Open(p) ==
  /\ pc[p] = "open"
  /\ \/ up /\ AsInt(size[p]) >= 0 /\ Goto(p, "get") /\ UNCHANGED status
     \/ (~up \/ AsInt(size[p]) < 0) /\ Exit(p, "error")
  /\ UNCHANGED <<pending, up, args, rp, raced>>

(* net_get_ringparams, and the caller's half replaced in the pair. *)
Replaced_reset(p) == [r \in Ring |-> IF r = which[p] THEN AsInt(size[p]) ELSE 0]

Replaced_swapped(p) == [pending EXCEPT !["rx"] = AsInt(size[p])]

Replaced(p) == [pending EXCEPT ![which[p]] = AsInt(size[p])]

Get(p) ==
  /\ pc[p] = "get"
  /\ \/ /\ up
        /\ rp' = [rp EXCEPT ![p] = Replaced(p)]
        /\ raced' = raced \ {p}
        /\ Goto(p, "set")
        /\ UNCHANGED status
     \/ ~up /\ Exit(p, "error") /\ UNCHANGED <<rp, raced>>
  /\ UNCHANGED <<pending, up, args>>

(* External: ethtool refuses a ring that is larger than its maximum. *)
KernelAccepts(v) == \A r \in Ring : v[r] <= RingMax[r]

(* ETHTOOL_SRINGPARAM with the whole pair. *)
Set(p) ==
  /\ pc[p] = "set"
  /\ up /\ KernelAccepts(rp[p])
  /\ pending' = rp[p]
  /\ raced' = raced \cup (Proc \ {p})
  /\ Exit(p, "ok")
  /\ UNCHANGED <<up, args, rp>>

(* The ioctl fails: refused, the interface is gone, or the driver says no. *)
SetFails(p) ==
  /\ pc[p] = "set"
  /\ Exit(p, "error")
  /\ UNCHANGED <<pending, up, args, rp, raced>>

(* External: the interface goes away. *)
Unplug ==
  /\ up
  /\ up' = FALSE
  /\ UNCHANGED <<pending, pc, args, rp, status, raced>>

RingNext ==
  \/ \E p \in Proc : RingStart(p) \/ Open(p) \/ Get(p) \/ Set(p) \/ SetFails(p)
  \/ Unplug

RingSpec == RingInit /\ [][RingNext]_ring_vars

-----------------------------------------------------------------------------
(* A size that the cast to int leaves alone. *)
FitsInt(n) == n <= IntMax

(* Exit status 0 means that the ring has the size asked for, unless another *)
(* process has written the pair since, or the size did not fit in an int.   *)
SuccessMeansSet ==
  \A p \in Proc :
    status[p] = "ok" /\ p \notin raced /\ FitsInt(size[p]) =>
      pending[which[p]] = size[p]

(* The setters write both rings but mean to change one: "Preserve other     *)
(* pending values to avoid resetting them".  As long as no other process    *)
(* writes between the read and the write, the other ring keeps its size.    *)
OtherRingKept ==
  [][\A p \in Proc : Set(p) /\ p \notin raced =>
       \A r \in Ring \ {which[p]} : pending'[r] = pending[r]]_ring_vars

(* What makes OtherRingKept true: an unraced pair is still current.  *)
PairIsCurrent ==
  \A p \in Proc :
    pc[p] = "set" => /\ rp[p][which[p]] = AsInt(size[p])
                     /\ AsInt(size[p]) >= 0
                     /\ p \notin raced => rp[p] = [pending EXCEPT ![which[p]] = AsInt(size[p])]

RingIInv ==
  /\ RingTypeOK
  /\ SuccessMeansSet
  /\ PairIsCurrent
  /\ \A p \in Proc : pc[p] = "get" => AsInt(size[p]) >= 0
  /\ \A p \in Proc : status[p] # "none" => pc[p] = "done"
=============================================================================
