------------------------------- MODULE Wakeup -------------------------------
(***************************************************************************)
(* zenctl_power_set_wakeup (lib/power/power.c), called by several processes *)
(* on the rows of /proc/acpi/wakeup.  The kernel offers no "enable": writing *)
(* a device name toggles its row.  So the call reads the table, returns if   *)
(* the row is as wanted, and otherwise toggles it.                          *)
(***************************************************************************)
EXTENDS Processes

CONSTANT
  Dev     \* the wake sources callers name, in the table or not

VARIABLES
  rows,       \* the devices that have a row in /proc/acpi/wakeup
  enabled,    \* the devices whose row says *enabled
  device,     \* its arguments
  want,
  result,     \* "ok" or the error code it returns
  toggled       \* history: the row was toggled by another since this one began

table == <<rows, enabled>>
wakeup_vars == <<rows, enabled, pc, device, want, result, toggled>>

WakeupTypeOK ==
  /\ rows \subseteq Dev
  /\ enabled \subseteq Dev
  /\ pc \in [Proc -> {"idle", "read", "toggle", "done"}]
  /\ device \in [Proc -> Dev]
  /\ want \in [Proc -> BOOLEAN]
  /\ result \in [Proc -> {"none", "ok", "enoent", "eio"}]
  /\ toggled \in [Proc -> BOOLEAN]

WakeupInit ==
  /\ rows \in SUBSET Dev
  /\ enabled \in SUBSET rows
  /\ pc = [p \in Proc |-> "idle"]
  /\ device \in [Proc -> Dev]
  /\ want \in [Proc -> BOOLEAN]
  /\ result = [p \in Proc |-> "none"]
  /\ toggled = [p \in Proc |-> FALSE]

-----------------------------------------------------------------------------
Return(p, r) ==
  /\ Goto(p, "done")
  /\ result' = [result EXCEPT ![p] = r]

(* A call with a well-formed device name; a process may call again. *)
WakeupStart(p) ==
  /\ pc[p] \in {"idle", "done"}
  /\ Goto(p, "read")
  /\ result' = [result EXCEPT ![p] = "none"]
  /\ toggled' = [toggled EXCEPT ![p] = FALSE]
  /\ UNCHANGED <<table, device, want>>

(* The row says what the caller wants. *)
AsWanted_inverted(p) == (device[p] \in enabled) # want[p]

AsWanted(p) == (device[p] \in enabled) = want[p]

(* Read the table and parse the device's row. *)
Read(p) ==
  /\ pc[p] = "read"
  /\ \/ device[p] \notin rows /\ Return(p, "enoent")
     \/ device[p] \in rows /\ AsWanted(p) /\ Return(p, "ok")
     \/ /\ device[p] \in rows /\ ~AsWanted(p)
        /\ Goto(p, "toggle")
        /\ UNCHANGED result
  /\ UNCHANGED <<table, device, want, toggled>>

(* Write the device name: the kernel toggles the row, whatever it says now. *)
Toggle(p) ==
  /\ pc[p] = "toggle"
  /\ enabled' = IF device[p] \in enabled THEN enabled \ {device[p]}
                ELSE enabled \cup {device[p]}
  /\ toggled' = [q \in Proc |-> toggled[q] \/ (q # p /\ device[q] = device[p])]
  /\ Return(p, "ok")
  /\ UNCHANGED <<rows, device, want>>

(* The write fails: nothing is toggled. *)
ToggleFails(p) ==
  /\ pc[p] = "toggle"
  /\ Return(p, "eio")
  /\ UNCHANGED <<table, device, want, toggled>>

WakeupNext == \E p \in Proc : WakeupStart(p) \/ Read(p) \/ Toggle(p) \/ ToggleFails(p)

WakeupSpec == WakeupInit /\ [][WakeupNext]_wakeup_vars

-----------------------------------------------------------------------------
(* A call that returned 0 while nobody else toggled its device left the row *)
(* as asked for, whether it had to toggle or found it so.                   *)
AloneIsExact ==
  \A p \in Proc :
    result[p] = "ok" /\ ~toggled[p] => (device[p] \in enabled) = want[p]

(* What a call knows at each of its steps if nobody toggled it. *)
ReadStillTrue ==
  \A p \in Proc :
    pc[p] = "toggle" => device[p] \in rows /\ (toggled[p] \/ ~AsWanted(p))

WakeupIInv ==
  /\ WakeupTypeOK
  /\ AloneIsExact
  /\ ReadStillTrue
  /\ \A p \in Proc : result[p] = "ok" => pc[p] = "done"
=============================================================================
