------------------------------ MODULE CliGate ------------------------------
(***************************************************************************)
(* How a writing subcommand comes to its write: main (cli/main.c) checks    *)
(* the user, the handler of the domain checks the rest.  The handlers do    *)
(* not agree on the order of their checks, and that order is what this      *)
(* module keeps of each of them: a sequence of gates, in program order.     *)
(*                                                                         *)
(*   "args"         parse the arguments, fail if they are bad               *)
(*   "root"         cli_require_root, which looks at the effective user     *)
(*   "root_undry"   the same, but only without --dry-run                    *)
(*   "confirm"      fail without --confirm                                  *)
(*   "confirm_off"  the same, but only when the argument is "off"           *)
(*   "ask_off"      ask_confirm when the argument is "off"                  *)
(*   "dry"          with --dry-run, print the plan and return 0             *)
(*   "open"         open the device or read the file, fail if it is missing *)
(*   "set"          the library calls that write                            *)
(***************************************************************************)
EXTENDS Naturals, Sequences


cpu_set_governor_nodry == <<"args", "set">>

cpu_set_governor == <<"args", "dry", "set">>

cpu_set_freq == <<"args", "dry", "set">>
cpu_set_online == <<"args", "dry", "ask_off", "open", "set">>

cpu_set_smt_noask == <<"args", "dry", "open", "set">>

cpu_set_smt == <<"args", "dry", "ask_off", "open", "set">>

cpu_set_cstate == <<"args", "dry", "open", "set">>
mem_set_hugepages == <<"args", "dry", "set">>

mem_set_thp_root == <<"args", "root", "dry", "set">>

mem_set_thp == <<"args", "dry", "set">>

mem_set_swappiness == <<"args", "dry", "set">>
mem_set_overcommit == <<"args", "dry", "set">>
st_set_scheduler == <<"args", "dry", "open", "set">>
st_set_read_ahead == <<"args", "dry", "open", "set">>
st_set_cache_type == <<"args", "dry", "open", "set">>
st_set_power == <<"args", "dry", "open", "set">>
net_set_ring == <<"args", "dry", "open", "set">>
net_set_offload == <<"args", "dry", "open", "set">>
net_set_mtu == <<"args", "dry", "open", "set">>
net_set_irq_affinity == <<"args", "dry", "open", "set">>
pcie_set_power == <<"args", "dry", "open", "set">>
usb_set_power == <<"args", "root", "dry", "open", "set">>
usb_set_autosuspend == <<"args", "root", "dry", "open", "set">>
usb_set_authorized == <<"args", "root", "confirm_off", "dry", "open", "set">>
usb_set_wakeup == <<"args", "root", "dry", "open", "set">>
usb_reset == <<"args", "root", "dry", "open", "set">>
power_set_mem_sleep == <<"args", "root", "dry", "set">>
power_set_charge == <<"args", "root", "dry", "set">>
power_suspend == <<"args", "confirm", "root", "dry", "set">>
fw_efi_set == <<"args", "root", "open", "dry", "set">>
fw_efi_delete == <<"args", "root", "confirm", "dry", "set">>
fw_bios_set == <<"args", "root", "dry", "set">>
thermal_hwmon_fan == <<"args", "root", "args", "dry", "set">>
thermal_set == <<"args", "root", "open", "args", "dry", "set">>
gpu_set == <<"args", "root", "open", "args", "dry", "set">>
bt_set == <<"args", "root", "open", "dry", "set">>
wireless_set == <<"args", "root", "open", "dry", "set">>
profile_save_cmd == <<"args", "dry", "set">>
profile_load_cmd == <<"args", "open", "root_undry", "dry", "set">>
profile_delete_cmd == <<"args", "open", "set">>

(* The handlers that each domain dispatches to. *)
cmd_cpu == [cpu_set_governor |-> cpu_set_governor, cpu_set_freq |-> cpu_set_freq,
            cpu_set_online |-> cpu_set_online, cpu_set_smt |-> cpu_set_smt,
            cpu_set_cstate |-> cpu_set_cstate]
cmd_mem == [mem_set_hugepages |-> mem_set_hugepages, mem_set_thp |-> mem_set_thp,
            mem_set_swappiness |-> mem_set_swappiness,
            mem_set_overcommit |-> mem_set_overcommit]
cmd_storage == [st_set_scheduler |-> st_set_scheduler, st_set_read_ahead |-> st_set_read_ahead,
                st_set_cache_type |-> st_set_cache_type, st_set_power |-> st_set_power]
cmd_net == [net_set_ring |-> net_set_ring, net_set_offload |-> net_set_offload,
            net_set_mtu |-> net_set_mtu, net_set_irq_affinity |-> net_set_irq_affinity]
cmd_pcie == [pcie_set_power |-> pcie_set_power]
cmd_usb == [usb_set_power |-> usb_set_power, usb_set_autosuspend |-> usb_set_autosuspend,
            usb_set_authorized |-> usb_set_authorized, usb_set_wakeup |-> usb_set_wakeup,
            usb_reset |-> usb_reset]
cmd_power == [power_set_mem_sleep |-> power_set_mem_sleep,
              power_set_charge |-> power_set_charge, power_suspend |-> power_suspend]
cmd_firmware == [fw_efi_set |-> fw_efi_set, fw_efi_delete |-> fw_efi_delete,
                 fw_bios_set |-> fw_bios_set]
cmd_thermal == [thermal_hwmon_fan |-> thermal_hwmon_fan, thermal_set |-> thermal_set]
cmd_gpu == [gpu_set |-> gpu_set]
cmd_bt == [bt_set |-> bt_set]
cmd_wireless == [wireless_set |-> wireless_set]
cmd_profile == [profile_save_cmd |-> profile_save_cmd, profile_load_cmd |-> profile_load_cmd,
                profile_delete_cmd |-> profile_delete_cmd]

Command ==
  DOMAIN cmd_cpu \cup DOMAIN cmd_mem \cup DOMAIN cmd_storage \cup DOMAIN cmd_net
    \cup DOMAIN cmd_pcie \cup DOMAIN cmd_usb \cup DOMAIN cmd_power \cup DOMAIN cmd_firmware
    \cup DOMAIN cmd_thermal \cup DOMAIN cmd_gpu \cup DOMAIN cmd_bt \cup DOMAIN cmd_wireless
    \cup DOMAIN cmd_profile

Handler ==
  [c \in Command |->
     CASE c \in DOMAIN cmd_cpu -> cmd_cpu[c]
       [] c \in DOMAIN cmd_mem -> cmd_mem[c]
       [] c \in DOMAIN cmd_storage -> cmd_storage[c]
       [] c \in DOMAIN cmd_net -> cmd_net[c]
       [] c \in DOMAIN cmd_pcie -> cmd_pcie[c]
       [] c \in DOMAIN cmd_usb -> cmd_usb[c]
       [] c \in DOMAIN cmd_power -> cmd_power[c]
       [] c \in DOMAIN cmd_firmware -> cmd_firmware[c]
       [] c \in DOMAIN cmd_thermal -> cmd_thermal[c]
       [] c \in DOMAIN cmd_gpu -> cmd_gpu[c]
       [] c \in DOMAIN cmd_bt -> cmd_bt[c]
       [] c \in DOMAIN cmd_wireless -> cmd_wireless[c]
       [] OTHER -> cmd_profile[c]]

CONSTANT Commands   \* the handlers that are exercised

ASSUME CliGateAssumption == Commands \subseteq Command

(* The word after the domain.  It is the verb itself but for the domains    *)
(* that put a noun first.                                                   *)
Subcommand(c) ==
  CASE c \in {"fw_efi_set", "fw_efi_delete"} -> "efi"
    [] c = "fw_bios_set"                     -> "bios"
    [] c = "thermal_hwmon_fan"               -> "hwmon"
    [] c = "usb_reset"                       -> "reset"
    [] c = "power_suspend"                   -> "suspend"
    [] c = "profile_save_cmd"                -> "save"
    [] c = "profile_load_cmd"                -> "load"
    [] c = "profile_delete_cmd"              -> "delete"
    [] OTHER                                 -> "set"

subcommand_needs_root_setonly(c) == Subcommand(c) = "set"

subcommand_needs_root(c) == Subcommand(c) \in {"set", "save", "delete", "load"}

VARIABLES
  cmd, dry_run, confirm, off,  \* the command line: handler, flags, "off" argument
  uid0, euid0,                 \* real and effective user are root
  gate,                        \* index of the handler's next gate; 0 in main
  status,                      \* "running", "ok" or "error"
  usable,                      \* history: arguments good and device there so far
  answered,                    \* history: the prompt was answered with Y
  written                      \* the handler made a library call that writes

line == <<cmd, dry_run, confirm, off, uid0, euid0>>
vars == <<line, gate, status, usable, answered, written>>

Init ==
  /\ cmd \in Commands
  /\ dry_run \in BOOLEAN /\ confirm \in BOOLEAN /\ off \in BOOLEAN
  /\ uid0 \in BOOLEAN /\ euid0 \in BOOLEAN
  /\ gate = 0
  /\ status = "running"
  /\ usable = TRUE
  /\ answered = FALSE
  /\ written = FALSE

-----------------------------------------------------------------------------
Exit(s) == status' = s /\ UNCHANGED gate
Pass == gate' = gate + 1 /\ UNCHANGED status

(* main's root check: the real user, and only without --dry-run. *)
Main ==
  /\ status = "running" /\ gate = 0
  /\ IF ~dry_run /\ subcommand_needs_root(cmd) /\ ~uid0 THEN Exit("error") ELSE Pass
  /\ UNCHANGED <<line, usable, answered, written>>

At(kinds) == status = "running" /\ gate > 0 /\ Handler[cmd][gate] \in kinds

(* Bad arguments, or a device that is not there. *)
Usable ==
  /\ At({"args", "open"})
  /\ \/ Pass /\ UNCHANGED usable
     \/ Exit("error") /\ usable' = FALSE
  /\ UNCHANGED <<line, answered, written>>

Root ==
  /\ At({"root", "root_undry"})
  /\ IF euid0 \/ (Handler[cmd][gate] = "root_undry" /\ dry_run) THEN Pass ELSE Exit("error")
  /\ UNCHANGED <<line, usable, answered, written>>

Confirm ==
  /\ At({"confirm", "confirm_off"})
  /\ IF confirm \/ (Handler[cmd][gate] = "confirm_off" /\ ~off) THEN Pass ELSE Exit("error")
  /\ UNCHANGED <<line, usable, answered, written>>

(* ask_confirm: the flag, or a Y at the prompt. *)
Ask ==
  /\ At({"ask_off"})
  /\ \/ (confirm \/ ~off) /\ Pass /\ UNCHANGED answered
     \/ ~confirm /\ off /\ Pass /\ answered' = TRUE
     \/ ~confirm /\ off /\ Exit("error") /\ UNCHANGED answered
  /\ UNCHANGED <<line, usable, written>>

Dry ==
  /\ At({"dry"})
  /\ IF dry_run THEN Exit("ok") ELSE Pass
  /\ UNCHANGED <<line, usable, answered, written>>

(* The write is tried; it may fail, on all CPUs or on some. *)
Set ==
  /\ At({"set"})
  /\ written' = TRUE
  /\ \E s \in {"ok", "error"} : Exit(s)
  /\ UNCHANGED <<line, usable, answered>>

Next == Main \/ Usable \/ Root \/ Confirm \/ Ask \/ Dry \/ Set

Spec == Init /\ [][Next]_vars

-----------------------------------------------------------------------------
(* The handlers of cpu, mem, storage, net and pcie have no root check of    *)
(* their own and rely on main's guess from the subcommand; the domains that *)
(* put a noun first slip through main and rely on their own.  Between them  *)
(* no write is tried for a user that neither check took for root.           *)
WriteNeedsRoot == written => uid0 \/ euid0

(* main.c: "--dry-run is a preview that touches nothing": no handler comes  *)
(* to its library call under --dry-run.                                     *)
DryRunWritesNothing == dry_run => ~written

(* man zenctl.1: --confirm is "Required (or the prompt must be answered)    *)
(* for operations like disabling CPU cores, disabling SMT, entering a sleep *)
(* state, deleting EFI variables, and deauthorizing USB devices".           *)
DestructiveConfirmed ==
  /\ written
  /\ \/ off /\ cmd \in {"cpu_set_online", "cpu_set_smt", "usb_set_authorized"}
     \/ cmd \in {"power_suspend", "fw_efi_delete"}
  => confirm \/ answered

(* The handlers that leave the root check to main, so that main can let     *)
(* their previews through for everybody.                                    *)
PreviewForAll ==
  {"cpu_set_governor", "cpu_set_freq", "cpu_set_online", "cpu_set_smt", "cpu_set_cstate",
   "mem_set_hugepages", "mem_set_thp", "mem_set_swappiness", "mem_set_overcommit",
   "st_set_scheduler", "st_set_read_ahead", "st_set_cache_type", "st_set_power",
   "net_set_ring", "net_set_offload", "net_set_mtu", "net_set_irq_affinity",
   "pcie_set_power", "profile_save_cmd", "profile_load_cmd"}

(* man zenctl.1: "For any write subcommand: print the planned changes and   *)
(* exit 0".  A preview with good arguments on a device that is there exits  *)
(* 0 for root with --confirm, and in the domains that leave the root check  *)
(* to main for every user and without --confirm.                            *)
PreviewSucceeds ==
  dry_run /\ usable /\ (cmd \in PreviewForAll \/ (euid0 /\ confirm)) => status # "error"

-----------------------------------------------------------------------------
(* The order that handler c keeps: before the write come the look at        *)
(* --dry-run, a root check where main leaves it to the handler, and what    *)
(* its destructive form asks for; what a preview must pass for everybody    *)
(* has no check of the user, and nobody is asked before the preview ends.   *)
Before(c, j, kind) == \E i \in 1..(j - 1) : Handler[c][i] = kind

Disciplined(c) ==
  \A j \in 1..Len(Handler[c]) :
    /\ Handler[c][j] = "set" =>
         /\ Before(c, j, "dry")
         /\ subcommand_needs_root(c) \/ Before(c, j, "root")
         /\ c \in {"cpu_set_online", "cpu_set_smt"} => Before(c, j, "ask_off")
         /\ c = "usb_set_authorized" => Before(c, j, "confirm_off")
         /\ c \in {"power_suspend", "fw_efi_delete"} => Before(c, j, "confirm")
    /\ Handler[c][j] = "ask_off" => Before(c, j, "dry")
    /\ c \in PreviewForAll => Handler[c][j] \notin {"root", "confirm", "confirm_off"}

(* A handler ends with its write. *)
EndsInWrite(c) == Len(Handler[c]) \in Nat \ {0} /\ Handler[c][Len(Handler[c])] = "set"

(* What a gate that was passed says of the command line and the user. *)
Passed(kind) ==
  CASE kind = "dry"         -> ~dry_run
    [] kind = "root"        -> euid0
    [] kind = "root_undry"  -> euid0 \/ dry_run
    [] kind = "confirm"     -> confirm
    [] kind = "confirm_off" -> confirm \/ ~off
    [] kind = "ask_off"     -> confirm \/ ~off \/ answered
    [] kind = "set"         -> FALSE
    [] OTHER                -> TRUE

(* Why a call that found its arguments good and its device there failed. *)
Failed(kind) ==
  \/ written
  \/ kind = "root" /\ ~euid0
  \/ kind = "root_undry" /\ ~euid0 /\ ~dry_run
  \/ kind \in {"confirm", "confirm_off"} /\ ~confirm
  \/ kind = "ask_off"

(* The inductive invariant: the gates behind the call were passed, and a    *)
(* call that has written stands at its write.                               *)
GateInv ==
  /\ cmd \in Commands /\ gate \in 0..Len(Handler[cmd])
  /\ {dry_run, confirm, off, uid0, euid0, usable, answered, written} \subseteq BOOLEAN
  /\ gate > 0 => dry_run \/ ~subcommand_needs_root(cmd) \/ uid0
  /\ \A i \in 1..(gate - 1) : Passed(Handler[cmd][i])
  /\ written => gate > 0 /\ Handler[cmd][gate] = "set"
  /\ status = "error" /\ usable => IF gate = 0 THEN ~dry_run ELSE Failed(Handler[cmd][gate])
=============================================================================
