--------------------------- MODULE CliGateProofs ---------------------------
(***************************************************************************)
(* Proofs about CliGate.  The argument has two halves: the table of         *)
(* handlers keeps an order (Disciplined), looked up handler by handler, and *)
(* whatever the table is, the gates behind a call were passed (GateInv).    *)
(***************************************************************************)
EXTENDS CliGate, TLAPS

-----------------------------------------------------------------------------
(* The tables of the domains name different handlers, so that each handler  *)
(* is found in its own.                                                     *)
(* cmd_cpu dispatches to its own handlers. *)
LEMMA TableCpu ==
  /\ Handler["cpu_set_governor"] = cpu_set_governor
  /\ Handler["cpu_set_freq"] = cpu_set_freq
  /\ Handler["cpu_set_online"] = cpu_set_online
  /\ Handler["cpu_set_smt"] = cpu_set_smt
  /\ Handler["cpu_set_cstate"] = cpu_set_cstate
BY DEF Handler, Command, cmd_cpu, cmd_mem, cmd_storage, cmd_net, cmd_pcie, cmd_usb, cmd_power,
       cmd_firmware, cmd_thermal, cmd_gpu, cmd_bt, cmd_wireless, cmd_profile

(* cmd_mem dispatches to its own handlers. *)
LEMMA TableMem ==
  /\ Handler["mem_set_hugepages"] = mem_set_hugepages
  /\ Handler["mem_set_thp"] = mem_set_thp
  /\ Handler["mem_set_swappiness"] = mem_set_swappiness
  /\ Handler["mem_set_overcommit"] = mem_set_overcommit
BY DEF Handler, Command, cmd_cpu, cmd_mem, cmd_storage, cmd_net, cmd_pcie, cmd_usb, cmd_power,
       cmd_firmware, cmd_thermal, cmd_gpu, cmd_bt, cmd_wireless, cmd_profile

(* cmd_storage dispatches to its own handlers. *)
LEMMA TableStorage ==
  /\ Handler["st_set_scheduler"] = st_set_scheduler
  /\ Handler["st_set_read_ahead"] = st_set_read_ahead
  /\ Handler["st_set_cache_type"] = st_set_cache_type
  /\ Handler["st_set_power"] = st_set_power
BY DEF Handler, Command, cmd_cpu, cmd_mem, cmd_storage, cmd_net, cmd_pcie, cmd_usb, cmd_power,
       cmd_firmware, cmd_thermal, cmd_gpu, cmd_bt, cmd_wireless, cmd_profile

(* cmd_net dispatches to its own handlers. *)
LEMMA TableNet ==
  /\ Handler["net_set_ring"] = net_set_ring
  /\ Handler["net_set_offload"] = net_set_offload
  /\ Handler["net_set_mtu"] = net_set_mtu
  /\ Handler["net_set_irq_affinity"] = net_set_irq_affinity
BY DEF Handler, Command, cmd_cpu, cmd_mem, cmd_storage, cmd_net, cmd_pcie, cmd_usb, cmd_power,
       cmd_firmware, cmd_thermal, cmd_gpu, cmd_bt, cmd_wireless, cmd_profile

(* cmd_pcie dispatches to its own handlers. *)
LEMMA TablePcie ==
  /\ Handler["pcie_set_power"] = pcie_set_power
BY DEF Handler, Command, cmd_cpu, cmd_mem, cmd_storage, cmd_net, cmd_pcie, cmd_usb, cmd_power,
       cmd_firmware, cmd_thermal, cmd_gpu, cmd_bt, cmd_wireless, cmd_profile

(* cmd_usb dispatches to its own handlers. *)
LEMMA TableUsb ==
  /\ Handler["usb_set_power"] = usb_set_power
  /\ Handler["usb_set_autosuspend"] = usb_set_autosuspend
  /\ Handler["usb_set_authorized"] = usb_set_authorized
  /\ Handler["usb_set_wakeup"] = usb_set_wakeup
  /\ Handler["usb_reset"] = usb_reset
BY DEF Handler, Command, cmd_cpu, cmd_mem, cmd_storage, cmd_net, cmd_pcie, cmd_usb, cmd_power,
       cmd_firmware, cmd_thermal, cmd_gpu, cmd_bt, cmd_wireless, cmd_profile

(* cmd_power dispatches to its own handlers. *)
LEMMA TablePower ==
  /\ Handler["power_set_mem_sleep"] = power_set_mem_sleep
  /\ Handler["power_set_charge"] = power_set_charge
  /\ Handler["power_suspend"] = power_suspend
BY DEF Handler, Command, cmd_cpu, cmd_mem, cmd_storage, cmd_net, cmd_pcie, cmd_usb, cmd_power,
       cmd_firmware, cmd_thermal, cmd_gpu, cmd_bt, cmd_wireless, cmd_profile

(* cmd_firmware dispatches to its own handlers. *)
LEMMA TableFirmware ==
  /\ Handler["fw_efi_set"] = fw_efi_set
  /\ Handler["fw_efi_delete"] = fw_efi_delete
  /\ Handler["fw_bios_set"] = fw_bios_set
BY DEF Handler, Command, cmd_cpu, cmd_mem, cmd_storage, cmd_net, cmd_pcie, cmd_usb, cmd_power,
       cmd_firmware, cmd_thermal, cmd_gpu, cmd_bt, cmd_wireless, cmd_profile

(* cmd_thermal dispatches to its own handlers. *)
LEMMA TableThermal ==
  /\ Handler["thermal_hwmon_fan"] = thermal_hwmon_fan
  /\ Handler["thermal_set"] = thermal_set
BY DEF Handler, Command, cmd_cpu, cmd_mem, cmd_storage, cmd_net, cmd_pcie, cmd_usb, cmd_power,
       cmd_firmware, cmd_thermal, cmd_gpu, cmd_bt, cmd_wireless, cmd_profile

(* cmd_gpu dispatches to its own handlers. *)
LEMMA TableGpu ==
  /\ Handler["gpu_set"] = gpu_set
BY DEF Handler, Command, cmd_cpu, cmd_mem, cmd_storage, cmd_net, cmd_pcie, cmd_usb, cmd_power,
       cmd_firmware, cmd_thermal, cmd_gpu, cmd_bt, cmd_wireless, cmd_profile

(* cmd_bt dispatches to its own handlers. *)
LEMMA TableBt ==
  /\ Handler["bt_set"] = bt_set
BY DEF Handler, Command, cmd_cpu, cmd_mem, cmd_storage, cmd_net, cmd_pcie, cmd_usb, cmd_power,
       cmd_firmware, cmd_thermal, cmd_gpu, cmd_bt, cmd_wireless, cmd_profile

(* cmd_wireless dispatches to its own handlers. *)
LEMMA TableWireless ==
  /\ Handler["wireless_set"] = wireless_set
BY DEF Handler, Command, cmd_cpu, cmd_mem, cmd_storage, cmd_net, cmd_pcie, cmd_usb, cmd_power,
       cmd_firmware, cmd_thermal, cmd_gpu, cmd_bt, cmd_wireless, cmd_profile

(* cmd_profile dispatches to its own handlers. *)
LEMMA TableProfile ==
  /\ Handler["profile_save_cmd"] = profile_save_cmd
  /\ Handler["profile_load_cmd"] = profile_load_cmd
  /\ Handler["profile_delete_cmd"] = profile_delete_cmd
BY DEF Handler, Command, cmd_cpu, cmd_mem, cmd_storage, cmd_net, cmd_pcie, cmd_usb, cmd_power,
       cmd_firmware, cmd_thermal, cmd_gpu, cmd_bt, cmd_wireless, cmd_profile

(* Every handler ends with its write. *)
LEMMA TableEnds == \A c \in Command : EndsInWrite(c)
<1> USE DEF EndsInWrite
<1>1. EndsInWrite("cpu_set_governor")
  BY TableCpu DEF cpu_set_governor
<1>2. EndsInWrite("cpu_set_freq")
  BY TableCpu DEF cpu_set_freq
<1>3. EndsInWrite("cpu_set_online")
  BY TableCpu DEF cpu_set_online
<1>4. EndsInWrite("cpu_set_smt")
  BY TableCpu DEF cpu_set_smt
<1>5. EndsInWrite("cpu_set_cstate")
  BY TableCpu DEF cpu_set_cstate
<1>6. EndsInWrite("mem_set_hugepages")
  BY TableMem DEF mem_set_hugepages
<1>7. EndsInWrite("mem_set_thp")
  BY TableMem DEF mem_set_thp
<1>8. EndsInWrite("mem_set_swappiness")
  BY TableMem DEF mem_set_swappiness
<1>9. EndsInWrite("mem_set_overcommit")
  BY TableMem DEF mem_set_overcommit
<1>10. EndsInWrite("st_set_scheduler")
  BY TableStorage DEF st_set_scheduler
<1>11. EndsInWrite("st_set_read_ahead")
  BY TableStorage DEF st_set_read_ahead
<1>12. EndsInWrite("st_set_cache_type")
  BY TableStorage DEF st_set_cache_type
<1>13. EndsInWrite("st_set_power")
  BY TableStorage DEF st_set_power
<1>14. EndsInWrite("net_set_ring")
  BY TableNet DEF net_set_ring
<1>15. EndsInWrite("net_set_offload")
  BY TableNet DEF net_set_offload
<1>16. EndsInWrite("net_set_mtu")
  BY TableNet DEF net_set_mtu
<1>17. EndsInWrite("net_set_irq_affinity")
  BY TableNet DEF net_set_irq_affinity
<1>18. EndsInWrite("pcie_set_power")
  BY TablePcie DEF pcie_set_power
<1>19. EndsInWrite("usb_set_power")
  BY TableUsb DEF usb_set_power
<1>20. EndsInWrite("usb_set_autosuspend")
  BY TableUsb DEF usb_set_autosuspend
<1>21. EndsInWrite("usb_set_authorized")
  BY TableUsb DEF usb_set_authorized
<1>22. EndsInWrite("usb_set_wakeup")
  BY TableUsb DEF usb_set_wakeup
<1>23. EndsInWrite("usb_reset")
  BY TableUsb DEF usb_reset
<1>24. EndsInWrite("power_set_mem_sleep")
  BY TablePower DEF power_set_mem_sleep
<1>25. EndsInWrite("power_set_charge")
  BY TablePower DEF power_set_charge
<1>26. EndsInWrite("power_suspend")
  BY TablePower DEF power_suspend
<1>27. EndsInWrite("fw_efi_set")
  BY TableFirmware DEF fw_efi_set
<1>28. EndsInWrite("fw_efi_delete")
  BY TableFirmware DEF fw_efi_delete
<1>29. EndsInWrite("fw_bios_set")
  BY TableFirmware DEF fw_bios_set
<1>30. EndsInWrite("thermal_hwmon_fan")
  BY TableThermal DEF thermal_hwmon_fan
<1>31. EndsInWrite("thermal_set")
  BY TableThermal DEF thermal_set
<1>32. EndsInWrite("gpu_set")
  BY TableGpu DEF gpu_set
<1>33. EndsInWrite("bt_set")
  BY TableBt DEF bt_set
<1>34. EndsInWrite("wireless_set")
  BY TableWireless DEF wireless_set
<1>35. EndsInWrite("profile_save_cmd")
  BY TableProfile DEF profile_save_cmd
<1>36. EndsInWrite("profile_load_cmd")
  BY TableProfile DEF profile_load_cmd
<1>37. EndsInWrite("profile_delete_cmd")
  BY TableProfile DEF profile_delete_cmd
<1> HIDE DEF EndsInWrite
<1> QED
  BY <1>1, <1>2, <1>3, <1>4, <1>5, <1>6, <1>7, <1>8, <1>9, <1>10, <1>11, <1>12,
     <1>13, <1>14, <1>15, <1>16, <1>17, <1>18, <1>19, <1>20, <1>21, <1>22, <1>23, <1>24,
     <1>25, <1>26, <1>27, <1>28, <1>29, <1>30, <1>31, <1>32, <1>33, <1>34, <1>35, <1>36,
     <1>37
  DEF Command, cmd_cpu, cmd_mem, cmd_storage, cmd_net, cmd_pcie, cmd_usb, cmd_power,
      cmd_firmware, cmd_thermal, cmd_gpu, cmd_bt, cmd_wireless, cmd_profile

(* Every handler but that of profile delete keeps the order of its checks. *)
LEMMA TableIsDisciplined == \A c \in Command \ {"profile_delete_cmd"} : Disciplined(c)
<1> USE DEF Disciplined, Before, subcommand_needs_root, Subcommand, PreviewForAll
<1>1. Disciplined("cpu_set_governor")
  BY TableCpu DEF cpu_set_governor
<1>2. Disciplined("cpu_set_freq")
  BY TableCpu DEF cpu_set_freq
<1>3. Disciplined("cpu_set_online")
  BY TableCpu DEF cpu_set_online
<1>4. Disciplined("cpu_set_smt")
  BY TableCpu DEF cpu_set_smt
<1>5. Disciplined("cpu_set_cstate")
  BY TableCpu DEF cpu_set_cstate
<1>6. Disciplined("mem_set_hugepages")
  BY TableMem DEF mem_set_hugepages
<1>7. Disciplined("mem_set_thp")
  BY TableMem DEF mem_set_thp
<1>8. Disciplined("mem_set_swappiness")
  BY TableMem DEF mem_set_swappiness
<1>9. Disciplined("mem_set_overcommit")
  BY TableMem DEF mem_set_overcommit
<1>10. Disciplined("st_set_scheduler")
  BY TableStorage DEF st_set_scheduler
<1>11. Disciplined("st_set_read_ahead")
  BY TableStorage DEF st_set_read_ahead
<1>12. Disciplined("st_set_cache_type")
  BY TableStorage DEF st_set_cache_type
<1>13. Disciplined("st_set_power")
  BY TableStorage DEF st_set_power
<1>14. Disciplined("net_set_ring")
  BY TableNet DEF net_set_ring
<1>15. Disciplined("net_set_offload")
  BY TableNet DEF net_set_offload
<1>16. Disciplined("net_set_mtu")
  BY TableNet DEF net_set_mtu
<1>17. Disciplined("net_set_irq_affinity")
  BY TableNet DEF net_set_irq_affinity
<1>18. Disciplined("pcie_set_power")
  BY TablePcie DEF pcie_set_power
<1>19. Disciplined("usb_set_power")
  BY TableUsb DEF usb_set_power
<1>20. Disciplined("usb_set_autosuspend")
  BY TableUsb DEF usb_set_autosuspend
<1>21. Disciplined("usb_set_authorized")
  BY TableUsb DEF usb_set_authorized
<1>22. Disciplined("usb_set_wakeup")
  BY TableUsb DEF usb_set_wakeup
<1>23. Disciplined("usb_reset")
  BY TableUsb DEF usb_reset
<1>24. Disciplined("power_set_mem_sleep")
  BY TablePower DEF power_set_mem_sleep
<1>25. Disciplined("power_set_charge")
  BY TablePower DEF power_set_charge
<1>26. Disciplined("power_suspend")
  BY TablePower DEF power_suspend
<1>27. Disciplined("fw_efi_set")
  BY TableFirmware DEF fw_efi_set
<1>28. Disciplined("fw_efi_delete")
  BY TableFirmware DEF fw_efi_delete
<1>29. Disciplined("fw_bios_set")
  BY TableFirmware DEF fw_bios_set
<1>30. Disciplined("thermal_hwmon_fan")
  BY TableThermal DEF thermal_hwmon_fan
<1>31. Disciplined("thermal_set")
  BY TableThermal DEF thermal_set
<1>32. Disciplined("gpu_set")
  BY TableGpu DEF gpu_set
<1>33. Disciplined("bt_set")
  BY TableBt DEF bt_set
<1>34. Disciplined("wireless_set")
  BY TableWireless DEF wireless_set
<1>35. Disciplined("profile_save_cmd")
  BY TableProfile DEF profile_save_cmd
<1>36. Disciplined("profile_load_cmd")
  BY TableProfile DEF profile_load_cmd
<1> HIDE DEF Disciplined
<1> QED
  BY <1>1, <1>2, <1>3, <1>4, <1>5, <1>6, <1>7, <1>8, <1>9, <1>10, <1>11, <1>12,
     <1>13, <1>14, <1>15, <1>16, <1>17, <1>18, <1>19, <1>20, <1>21, <1>22, <1>23, <1>24,
     <1>25, <1>26, <1>27, <1>28, <1>29, <1>30, <1>31, <1>32, <1>33, <1>34, <1>35, <1>36
  DEF Command, cmd_cpu, cmd_mem, cmd_storage, cmd_net, cmd_pcie, cmd_usb, cmd_power,
      cmd_firmware, cmd_thermal, cmd_gpu, cmd_bt, cmd_wireless, cmd_profile

-----------------------------------------------------------------------------
(* At the start no gate has been passed. *)
LEMMA InitGateInv == Init => GateInv
<1> SUFFICES ASSUME Init PROVE GateInv
  OBVIOUS
<1>1. cmd \in Command
  BY CliGateAssumption DEF Init
<1>2. Len(Handler[cmd]) \in Nat \ {0}
  BY <1>1, TableEnds DEF EndsInWrite
<1>3. {dry_run, confirm, off, uid0, euid0, usable, answered, written} \subseteq BOOLEAN
  BY Zenon DEF Init
<1>4. 1..(gate - 1) = {}
  BY DEF Init
<1> QED
  BY <1>2, <1>3, <1>4 DEF Init, GateInv

(* A gate that lets the call pass keeps the invariant when it made sure of  *)
(* what it is there for.                                                    *)
LEMMA PassKeeps ==
  ASSUME GateInv, gate > 0, NEW k, k = Handler[cmd][gate], k # "set", status = "running",
         Pass, UNCHANGED <<line, usable, written>>,
         answered' \in BOOLEAN, answered => answered', Passed(k)'
  PROVE  GateInv'
<1> DEFINE h == Handler[cmd]
           n == Len(h)
<1>1. cmd \in Command /\ n \in Nat \ {0} /\ h[n] = "set"
  BY CliGateAssumption, TableEnds DEF GateInv, EndsInWrite
<1>2. UNCHANGED <<cmd, dry_run, confirm, off, uid0, euid0, usable, written, status>> /\ gate' = gate + 1
  BY DEF Pass, line
<1>3. gate \in 1..n /\ gate # n
  BY <1>1 DEF GateInv
<1>4. gate' \in 0..n /\ gate' > 0
  BY <1>1, <1>2, <1>3
<1>5. ASSUME NEW i \in 1..(gate' - 1) PROVE Passed(Handler[cmd][i])'
  <2>1. CASE i = gate
    <3>1. (Handler[cmd][i])' = k
      BY <2>1, <1>2
    <3> QED BY <3>1 DEF Passed
  <2>2. CASE i # gate
    <3>1. i \in 1..(gate - 1)
      BY <2>2, <1>2, <1>3, <1>5
    <3>2. PICK j : j = Handler[cmd][i]
      OBVIOUS
    <3>3. Passed(j)
      BY <3>1, <3>2 DEF GateInv
    <3> QED BY <3>2, <3>3, <1>2 DEF Passed
  <2> QED BY <2>1, <2>2
<1>6. ~written
  BY DEF GateInv
<1>7. {dry_run, confirm, off, uid0, euid0, usable, answered, written}' \subseteq BOOLEAN
  BY <1>2, Zenon DEF GateInv
<1>8. (gate > 0 => dry_run \/ ~subcommand_needs_root(cmd) \/ uid0)'
  BY <1>2 DEF GateInv
<1> QED
  BY <1>2, <1>4, <1>5, <1>6, <1>7, <1>8 DEF GateInv

(* A call that ends keeps the invariant when it ends for a reason. *)
LEMMA ExitKeeps ==
  ASSUME GateInv, gate > 0, NEW k, k = Handler[cmd][gate], UNCHANGED <<line, gate, answered>>,
         usable' \in BOOLEAN, written' \in BOOLEAN, written' => written \/ k = "set",
         status' = "error" /\ usable' => Failed(k)'
  PROVE  GateInv'
<1>1. UNCHANGED <<cmd, dry_run, confirm, off, uid0, euid0, answered, gate>>
  BY DEF line
<1>2. {dry_run, confirm, off, uid0, euid0, usable, answered, written}' \subseteq BOOLEAN
  BY <1>1, Zenon DEF GateInv
<1>3. ASSUME NEW i \in 1..(gate - 1) PROVE Passed(Handler[cmd][i])'
  BY <1>1, <1>3 DEF GateInv, Passed
<1>4. (gate > 0 => dry_run \/ ~subcommand_needs_root(cmd) \/ uid0)'
  BY <1>1 DEF GateInv
<1>5. (written => gate > 0 /\ Handler[cmd][gate] = "set")'
  BY <1>1 DEF GateInv
<1> QED
  BY <1>1, <1>2, <1>3, <1>4, <1>5 DEF GateInv

(* Every gate keeps the invariant: it passes what it says, or the call ends. *)
LEMMA NextGateInv == GateInv /\ [Next]_vars => GateInv'
<1> SUFFICES ASSUME GateInv, [Next]_vars PROVE GateInv'
  OBVIOUS
<1>k. PICK k : k = Handler[cmd][gate]
  OBVIOUS
<1> USE <1>k
<1>b. usable \in BOOLEAN /\ answered \in BOOLEAN /\ written \in BOOLEAN
  BY Zenon DEF GateInv
<1>1. CASE Main
  <2>1. UNCHANGED <<cmd, dry_run, confirm, off, uid0, euid0, usable, answered, written>>
    BY <1>1 DEF Main, line
  <2>2. {dry_run, confirm, off, uid0, euid0, usable, answered, written}' \subseteq BOOLEAN
    BY <2>1, Zenon DEF GateInv
  <2>3. gate = 0 /\ ~written
    BY <1>1 DEF Main, GateInv
  <2>4. cmd \in Commands /\ Len(Handler[cmd]) \in Nat \ {0}
    BY CliGateAssumption, TableEnds DEF GateInv, EndsInWrite
  <2>5. CASE ~dry_run /\ subcommand_needs_root(cmd) /\ ~uid0
    BY <1>1, <2>1, <2>2, <2>3, <2>4, <2>5 DEF Main, Exit, GateInv
  <2>6. CASE ~(~dry_run /\ subcommand_needs_root(cmd) /\ ~uid0)
    <3>1. gate' = 1 /\ status' = "running"
      BY <1>1, <2>3, <2>6 DEF Main, Pass
    <3>2. subcommand_needs_root(cmd)' = subcommand_needs_root(cmd)
      BY <2>1
    <3> QED BY <3>1, <3>2, <2>1, <2>2, <2>3, <2>4, <2>6 DEF GateInv
  <2> QED BY <2>5, <2>6
<1>2. CASE Usable
  <2>1. gate > 0 /\ k \in {"args", "open"} /\ status = "running" /\ UNCHANGED <<line, answered, written>>
    BY <1>2 DEF Usable, At
  <2>2. CASE Pass /\ UNCHANGED usable
    <3>1. Passed(k)'
      BY <2>1, <2>2 DEF Passed, Pass, line
    <3> QED BY <1>b, <2>1, <2>2, <3>1, PassKeeps
  <2>3. CASE Exit("error") /\ usable' = FALSE
    BY <1>b, <2>1, <2>3, ExitKeeps DEF Exit
  <2> QED BY <1>2, <2>2, <2>3 DEF Usable
<1>3. CASE Root
  <2>1. /\ gate > 0 /\ k \in {"root", "root_undry"} /\ status = "running"
        /\ UNCHANGED <<line, usable, answered, written>>
    BY <1>3 DEF Root, At
  <2>2. CASE euid0 \/ (k = "root_undry" /\ dry_run)
    <3>1. Pass
      BY <1>3, <2>2 DEF Root
    <3>2. Passed(k)
      BY <2>1, <2>2 DEF Passed
    <3>3. Passed(k)'
      BY <2>1, <3>2 DEF Passed, line
    <3> QED BY <1>b, <2>1, <3>1, <3>3, PassKeeps
  <2>3. CASE ~(euid0 \/ (k = "root_undry" /\ dry_run))
    <3>1. Exit("error")
      BY <1>3, <2>3 DEF Root
    <3>2. Failed(k)'
      BY <2>1, <2>3 DEF Failed, line
    <3> QED BY <1>b, <2>1, <3>1, <3>2, ExitKeeps DEF Exit
  <2> QED BY <2>2, <2>3
<1>4. CASE Confirm
  <2>1. /\ gate > 0 /\ k \in {"confirm", "confirm_off"} /\ status = "running"
        /\ UNCHANGED <<line, usable, answered, written>>
    BY <1>4 DEF Confirm, At
  <2>2. CASE confirm \/ (k = "confirm_off" /\ ~off)
    <3>1. Pass
      BY <1>4, <2>2 DEF Confirm
    <3>2. Passed(k)'
      BY <2>1, <2>2 DEF Passed, line
    <3> QED BY <1>b, <2>1, <3>1, <3>2, PassKeeps
  <2>3. CASE ~(confirm \/ (k = "confirm_off" /\ ~off))
    <3>1. Exit("error")
      BY <1>4, <2>3 DEF Confirm
    <3>2. Failed(k)'
      BY <2>1, <2>3 DEF Failed, line
    <3> QED BY <1>b, <2>1, <3>1, <3>2, ExitKeeps DEF Exit
  <2> QED BY <2>2, <2>3
<1>5. CASE Ask
  <2>1. gate > 0 /\ k = "ask_off" /\ status = "running" /\ UNCHANGED <<line, usable, written>>
    BY <1>5 DEF Ask, At
  <2>2. CASE (confirm \/ ~off) /\ Pass /\ UNCHANGED answered
    <3>1. Passed(k)'
      BY <2>1, <2>2 DEF Passed, line
    <3> QED BY <1>b, <2>1, <2>2, <3>1, PassKeeps
  <2>3. CASE Pass /\ answered' = TRUE
    <3>1. Passed(k)'
      BY <2>1, <2>3 DEF Passed, line
    <3> QED BY <1>b, <2>1, <2>3, <3>1, PassKeeps
  <2>4. CASE Exit("error") /\ UNCHANGED answered
    <3>1. Failed(k)'
      BY <2>1 DEF Failed, line
    <3> QED BY <1>b, <2>1, <2>4, <3>1, ExitKeeps DEF Exit
  <2> QED BY <1>5, <2>2, <2>3, <2>4 DEF Ask
<1>6. CASE Dry
  <2>1. /\ gate > 0 /\ k = "dry" /\ status = "running"
        /\ UNCHANGED <<line, usable, answered, written>>
    BY <1>6 DEF Dry, At
  <2>2. CASE dry_run
    BY <1>b, <1>6, <2>1, <2>2, ExitKeeps DEF Exit, Dry
  <2>3. CASE ~dry_run
    <3>1. Pass
      BY <1>6, <2>3 DEF Dry
    <3>2. Passed(k)'
      BY <2>1, <2>3 DEF Passed, line
    <3> QED BY <1>b, <2>1, <3>1, <3>2, PassKeeps
  <2> QED BY <2>2, <2>3
<1>7. CASE Set
  <2>1. /\ gate > 0 /\ k = "set" /\ written' = TRUE
        /\ UNCHANGED <<line, gate, usable, answered>>
    BY <1>7 DEF Set, At, Exit
  <2>2. Failed(k)'
    BY <2>1 DEF Failed
  <2> QED BY <1>b, <2>1, <2>2, ExitKeeps
<1>8. CASE UNCHANGED vars
  <2>1. UNCHANGED <<cmd, dry_run, confirm, off, uid0, euid0, gate, status, usable, answered, written>>
    BY <1>8 DEF vars, line
  <2> QED BY <2>1 DEF GateInv, Passed, Failed
<1> QED
  BY <1>1, <1>2, <1>3, <1>4, <1>5, <1>6, <1>7, <1>8 DEF Next

(* What a call has passed is true of its command line and its user, in      *)
(* every handler, profile delete included.                                  *)
THEOREM InductiveInvariant == Spec => []GateInv
BY InitGateInv, NextGateInv, PTL DEF Spec

(* A call that wrote has every gate before its write behind it. *)
LEMMA WrittenPassed ==
  ASSUME GateInv, written, NEW kind, Before(cmd, gate, kind) PROVE Passed(kind)
BY DEF GateInv, Before

-----------------------------------------------------------------------------
(* What follows is about every handler but that of profile delete, which    *)
(* does not look at --dry-run: main lets its preview through for everybody, *)
(* and it deletes.                                                          *)

(* A call under --dry-run, or for a user whom nobody took for root, does    *)
(* not come to its write, and a destructive one not without consent.        *)
LEMMA GatedWrites ==
  ASSUME "profile_delete_cmd" \notin Commands
  PROVE  GateInv => WriteNeedsRoot /\ DryRunWritesNothing /\ DestructiveConfirmed
<1> SUFFICES ASSUME GateInv, written
             PROVE  WriteNeedsRoot /\ DryRunWritesNothing /\ DestructiveConfirmed
  BY DEF WriteNeedsRoot, DryRunWritesNothing, DestructiveConfirmed
<1>1. cmd \in Command \ {"profile_delete_cmd"}
  BY CliGateAssumption DEF GateInv
<1>2. Disciplined(cmd) /\ gate \in 1..Len(Handler[cmd]) /\ Handler[cmd][gate] = "set"
  BY <1>1, TableIsDisciplined, TableEnds DEF GateInv, EndsInWrite
<1>3. ~dry_run
  <2>1. Before(cmd, gate, "dry")
    BY <1>2 DEF Disciplined
  <2>2. Passed("dry")
    BY <2>1, WrittenPassed
  <2> QED BY <2>2 DEF Passed
<1>4. uid0 \/ euid0
  <2>1. CASE subcommand_needs_root(cmd)
    BY <1>2, <1>3, <2>1 DEF GateInv
  <2>2. CASE ~subcommand_needs_root(cmd)
    <3>1. Before(cmd, gate, "root")
      BY <1>2, <2>2 DEF Disciplined
    <3>2. Passed("root")
      BY <3>1, WrittenPassed
    <3> QED BY <3>2 DEF Passed
  <2> QED BY <2>1, <2>2
<1>5. ASSUME off, cmd \in {"cpu_set_online", "cpu_set_smt"} PROVE confirm \/ answered
  <2>1. Before(cmd, gate, "ask_off")
    BY <1>2, <1>5 DEF Disciplined
  <2>2. Passed("ask_off")
    BY <2>1, WrittenPassed
  <2> QED BY <1>5, <2>2 DEF Passed
<1>6. ASSUME off, cmd = "usb_set_authorized" PROVE confirm
  <2>1. Before(cmd, gate, "confirm_off")
    BY <1>2, <1>6 DEF Disciplined
  <2>2. Passed("confirm_off")
    BY <2>1, WrittenPassed
  <2> QED BY <1>6, <2>2 DEF Passed
<1>7. ASSUME cmd \in {"power_suspend", "fw_efi_delete"} PROVE confirm
  <2>1. Before(cmd, gate, "confirm")
    BY <1>2, <1>7 DEF Disciplined
  <2>2. Passed("confirm")
    BY <2>1, WrittenPassed
  <2> QED BY <2>2 DEF Passed
<1> QED
  BY <1>3, <1>4, <1>5, <1>6, <1>7 DEF WriteNeedsRoot, DryRunWritesNothing, DestructiveConfirmed

(* A preview fails for no reason but its arguments, its device or, in the   *)
(* domains that check the user first, the user.                             *)
LEMMA PreviewPasses ==
  ASSUME "profile_delete_cmd" \notin Commands PROVE GateInv => PreviewSucceeds
<1> SUFFICES ASSUME GateInv, dry_run, usable, status = "error",
                    cmd \in PreviewForAll \/ (euid0 /\ confirm)
             PROVE  FALSE
  BY DEF PreviewSucceeds
<1>1. cmd \in Command \ {"profile_delete_cmd"}
  BY CliGateAssumption DEF GateInv
<1>2. Disciplined(cmd) /\ gate \in 1..Len(Handler[cmd]) /\ Failed(Handler[cmd][gate])
  BY <1>1, TableIsDisciplined, TableEnds DEF GateInv, EndsInWrite
<1>3. ~written
  BY GatedWrites DEF DryRunWritesNothing
<1>4. Handler[cmd][gate] # "ask_off"
  <2> SUFFICES ASSUME Handler[cmd][gate] = "ask_off" PROVE FALSE
    OBVIOUS
  <2>1. Before(cmd, gate, "dry")
    BY <1>2 DEF Disciplined
  <2>2. Passed("dry")
    BY <2>1 DEF Before, GateInv
  <2> QED BY <2>2 DEF Passed
<1>5. cmd \in PreviewForAll => Handler[cmd][gate] \notin {"root", "confirm", "confirm_off"}
  BY <1>2 DEF Disciplined
<1> QED
  BY <1>2, <1>3, <1>4, <1>5 DEF Failed

(* No handler tries a write for a user whom neither main nor the handler    *)
(* took for root.                                                           *)
THEOREM WritesNeedRoot ==
  ASSUME "profile_delete_cmd" \notin Commands PROVE Spec => []WriteNeedsRoot
<1>1. GateInv => WriteNeedsRoot
  BY GatedWrites
<1> QED BY <1>1, InductiveInvariant, PTL

(* No handler comes to its library call under --dry-run. *)
THEOREM PreviewsWriteNothing ==
  ASSUME "profile_delete_cmd" \notin Commands PROVE Spec => []DryRunWritesNothing
<1>1. GateInv => DryRunWritesNothing
  BY GatedWrites
<1> QED BY <1>1, InductiveInvariant, PTL

(* What the manual calls destructive is not done without --confirm or a Y   *)
(* at the prompt.                                                           *)
THEOREM DestructionIsConfirmed ==
  ASSUME "profile_delete_cmd" \notin Commands PROVE Spec => []DestructiveConfirmed
<1>1. GateInv => DestructiveConfirmed
  BY GatedWrites
<1> QED BY <1>1, InductiveInvariant, PTL

(* A preview with good arguments on a device that is there exits 0. *)
THEOREM PreviewsSucceed ==
  ASSUME "profile_delete_cmd" \notin Commands PROVE Spec => []PreviewSucceeds
<1>1. GateInv => PreviewSucceeds
  BY PreviewPasses
<1> QED BY <1>1, InductiveInvariant, PTL
=============================================================================
