----------------------------- MODULE Attributes -----------------------------
(***************************************************************************)
(* A session with one attribute: a user sets it on a device and reads it    *)
(* back, by two commands or by two library calls on one handle, while       *)
(* devices come and go and other programs write the same files.  What is    *)
(* typed, written and read is converted as AttrCodec says; this module is   *)
(* about which device the calls reach.  A handle holds a name or an index.  *)
(* Some calls turn it into another name first: the battery list into the    *)
(* name of a battery, a link into the number of a cooling device, an        *)
(* interface into the number of its interrupt, a USB device into its bus    *)
(* address, a graphics card into its hwmon directory or its NVML index.     *)
(***************************************************************************)
EXTENDS AttrCodec, FiniteSets

CONSTANTS
  Dev,         \* the devices of the attribute's class
  NoDev,       \* no device
  MaxName,     \* names and indices are 0 .. MaxName
  MaxNumber,   \* bound on the numbers the kernel gives out
  MaxMoves,    \* bound on the devices that come or go
  Numbers,     \* the numbers that may be typed
  Indices      \* the indices that may be typed, with a device or without

Name == 0..MaxName

ASSUME AttributesAssumption ==
  /\ IsFiniteSet(Dev) /\ Dev # {} /\ NoDev \notin Dev
  /\ MaxName \in 1..IntMax /\ MaxNumber \in Nat /\ MaxMoves \in Nat \ {0}
  /\ Numbers \subseteq Int /\ Indices \subseteq -LongMax..LongMax

(* The attributes, by how their file is found. *)
Global == {"nr_hugepages", "thp", "swappiness", "overcommit", "vfs_cache_pressure",
           "aspm", "mem_sleep", "suspend", "smt"}
Indexed == {"hugepages_size", "runtime_pm", "fan_pwm", "fan_auto", "cstate"}
Battery == {"charge_start", "charge_end"}
Numbered == {"cooling", "irq_affinity"}
Hwmon == {"gpu_fan_pwm", "gpu_fan_auto", "gpu_temp", "gpu_power", "gpu_freq"}
Named == {"scheduler", "queue_depth", "read_ahead", "cache_type", "st_power", "pcie_power",
          "d3cold", "usb_power", "autosuspend", "authorized", "usb_wakeup", "governor",
          "online", "mtu", "offload", "policy", "zone_mode", "profile", "rc6",
          "rps_min", "rps_max", "rps_boost"}
Attr == Global \cup Indexed \cup Battery \cup Numbered \cup Hwmon \cup Named
          \cup {"power_limit", "usb_reset"}

ReadOnly == {"gpu_temp", "gpu_power", "gpu_freq"}
WriteOnly == {"suspend", "usb_reset"}
(* Calls that take an index, with nothing of the device looked at before.   *)
Unopened == Global \cup Indexed \cup Battery \cup {"cooling"}
(* Indices that the command line parses as a long and casts to int. *)
CastIndex == Battery \cup Hwmon \cup {"fan_pwm", "cstate", "cooling", "governor", "online", "profile"}

Profiles == <<"BOOTUP", "VIDEO">>

VARIABLES
  attr,        \* the attribute of this session
  kind,        \* the sort of each device, as far as the attribute tells them apart
  at,          \* the device that carries each name
  number,      \* the number the kernel gave each device, -1 for none
  file,        \* the attribute's file of each device
  write_cache, \* queue/write_cache of each disk, next to its cache_type
  moves,       \* how often a device came or went since the session began
  written_by,  \* history: the devices that another program wrote
  op, pc,      \* "set" or "get", and where the call is
  typed,       \* what the user typed as the value
  arg,         \* the argument of the setter
  asked,       \* the name or index the user typed
  target,      \* the same as the library got it
  meant,       \* history: the device that asked denoted when the session began
  opened,      \* the device that was there when the handle was opened
  found,       \* what the handle's name was turned into
  text,        \* what the setter will write
  result,      \* of the set
  got,         \* what the get returned
  touched      \* history: the devices the calls reached

machine == <<attr, kind>>
devices == <<at, number, file, write_cache, moves, written_by>>
args == <<typed, arg, asked, target, meant>>
vars == <<machine, devices, op, pc, args, opened, found, text, result, got, touched>>

-----------------------------------------------------------------------------
(* What the command line makes of the typed value.  The attributes it has   *)
(* no command for, and those whose text it passes on, are under OTHER.      *)
Parse(a, s) ==
  CASE a = "nr_hugepages" -> mem_set_hugepages(s)
    [] a = "thp" -> mem_set_thp(s)
    [] a = "swappiness" -> mem_set_swappiness(s)
    [] a = "overcommit" -> mem_set_overcommit(s)
    [] a = "vfs_cache_pressure" -> load_vfs_cache_pressure(s)
    [] a = "suspend" -> power_suspend(s)
    [] a = "smt" -> cpu_set_smt(s)
    [] a = "online" -> cpu_set_online(s)
    [] a = "cstate" -> cpu_set_cstate(s)
    [] a \in Battery -> power_set_charge(s)
    [] a = "cooling" -> set_cooling(s)
    [] a = "fan_pwm" -> thermal_hwmon_fan(s)
    [] a = "gpu_fan_pwm" -> set_fan(s)
    [] a = "gpu_fan_auto" -> set_fan_auto(s)
    [] a = "read_ahead" -> st_set_read_ahead(s)
    [] a = "cache_type" -> cache_type_parse(s)
    [] a = "autosuspend" -> usb_set_autosuspend(s)
    [] a \in {"authorized", "usb_wakeup", "zone_mode"} -> cli_parse_bool(s)
    [] a = "mtu" -> net_set_mtu(s)
    [] a = "offload" -> parse_on_off(s)
    [] OTHER -> s

(* The limits the kernel shows for a device of sort k. *)
MaxState(k) == IF k = "small" THEN 1 ELSE 255
Available(k) == {Word("performance")} \cup (IF k = "small" THEN {} ELSE {Word("powersave")})

(* The text the setter writes, or Refused.  d is the device whose limits it *)
(* reads.                                                                   *)
Encode(a, v, d) ==
  CASE a = "nr_hugepages" -> zenctl_mem_set_nr_hugepages(v)
    [] a = "hugepages_size" -> zenctl_mem_set_nr_hugepages_size(v)
    [] a = "thp" -> zenctl_mem_set_thp(v)
    [] a = "swappiness" -> zenctl_mem_set_swappiness(v)
    [] a = "overcommit" -> zenctl_mem_set_overcommit(v)
    [] a = "vfs_cache_pressure" -> zenctl_mem_set_vfs_cache_pressure(v)
    [] a = "aspm" -> zenctl_pcie_set_aspm_policy(v)
    [] a = "mem_sleep" -> zenctl_power_set_mem_sleep_mode(v)
    [] a = "suspend" -> zenctl_power_suspend(v, file[d][2])
    [] a = "smt" -> zenctl_cpu_set_smt_active(v)
    [] a = "runtime_pm" -> zenctl_power_set_runtime_pm(v)
    [] a = "fan_pwm" -> zenctl_thermal_hwmon_set_fan_pwm(v)
    [] a = "fan_auto" -> zenctl_thermal_hwmon_set_fan_auto(v)
    [] a = "cstate" -> zenctl_cpu_set_cstate_disable(v)
    [] a = "charge_start" -> zenctl_power_battery_set_charge_start(v)
    [] a = "charge_end" -> zenctl_power_battery_set_charge_end(v)
    [] a = "cooling" ->
         IF d = NoDev THEN v ELSE zenctl_thermal_set_cooling_state(v, MaxState(kind[d]))
    [] a = "irq_affinity" -> zenctl_net_set_irq_affinity(v)
    [] a = "gpu_fan_pwm" -> zenctl_gpu_set_fan_pwm(v)
    [] a = "gpu_fan_auto" -> zenctl_gpu_set_fan_auto(v)
    [] a = "scheduler" -> zenctl_storage_set_scheduler(v)
    [] a = "queue_depth" -> zenctl_storage_set_queue_depth(v)
    [] a = "read_ahead" -> zenctl_storage_set_read_ahead(v)
    [] a = "cache_type" -> cache_type_to_str(v)
    [] a = "st_power" -> zenctl_storage_set_power_control(v)
    [] a = "pcie_power" -> zenctl_pcie_set_power_control(v)
    [] a = "d3cold" -> zenctl_pcie_set_d3cold_allowed(v)
    [] a = "usb_power" -> zenctl_usb_set_power_control(v)
    [] a = "autosuspend" -> zenctl_usb_set_autosuspend_delay(v)
    [] a = "authorized" -> zenctl_usb_set_authorized(v)
    [] a = "usb_wakeup" -> zenctl_usb_set_wakeup(v)
    [] a = "governor" ->
         IF d = NoDev THEN Refused ELSE zenctl_cpu_set_governor(v, Available(kind[d]))
    [] a = "online" -> zenctl_cpu_set_online(v)
    [] a = "mtu" -> zenctl_net_set_mtu(v)
    [] a = "offload" -> net_set_flag(v)
    [] a = "policy" -> zenctl_thermal_set_policy(v)
    [] a = "zone_mode" -> zenctl_thermal_set_mode(v)
    [] a = "profile" ->
         IF d = NoDev \/ kind[d] # "manual" THEN Refused
         ELSE zenctl_gpu_amdgpu_set_power_profile(v, Profiles)
    [] a = "rc6" ->
         IF d = NoDev \/ kind[d] # "rw" THEN Refused ELSE zenctl_gpu_i915_set_rc6(v)
    [] a = "rps_min" -> zenctl_gpu_i915_set_rps_min(v)
    [] a = "rps_max" -> zenctl_gpu_i915_set_rps_max(v)
    [] a = "rps_boost" -> zenctl_gpu_i915_set_rps_boost(v)
    [] a = "power_limit" -> zenctl_gpu_nvidia_set_power_limit(v)
    [] a = "usb_reset" -> v

(* What the getter makes of the file's text. *)
Decode(a, t) ==
  CASE a = "nr_hugepages" -> zenctl_mem_get_nr_hugepages(t)
    [] a = "hugepages_size" -> zenctl_mem_get_nr_hugepages_size(t)
    [] a = "thp" -> zenctl_mem_get_thp(t)
    [] a = "swappiness" -> zenctl_mem_get_swappiness(t)
    [] a = "overcommit" -> zenctl_mem_get_overcommit(t)
    [] a = "vfs_cache_pressure" -> zenctl_mem_get_vfs_cache_pressure(t)
    [] a = "aspm" -> zenctl_pcie_get_aspm_policy(t)
    [] a = "mem_sleep" -> zenctl_power_get_mem_sleep_mode(t)
    [] a = "smt" -> zenctl_cpu_get_smt_active(t)
    [] a = "runtime_pm" -> zenctl_power_get_runtime_pm(t)
    [] a = "fan_pwm" -> zenctl_thermal_hwmon_get_fan_pwm(t)
    [] a = "fan_auto" -> zenctl_thermal_hwmon_get_fan_auto(t)
    [] a = "cstate" -> zenctl_cpu_get_cstate_disable(t)
    [] a = "charge_start" -> zenctl_power_battery_get_charge_start(t)
    [] a = "charge_end" -> zenctl_power_battery_get_charge_end(t)
    [] a = "cooling" -> zenctl_thermal_get_cooling(t)
    [] a = "irq_affinity" -> zenctl_net_get_irq_affinity(t)
    [] a = "gpu_fan_pwm" -> zenctl_gpu_get_fan_pwm(t)
    [] a = "gpu_fan_auto" -> zenctl_gpu_get_fan_auto(t)
    [] a = "gpu_temp" -> zenctl_gpu_get_temp(t)
    [] a = "gpu_power" -> zenctl_gpu_get_power(t)
    [] a = "gpu_freq" -> zenctl_gpu_get_freq(t)
    [] a = "scheduler" -> zenctl_storage_get_scheduler(t)
    [] a = "queue_depth" -> zenctl_storage_get_queue_depth(t)
    [] a = "read_ahead" -> zenctl_storage_get_read_ahead(t)
    [] a = "cache_type" -> cache_str_to_type(t)
    [] a = "st_power" -> zenctl_storage_get_power_control(t)
    [] a = "pcie_power" -> zenctl_pcie_get_power_control(t)
    [] a = "d3cold" -> zenctl_pcie_get_d3cold_allowed(t)
    [] a = "usb_power" -> zenctl_usb_get_power_control(t)
    [] a = "autosuspend" -> zenctl_usb_get_autosuspend_delay(t)
    [] a = "authorized" -> zenctl_usb_get_authorized(t)
    [] a = "usb_wakeup" -> zenctl_usb_get_wakeup(t)
    [] a = "governor" -> zenctl_cpu_get_governor(t)
    [] a = "online" -> zenctl_cpu_get_online(t)
    [] a = "mtu" -> zenctl_net_get_mtu(t)
    [] a = "offload" -> net_get_flag(t)
    [] a = "policy" -> zenctl_thermal_get_policy(t)
    [] a = "zone_mode" -> zenctl_thermal_get_mode(t)
    [] a = "profile" -> zenctl_gpu_amdgpu_get_power_profile(t)
    [] a = "rc6" -> zenctl_gpu_i915_get_rc6(t)
    [] a = "rps_min" -> zenctl_gpu_i915_get_rps_min(t)
    [] a = "rps_max" -> zenctl_gpu_i915_get_rps_max(t)
    [] a = "rps_boost" -> zenctl_gpu_i915_get_rps_boost(t)
    [] a = "power_limit" -> zenctl_gpu_nvidia_get_power_limit(t)

-----------------------------------------------------------------------------
(* The kernel and the drivers. *)
Lists == [thp |-> {"always", "madvise", "never"}, mem_sleep |-> {"s2idle", "deep"},
          aspm |-> {"default", "performance", "powersave", "powersupersave"},
          scheduler |-> {"none", "bfq"}]
Rounded == {"nr_hugepages", "hugepages_size", "read_ahead", "fan_pwm", "gpu_fan_pwm",
            "rps_min", "rps_max", "rps_boost"} \cup Battery

(* The sorts of device.  A loose one may round a number, have fewer pages   *)
(* to give, or run its fan itself.                                          *)
Kinds(a) ==
  CASE a \in {"gpu_fan_pwm", "gpu_temp", "gpu_power", "gpu_freq", "gpu_fan_auto"} ->
         {"hwmon", "nvidia", "bare"}
    [] a \in Rounded \ {"gpu_fan_pwm"} -> {"exact", "loose"}
    [] a \in {"cooling", "governor"} -> {"exact", "small"}
    [] a = "profile" -> {"manual", "auto", "other"}
    [] a = "rc6" -> {"rw", "ro", "other"}
    [] a = "cache_type" -> {"scsi", "scsi_fixed", "nvme"}
    [] a = "power_limit" -> {"nvidia", "other"}
    [] OTHER -> {"exact"}

(* Contents the file of a device of sort k may have. *)
Contents(a, k) ==
  CASE a \in DOMAIN Lists -> {Marked(w) : w \in Lists[a]}
    [] a = "suspend" -> {<<"states", {"freeze", "mem"}>>}
    [] a = "profile" -> {Marked("BOOTUP"), Marked("VIDEO")}
    [] a = "cache_type" -> {Word("write_back"), Word("write_through"), Word("none")}
                             \cup (IF k = "nvme" THEN {} ELSE {Word("daft")})
    [] a \in {"runtime_pm", "st_power", "pcie_power", "usb_power"} -> {Word("on"), Word("auto")}
    [] a \in {"usb_wakeup", "zone_mode"} -> {Word("enabled"), Word("disabled")}
    [] a = "irq_affinity" -> {Word("f"), Word("3")}
    [] a = "governor" -> {Word("performance")}
    [] a = "policy" -> {Word("step_wise"), Word("user_space")}
    [] a \in {"fan_auto", "gpu_fan_auto"} -> {Num(0), Num(1), Num(2), Num(3)}
    [] a = "rc6" -> {Num(0), Num(1), Num(3)}
    [] a \in {"gpu_temp", "gpu_power"} ->
         IF k = "hwmon" THEN {Num(60000)} ELSE {<<IF a = "gpu_temp" THEN "celsius" ELSE "milliwatt", 60>>}
    [] a = "gpu_freq" -> IF k = "hwmon" THEN {Num(60000), Num(300000)} ELSE {<<"mhz", 300>>}
    [] a = "gpu_fan_pwm" -> IF k = "hwmon" THEN {Num(100)} ELSE {<<"percent", 40>>, <<"percent", 110>>}
    [] a \in {"swappiness", "mtu", "queue_depth"} -> {Num(100)}
    [] OTHER -> {Num(0), Num(1)}

(* What a write of t may leave in a file that held old; nothing when the    *)
(* kernel refuses it.                                                       *)
Kernel(a, k, t, old) ==
  CASE a \in DOMAIN Lists -> IF t[2] \in Lists[a] THEN {Marked(t[2])} ELSE {}
    [] a \in WriteOnly -> {old}
    [] a = "profile" -> {Marked(Profiles[t[2]])}
    [] a = "smt" -> {Num(IF t = Word("on") THEN 1 ELSE 0)}
    [] a = "cache_type" -> IF k = "scsi" THEN {t} ELSE {}
    [] a \in {"irq_affinity", "policy"} -> IF t \in Contents(a, k) THEN {t} ELSE {}
    [] a = "governor" -> {Folded(t)} \cap Available(k)
    [] a = "cooling" -> IF t[2] \in 0..MaxState(k) THEN {t} ELSE {}
    [] a = "gpu_fan_pwm" -> {t, old}
    [] a = "power_limit" -> IF t[2] > 255 THEN {} ELSE {t}
    [] a \in Rounded /\ k = "loose" -> {t, old}
    [] OTHER -> {t}

(* queue/write_cache knows no mode without a cache. *)
WriteCache(t) == IF t = Word("none") THEN Word("write_through") ELSE t

Present == {n \in Name : at[n] # NoDev}
InUse == {number[d] : d \in Dev}
Indirect == Battery \cup Numbered \cup Hwmon \cup {"power_limit", "usb_reset"}
Limited == {"cooling", "governor", "profile", "rc6"}

(* Where a call uses its path once, losing the device is all that can       *)
(* happen; elsewhere another one may take its place.                        *)
Hotplugs == IF attr \in Global THEN 0 ELSE IF attr \in Indirect \cup Limited THEN MaxMoves ELSE 1

(* Another program writes the file. *)
OtherWrites(d) ==
  /\ written_by = {} /\ d \in {at[n] : n \in Present} /\ attr \notin ReadOnly \cup WriteOnly
  /\ pc # "done"
  /\ \E c \in Contents(attr, kind[d]) : file' = [file EXCEPT ![d] = c]
  /\ written_by' = {d}
  /\ UNCHANGED <<machine, at, number, write_cache, moves, op, pc, args, opened, found, text,
                 result, got, touched>>

(* A device goes, and a device comes and gets a free name and number. *)
Unplug(n) ==
  /\ moves < Hotplugs /\ pc \notin {"start", "done"} /\ n \in Present
  /\ at' = [at EXCEPT ![n] = NoDev] /\ number' = [number EXCEPT ![at[n]] = -1]
  /\ moves' = moves + 1
  /\ UNCHANGED <<machine, file, write_cache, written_by, op, pc, args, opened, found, text,
                 result, got, touched>>

Plug(d, n, k) ==
  /\ moves < Hotplugs /\ pc \notin {"start", "done"}
  /\ number[d] = -1 /\ n \notin Present /\ k \notin InUse
  /\ attr \notin Indirect => k = n
  /\ at' = [at EXCEPT ![n] = d] /\ number' = [number EXCEPT ![d] = k] /\ moves' = moves + 1
  /\ UNCHANGED <<machine, file, write_cache, written_by, op, pc, args, opened, found, text,
                 result, got, touched>>

-----------------------------------------------------------------------------
(* From a name to a device. *)
NotFound == <<"none">>

(* The members of a finite set of numbers in ascending order. *)
Sorted(S) ==
  CHOOSE f \in [1..Cardinality(S) -> S] : \A i, j \in 1..Cardinality(S) : i < j => f[i] < f[j]

(* The list of batteries is sorted, so that an index means the same battery *)
(* in every call.                                                           *)
nth_battery_name_unsorted(i) ==
  IF i \in 0..(Cardinality(Present) - 1)
  THEN <<"name", Sorted(Present)[Cardinality(Present) - i]>> ELSE NotFound

nth_battery_name(i) ==
  IF i \in 0..(Cardinality(Present) - 1) THEN <<"name", Sorted(Present)[i + 1]>> ELSE NotFound

(* The device with a name or an index, which may be any int. *)
At(n) == IF n \in Name THEN at[n] ELSE NoDev

(* The link cdevN of a thermal zone and the file device/irq of an           *)
(* interface give a number under which the kernel keeps the file.           *)
NumberAt(n) == IF At(n) = NoDev THEN NotFound ELSE <<"number", number[At(n)]>>
zone_cdev_index(n) == NumberAt(n)
net_irq_path(n) == NumberAt(n)

(* A USB handle has the bus address it read when it was opened, and reset   *)
(* goes to that address; it reads the address again if there was none.      *)
read_bus_dev_nums(n) == NumberAt(n)
zenctl_usb_reset == IF found # NotFound THEN found ELSE read_bus_dev_nums(target)

(* The hwmon directory of a graphics card, kept in the handle once found.   *)
(* An NVIDIA card has none under its own driver, and is known to NVML; a    *)
(* bare one, under nouveau, has a directory without this attribute's file   *)
(* and is unknown to NVML.                                                  *)
gpu_find_hwmon(n) ==
  IF At(n) # NoDev /\ kind[At(n)] \in {"hwmon", "bare"} THEN <<"hwmon", n, number[At(n)]>>
  ELSE NotFound
gpu_hwmon(n) == IF found # NotFound THEN found ELSE gpu_find_hwmon(n)

(* Only the getters fall back to NVML, without a directory here and after a *)
(* failing read in ReadNvml; none for the mode of the fan.                  *)
gpu_is_nvidia == kind[opened] \in {"nvidia", "bare"}
MayAskNvml == attr \in Hwmon \ {"gpu_fan_auto"} /\ gpu_is_nvidia
HwmonOrNvml(n) ==
  IF gpu_hwmon(n) = NotFound /\ op = "get" /\ MayAskNvml THEN <<"nvml", n>> ELSE gpu_hwmon(n)

(* NVML numbers the NVIDIA cards alone, here in the order of their numbers; *)
(* get_handle takes the number of the DRM card for an index among them.     *)
Nvidia == {number[d] : d \in {c \in Dev : number[c] # -1 /\ kind[c] = "nvidia"}}
Owner(k) == IF \E d \in Dev : number[d] = k THEN CHOOSE d \in Dev : number[d] = k ELSE NoDev
get_handle(i) == IF i \in 0..(Cardinality(Nvidia) - 1) THEN Owner(Sorted(Nvidia)[i + 1]) ELSE NoDev

(* The device whose file a path names now. *)
Reached(f) ==
  CASE f[1] = "name" -> At(f[2])
    [] f[1] = "number" -> Owner(f[2])
    [] f[1] = "hwmon" -> IF At(f[2]) # NoDev /\ kind[At(f[2])] = "hwmon" /\ number[At(f[2])] = f[3]
                         THEN At(f[2]) ELSE NoDev
    [] f[1] = "nvml" -> get_handle(f[2])
    [] OTHER -> NoDev

-----------------------------------------------------------------------------
(* What may be typed.  A library caller gives an int, an int64_t or a bool. *)
Typed(a) ==
  CASE a \in {"nr_hugepages", "swappiness", "overcommit", "vfs_cache_pressure", "cooling", "fan_pwm",
              "gpu_fan_pwm", "read_ahead", "autosuspend", "mtu"} \cup Battery ->
         {Num(n) : n \in Numbers} \cup {Word("x")}
    [] a = "hugepages_size" -> {Num(n) : n \in {m \in Numbers : Saturated(m) = m}}
    [] a \in {"queue_depth", "rps_min", "rps_max", "rps_boost", "power_limit"} ->
         {Num(n) : n \in {m \in Numbers : Wrapped(m) = m}}
    [] a \in {"fan_auto", "d3cold", "rc6"} -> {Flag(TRUE), Flag(FALSE)}
    [] a \in DOMAIN Lists -> {Word(w) : w \in Lists[a]} \cup {Word("x"), Word("two_words")}
    [] a = "suspend" -> {Word("freeze"), Word("mem"), Word("disk"), Word("x")}
    [] a = "cache_type" -> {Word("write_back"), Word("write_through"), Word("none"), Word("x")}
    [] a = "cstate" -> {Word("enable"), Word("disable"), Word("x")}
    [] a = "irq_affinity" -> {Word("f"), Word("3"), Word("x")}
    [] a = "governor" -> {Word("performance"), Word("powersave"), Word("Powersave"), Word("x")}
    [] a = "policy" -> {Word("step_wise"), Word("user_space"), Word("x")}
    [] a = "profile" -> {Word("BOOTUP"), Word("VIDEO"), Word("x")}
    [] a \in {"runtime_pm", "st_power", "pcie_power", "usb_power"} -> {Word("on"), Word("auto"), Word("x")}
    [] a = "usb_reset" -> {Word("x")}
    [] OTHER -> {Word("on"), Word("off"), Word("enabled"), Word("auto"), Num(1)}

(* The command line refuses a negative index; a library caller gives an int. *)
Asked(a) ==
  IF a \in Global THEN {0}
  ELSE {i \in Indices : IF a \in CastIndex THEN i >= 0 ELSE Wrapped(i) = i}

(* The index that the library gets.  The CPU commands take -1 for all CPUs, *)
(* also when the cast makes it: the session then follows one of the loop.   *)
AllCpus(a, n) == a \in {"governor", "online"} /\ Wrapped(n) = -1
Targets(a, n) ==
  IF a \notin CastIndex THEN {n} ELSE IF AllCpus(a, n) THEN Name ELSE {Wrapped(n)}

Init ==
  /\ attr \in Attr /\ kind \in [Dev -> Kinds(attr)]
  /\ at \in {f \in [Name -> Dev \cup {NoDev}] :
              /\ \A m, n \in Name : f[m] = f[n] /\ f[m] # NoDev => m = n
              /\ attr \in Global => f[0] # NoDev /\ \A n \in Name \ {0} : f[n] = NoDev
              /\ attr \in Named => f[0] # NoDev}
  /\ number \in {f \in [Dev -> -1..MaxNumber] :
                  /\ \A d \in Dev : f[d] = -1 <=> d \notin {at[n] : n \in Name}
                  /\ \A c, d \in Dev : f[c] = f[d] /\ f[c] # -1 => c = d
                  /\ attr \notin Indirect => \A n \in Name : at[n] # NoDev => f[at[n]] = n}
  /\ \E f \in [{kind[d] : d \in Dev} -> UNION {Contents(attr, kind[d]) : d \in Dev}] :
       /\ \A d \in Dev : f[kind[d]] \in Contents(attr, kind[d])
       /\ file = [d \in Dev |-> f[kind[d]]]
  /\ write_cache = [d \in Dev |-> Word("write_back")]
  /\ moves = 0 /\ written_by = {}
  /\ op = "set" /\ pc = "start" /\ typed = Refused /\ arg = Refused
  /\ asked = 0 /\ target = 0 /\ meant = NoDev /\ opened = NoDev /\ found = NotFound
  /\ text = Refused /\ result = "none" /\ got = Refused /\ touched = {}

(* The device an index or a name denotes for the user. *)
Meant(n) ==
  LET carries == IF attr \in Battery THEN {m \in Present : Cardinality({k \in Present : k < m}) = n}
                 ELSE Present \cap {n}
  IN IF carries = {} THEN NoDev ELSE at[CHOOSE m \in carries : TRUE]

After == IF op = "set" /\ attr \notin WriteOnly THEN "between" ELSE "done"
FirstStep == IF attr \in Unopened THEN "lookup" ELSE "open"

(* The call under way returns an error. *)
Fail ==
  /\ pc' = After
  /\ result' = IF op = "set" THEN "error" ELSE result
  /\ UNCHANGED <<machine, devices, op, opened, found, text, got, touched>>

(* The user names a device and, to set, a value.  CPUs are not taken online *)
(* or offline all at once.                                                  *)
Start(s, n) ==
  /\ pc = "start"
  /\ typed' = s /\ arg' = Parse(attr, s)
  /\ asked' = n /\ target' \in Targets(attr, n)
  /\ meant' = Meant(n)
  /\ op' = IF attr \in ReadOnly THEN "get" ELSE "set"
  /\ IF op' = "set" /\ (arg' = Refused \/ (attr = "online" /\ AllCpus(attr, n)))
     THEN pc' = (IF attr \in WriteOnly THEN "done" ELSE "between") /\ result' = "error"
     ELSE pc' = FirstStep /\ UNCHANGED result
  /\ UNCHANGED <<machine, devices, opened, found, text, got, touched>>

(* Every call that takes an index refuses a negative one. *)
IndexOK_unchecked == TRUE

IndexOK == target >= 0

(* Opening a handle.  A USB handle keeps the bus address, if it could be    *)
(* read, a graphics handle the vendor and the driver of the device it found. *)
Open ==
  /\ pc = "open" /\ IndexOK /\ At(target) # NoDev
  /\ opened' = At(target) /\ pc' = "lookup"
  /\ found' \in IF attr = "usb_reset" THEN {NotFound, read_bus_dev_nums(target)} ELSE {NotFound}
  /\ UNCHANGED <<machine, devices, op, args, text, result, got, touched>>

OpenFails == pc = "open" /\ (~IndexOK \/ At(target) = NoDev) /\ Fail /\ UNCHANGED args

(* gpu_amdgpu_check, gpu_i915_check and gpu_is_nvidia, for the attributes   *)
(* of one driver.                                                           *)
RightDriver ==
  /\ attr \in {"profile", "rc6"} => kind[opened] # "other"
  /\ attr = "power_limit" => gpu_is_nvidia

Path ==
  CASE attr \in Battery -> nth_battery_name(target)
    [] attr = "cooling" -> zone_cdev_index(target)
    [] attr = "irq_affinity" -> net_irq_path(target)
    [] attr \in Hwmon -> HwmonOrNvml(target)
    [] attr = "power_limit" -> <<"nvml", target>>
    [] attr = "usb_reset" -> zenctl_usb_reset
    [] OTHER -> <<"name", target>>

Lookup ==
  /\ pc = "lookup" /\ IndexOK /\ RightDriver /\ Path # NotFound
  /\ found' = Path /\ pc' = IF op = "set" THEN "check" ELSE "read"
  /\ UNCHANGED <<machine, devices, op, args, opened, text, result, got, touched>>

LookupFails ==
  pc = "lookup" /\ (~IndexOK \/ ~RightDriver \/ Path = NotFound) /\ Fail /\ UNCHANGED args

(* The setter checks its argument, against the limits of the device where   *)
(* the kernel shows them, and makes the text.                               *)
Check ==
  /\ pc = "check" /\ Encode(attr, arg, Reached(found)) # Refused
  /\ text' = Encode(attr, arg, Reached(found)) /\ pc' = "write"
  /\ UNCHANGED <<machine, devices, op, args, opened, found, result, got, touched>>

CheckFails ==
  pc = "check" /\ Encode(attr, arg, Reached(found)) = Refused /\ Fail /\ UNCHANGED args

KernelTakes(d) == IF d = NoDev THEN {} ELSE Kernel(attr, kind[d], text, file[d])

Write ==
  LET d == Reached(found) IN
  /\ pc = "write"
  /\ \E t \in KernelTakes(d) : file' = [file EXCEPT ![d] = t]
  /\ touched' = touched \cup {d} /\ result' = "ok" /\ pc' = After
  /\ UNCHANGED <<machine, at, number, write_cache, moves, written_by, op, args, opened, found,
                 text, got>>

WriteFails ==
  pc = "write" /\ KernelTakes(Reached(found)) = {} /\ attr # "cache_type" /\ Fail /\ UNCHANGED args

(* zenctl_storage_set_cache_type writes queue/write_cache when the write of *)
(* cache_type failed, for whatever reason.                                  *)
FallBack ==
  /\ pc = "write" /\ KernelTakes(Reached(found)) = {} /\ attr = "cache_type"
  /\ pc' = "write2"
  /\ UNCHANGED <<machine, devices, op, args, opened, found, text, result, got, touched>>

Write2 ==
  LET d == Reached(found) IN
  /\ pc = "write2" /\ d # NoDev
  /\ write_cache' = [write_cache EXCEPT ![d] = WriteCache(text)]
  /\ touched' = touched \cup {d} /\ result' = "ok" /\ pc' = After
  /\ UNCHANGED <<machine, at, number, file, moves, written_by, op, args, opened, found, text, got>>

Write2Fails == pc = "write2" /\ Reached(found) = NoDev /\ Fail /\ UNCHANGED args

(* Reading back, by another command or on the same handle, which keeps the  *)
(* hwmon directory it found.                                                *)
Again(same) ==
  /\ pc = "between" /\ (same => opened # NoDev)
  /\ op' = "get" /\ pc' = IF same THEN "lookup" ELSE FirstStep
  /\ opened' = IF same THEN opened ELSE NoDev
  /\ found' = IF same /\ found[1] = "hwmon" THEN found ELSE NotFound
  /\ UNCHANGED <<machine, devices, args, text, result, got, touched>>

(* A disk without cache_type is read from queue/write_cache. *)
FileRead(d) == IF attr = "cache_type" /\ kind[d] = "nvme" THEN write_cache[d] ELSE file[d]

Read ==
  LET d == Reached(found) IN
  /\ pc = "read" /\ d # NoDev
  /\ got' = Decode(attr, FileRead(d)) /\ touched' = touched \cup {d} /\ pc' = "done"
  /\ UNCHANGED <<machine, devices, op, args, opened, found, text, result>>

(* The directory is there and the read fails: an NVIDIA card asks NVML. *)
HwmonGone == found[1] = "hwmon" /\ MayAskNvml

ReadNvml ==
  /\ pc = "read" /\ Reached(found) = NoDev /\ HwmonGone
  /\ found' = <<"nvml", target>>
  /\ UNCHANGED <<machine, devices, op, pc, args, opened, text, result, got, touched>>

ReadFails == pc = "read" /\ Reached(found) = NoDev /\ ~HwmonGone /\ Fail /\ UNCHANGED args

Next ==
  \/ \E s \in Typed(attr), n \in Asked(attr) : Start(s, n)
  \/ Open \/ OpenFails \/ Lookup \/ LookupFails \/ Check \/ CheckFails
  \/ Write \/ WriteFails \/ FallBack \/ Write2 \/ Write2Fails
  \/ \E same \in BOOLEAN : Again(same)
  \/ Read \/ ReadNvml \/ ReadFails
  \/ \E d \in Dev : OtherWrites(d)
  \/ \E n \in Name : Unplug(n)
  \/ \E d \in Dev, n \in Name, k \in 0..MaxNumber : Plug(d, n, k)

Spec == Init /\ [][Next]_vars

-----------------------------------------------------------------------------
(* The state is well formed: a device has a number exactly while it has a   *)
(* name, and whatever index was typed or cast, the library gets an int and  *)
(* no path is made of a negative one.                                       *)
TypeOK ==
  /\ attr \in Attr /\ kind \in [Dev -> Kinds(attr)]
  /\ at \in [Name -> Dev \cup {NoDev}] /\ number \in [Dev -> -1..MaxNumber]
  /\ \A d \in Dev : number[d] # -1 <=> d \in {at[n] : n \in Name}
  /\ moves \in 0..MaxMoves /\ written_by \subseteq Dev
  /\ op \in {"set", "get"}
  /\ pc \in {"start", "open", "lookup", "check", "write", "write2", "between", "read", "done"}
  /\ target \in (-IntMax - 1)..IntMax /\ {meant, opened} \subseteq Dev \cup {NoDev}
  /\ found[1] \in {"none", "name", "number", "hwmon", "nvml"}
  /\ found # NotFound => found[2] >= 0
  /\ result \in {"none", "ok", "error"} /\ touched \subseteq Dev

(* A set that reports success was given the number that was typed, however  *)
(* large, and the switch position that was typed.  Three commands cast      *)
(* without a check, and two take what strtol makes of a number beyond long: *)
(* there it holds for the numbers that fit.                                 *)
CastValue == {"autosuspend", "cooling", "vfs_cache_pressure"}
Unbounded == {"nr_hugepages", "read_ahead"}

TypedIsSet ==
  result = "ok" =>
    /\ (typed[1] = "num" /\ arg[1] = "num") =>
         \/ arg = typed
         \/ attr \in CastValue /\ typed[2] \notin (-IntMax - 1)..IntMax
         \/ attr \in Unbounded /\ typed[2] > LongMax
    /\ typed \in {Word("on"), Word("enabled"), Word("disable")} /\ arg[1] = "flag" => arg = Flag(TRUE)
    /\ typed \in {Word("off"), Word("enable")} => arg = Flag(FALSE)

(* A device that takes every number as written, and a disk whose cache mode *)
(* is where the getter looks.                                               *)
Exact(d) ==
  /\ kind[d] # "loose" /\ attr # "gpu_fan_pwm"
  /\ attr = "cache_type" => kind[d] = "scsi" \/ (kind[d] = "nvme" /\ arg # Num(3))

Undisturbed == moves = 0 /\ written_by = {} /\ target = asked

(* What the getter shows for v: the ASPM policy as the whole list. *)
Shown(a, v) == IF a = "aspm" THEN Marked(v[2]) ELSE IF a = "governor" THEN Folded(v) ELSE v

(* What a set that reports success wrote, a get shows, whatever forms the   *)
(* typed, the written and the read text have; and the readings of a card    *)
(* have their documented unit whether hwmon or NVML gave them.  A clock at  *)
(* or below 100000 kHz is the exception.                                    *)
ReadBack ==
  /\ (pc = "done" /\ op = "get" /\ result = "ok" /\ Undisturbed /\ Exact(meant)) => got = Shown(attr, arg)
  /\ got # Refused =>
       /\ attr = "gpu_temp" => got = Num(60000)
       /\ attr = "gpu_power" => got = Num(60000)
       /\ attr = "gpu_freq" => got = Num(300) \/ Num(60000) \in {file[d] : d \in touched}
       /\ attr = "gpu_fan_pwm" => got[2] \in 0..255

(* Saving a setting and setting it again changes nothing: the setter takes  *)
(* what the getter returns and leaves it as it was.  Lost are modes of a fan *)
(* beyond manual and automatic, the deep RC6 bits and the broken cache mode; *)
(* the ASPM getter returns what no setter takes.  An amdgpu card outside    *)
(* manual mode and a read-only RC6 file refuse every value, so nothing is   *)
(* written.  Out of reach are a card of another driver and a card without   *)
(* the hwmon file, where there is no setter; and a SCSI disk that takes no  *)
(* cache mode gets its queue/write_cache written instead, which differs.    *)
Lossy(t) ==
  \/ attr \in {"fan_auto", "gpu_fan_auto"} /\ t \in {Num(0), Num(3)}
  \/ attr = "rc6" /\ t = Num(3)
  \/ t = Word("daft")

NoSetter(k) == k \in {"other", "scsi_fixed"} \/ (attr \in Hwmon /\ k # "hwmon")

GetThenSet ==
  \A d \in Dev :
    LET v == Decode(attr, FileRead(d))
        t == Encode(attr, v, d)
    IN \/ attr \in ReadOnly \cup WriteOnly \cup {"aspm"}
       \/ NoSetter(kind[d]) \/ Lossy(file[d])
       \/ IF kind[d] \in {"auto", "ro"} THEN t = Refused
          ELSE /\ v # Refused /\ t # Refused
               /\ IF kind[d] = "nvme" THEN WriteCache(t) = write_cache[d]
                  ELSE file[d] \in Kernel(attr, kind[d], t, file[d])

(* Without hotplug, and for an index that an int holds, every call reaches  *)
(* the device the user meant.  For NVML it takes more: the cards it knows   *)
(* must be the first DRM cards, in bus order.                               *)
DrmIsNvml == \A i \in 0..(Cardinality(Nvidia) - 1) : i \in Name /\ at[i] = get_handle(i)

RightDevice ==
  (moves = 0 /\ target = asked /\ (meant # NoDev => kind[meant] \notin {"nvidia", "bare"} \/ DrmIsNvml))
    => touched \subseteq {meant}

-----------------------------------------------------------------------------
(* The inductive invariant.  No two devices share a name or a number. *)
Carried ==
  /\ \A m, n \in Name : at[m] = at[n] /\ at[m] # NoDev => m = n
  /\ \A c, d \in Dev : number[c] = number[d] /\ number[c] # -1 => c = d

(* Where the call is and what it has by then. *)
Progress ==
  /\ pc = "start" => /\ moves = 0 /\ op = "set" /\ result = "none" /\ touched = {}
                     /\ opened = NoDev /\ found = NotFound
  /\ pc # "start" => /\ typed \in Typed(attr) /\ arg = Parse(attr, typed) /\ asked \in Asked(attr)
                     /\ target \in Targets(attr, asked)
  /\ pc # "done" => got = Refused
  /\ pc \in {"check", "write", "write2", "between"} => op = "set"
  /\ pc = "read" => op = "get"
  /\ pc \in {"open", "lookup", "check", "write", "write2"} /\ op = "set" =>
       arg # Refused /\ result = "none" /\ attr \notin ReadOnly
  /\ result = "ok" => arg # Refused /\ attr \notin ReadOnly
  /\ pc = "between" \/ op = "get" => attr \notin WriteOnly
  /\ pc = "write2" => attr = "cache_type"
  /\ attr \in Unopened => opened = NoDev /\ pc # "open"
  /\ pc \in {"lookup", "check", "write", "write2", "read"} /\ attr \notin Unopened => opened # NoDev
  /\ pc \in {"check", "write", "write2", "read"} => RightDriver /\ found # NotFound

(* What a handle holds is a name, a number or an index. *)
FoundOK ==
  /\ found[1] = "none" => found = NotFound
  /\ found[1] \in {"hwmon", "nvml"} => found[2] = target
  /\ attr \in Hwmon => found[1] \in {"none", "hwmon", "nvml"}
  /\ attr \in Hwmon /\ found[1] = "nvml" => pc \in {"read", "done"}

(* The path that leads to the device while nothing moves, and the device. *)
Straight ==
  CASE attr \in Battery -> nth_battery_name(target)
    [] attr \in Numbered \cup {"usb_reset"} -> NumberAt(target)
    [] attr \in Hwmon -> IF gpu_find_hwmon(target) = NotFound THEN <<"nvml", target>>
                         ELSE gpu_find_hwmon(target)
    [] attr = "power_limit" -> <<"nvml", target>>
    [] OTHER -> <<"name", target>>
Site == Reached(Straight)

(* While nothing moves, what was opened and found is what is there now. *)
StillThere ==
  moves = 0 /\ pc # "start" =>
    /\ meant = Meant(asked)
    /\ opened # NoDev => opened = At(target)
    /\ \/ found \in {NotFound, Straight}
       \/ attr \in Hwmon /\ found = <<"nvml", target>> /\ Site = NoDev
    /\ found[1] = "nvml" => At(target) # NoDev /\ kind[At(target)] \in {"nvidia", "bare"}
    /\ pc = "write2" => Site = NoDev \/ kind[Site] # "scsi"

(* Attributes that hold a number from 0 to a limit. *)
IsNum(t, range) == t = Num(t[2]) /\ t[2] \in range
Long == {"nr_hugepages", "hugepages_size", "read_ahead"}
Counted == Long \cup Battery \cup {"vfs_cache_pressure", "mtu", "rps_min", "rps_max", "rps_boost",
                                   "swappiness", "overcommit", "fan_pwm"}
Top(a) ==
  CASE a \in Long -> LongMax
    [] a = "swappiness" -> 200
    [] a = "overcommit" -> 2
    [] a = "fan_pwm" -> 255
    [] a \in Battery -> 100
    [] OTHER -> IntMax

(* Text t can be in the file of a device of sort k: it was there, or a      *)
(* setter writes it and the kernel takes it.                                *)
Held(a, k, t) ==
  CASE a \in Counted -> IsNum(t, 0..Top(a))
    [] a = "queue_depth" -> IsNum(t, 1..IntMax)
    [] a = "autosuspend" -> IsNum(t, (-IntMax - 1)..IntMax)
    [] a = "power_limit" -> IsNum(t, 0..255)
    [] a = "gpu_fan_pwm" -> IF k = "hwmon" THEN IsNum(t, 0..255) ELSE t \in Contents(a, k)
    [] a = "cooling" -> IsNum(t, 0..MaxState(k))
    [] a = "governor" -> t \in Available(k)
    [] OTHER -> t \in Contents(a, k)

FilesOK ==
  /\ file = [d \in Dev |-> file[d]] /\ \A d \in Dev : Held(attr, kind[d], file[d])
  /\ write_cache \in [Dev -> {Word("write_back"), Word("write_through")}]

(* The text to write is what the setter made of its argument. *)
TextOK ==
  pc \in {"write", "write2"} /\ attr \notin WriteOnly =>
    text # Refused /\ \E d \in Dev \cup {NoDev} : text = Encode(attr, arg, d)

(* A set that reports success has got to the device, and what it wrote is   *)
(* there and reads as it was given.                                         *)
Kept ==
  result = "ok" /\ Undisturbed /\ attr \notin WriteOnly =>
    /\ meant # NoDev /\ Site # NoDev
    /\ attr \notin Battery => At(target) # NoDev
    /\ attr \in Hwmon => kind[At(target)] = "hwmon"
    /\ attr \in {"profile", "rc6"} => kind[At(target)] # "other"
    /\ attr = "power_limit" => kind[At(target)] \in {"nvidia", "bare"}
    /\ Exact(meant) => Decode(attr, FileRead(Site)) = Shown(attr, arg)

IInv ==
  TypeOK /\ Carried /\ Progress /\ FoundOK /\ StillThere /\ FilesOK /\ TextOK /\ Kept
    /\ ReadBack /\ RightDevice
=============================================================================
