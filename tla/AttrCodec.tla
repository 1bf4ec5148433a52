------------------------------ MODULE AttrCodec ------------------------------
(***************************************************************************)
(* The attributes that zenctl writes and reads as one kernel file each: how *)
(* the command line turns what the user typed into the argument of the      *)
(* library call, what text the library setter writes for that argument, and *)
(* what value the getter makes of the file's text.  Every operator has the  *)
(* name of the function whose conversion it is.                             *)
(***************************************************************************)
EXTENDS Integers

CONSTANTS
  IntMod,    \* 2^32, scaled down: int is -IntMod/2 .. IntMod/2 - 1
  LongMax    \* LONG_MAX, scaled down

ASSUME AttrCodecAssumption ==
  /\ IntMod \in Nat /\ IntMod % 2 = 0 /\ IntMod > 2 * 65536
  /\ LongMax \in Nat /\ LongMax > 2 * IntMod

(* Texts and values.  A marked list is a file such as "s2idle [deep]".      *)
Num(n) == <<"num", n>>
Word(w) == <<"word", w>>
Marked(w) == <<"marked", w>>
Flag(b) == <<"flag", b>>
Refused == <<"refused">>

IntMax == IntMod \div 2 - 1
Saturated(n) == IF n > LongMax THEN LongMax ELSE IF n < -LongMax THEN -LongMax ELSE n

Wrapped(n) == ((n + IntMod \div 2) % IntMod) - IntMod \div 2

Within(v, lo, hi) == IF v[1] = "num" /\ v[2] >= lo /\ v[2] <= hi THEN v ELSE Refused
OneOf(v, words) == IF v[1] = "word" /\ v[2] \in words THEN v ELSE Refused

(* The cast (int) of a value that was parsed as a long. *)
Cast(v) == IF v = Refused THEN v ELSE Num(Wrapped(v[2]))

(* strtol saturates, and its callers do not look at errno; cli_parse_int    *)
(* does.                                                                    *)
strtol(s) == IF s[1] = "num" THEN Num(Saturated(s[2])) ELSE Refused
cli_parse_int(s) == IF s[1] = "num" /\ Saturated(s[2]) = s[2] THEN s ELSE Refused

BoolOf(s, yes, no) ==
  IF OneOf(s, yes) # Refused THEN Flag(TRUE)
  ELSE IF OneOf(s, no) # Refused THEN Flag(FALSE) ELSE Refused

cli_parse_bool(s) ==
  IF s \in {Num(0), Num(1)} THEN Flag(s = Num(1))
  ELSE BoolOf(s, {"on", "enabled", "yes", "true"}, {"off", "disabled", "no", "false"})

(* The position of word w in an enumeration that names its members. *)
EnumOf(w, names) ==
  IF \E i \in DOMAIN names : names[i] = w
  THEN Num(CHOOSE i \in DOMAIN names : names[i] = w) ELSE Refused
NameOf(v, names) ==
  IF v[1] = "num" /\ v[2] \in DOMAIN names THEN Word(names[v[2]]) ELSE Refused
Text(v, yes, no) == IF v[2] THEN yes ELSE no

(* zenctl__read_file_i64, and the first word between brackets. *)
read_i64(t) == IF t[1] = "num" THEN t ELSE Refused
Active(t) == IF t[1] = "marked" THEN Word(t[2]) ELSE Refused

-----------------------------------------------------------------------------
(* Memory. *)
ThpName == <<"always", "madvise", "never">>

mem_set_hugepages(s) == Within(strtol(s), 0, LongMax)
zenctl_mem_set_nr_hugepages(v) == Within(v, 0, LongMax)
zenctl_mem_get_nr_hugepages(t) == read_i64(t)
zenctl_mem_set_nr_hugepages_size(v) == Within(v, 0, LongMax)
zenctl_mem_get_nr_hugepages_size(t) == read_i64(t)

mem_set_thp(s) == IF s[1] = "word" THEN EnumOf(s[2], ThpName) ELSE Refused
zenctl_mem_set_thp(v) == NameOf(v, ThpName)
zenctl_mem_get_thp(t) == IF Active(t) = Refused THEN Refused ELSE EnumOf(t[2], ThpName)

mem_set_swappiness(s) == Cast(Within(strtol(s), 0, 200))
zenctl_mem_set_swappiness(v) == Within(v, 0, 200)
zenctl_mem_get_swappiness(t) == Cast(read_i64(t))

mem_set_overcommit(s) == Cast(Within(strtol(s), 0, 2))
zenctl_mem_set_overcommit(v) == Within(v, 0, 2)
zenctl_mem_get_overcommit(t) == Cast(read_i64(t))

(* Only a profile sets it; load_memory_kv casts what it parsed. *)
load_vfs_cache_pressure(s) == Cast(cli_parse_int(s))
zenctl_mem_set_vfs_cache_pressure(v) == Within(v, 0, IntMax)
zenctl_mem_get_vfs_cache_pressure(t) == Cast(read_i64(t))

-----------------------------------------------------------------------------
(* Storage. *)
CacheName == <<"write_back", "write_through", "none">>

zenctl_storage_set_scheduler(v) == IF v[1] = "word" /\ v[2] # "two_words" THEN v ELSE Refused
zenctl_storage_get_scheduler(t) == Active(t)

zenctl_storage_set_queue_depth(v) == Within(v, 1, IntMax)
zenctl_storage_get_queue_depth(t) == Within(read_i64(t), 0, IntMax)

st_set_read_ahead(s) == Within(strtol(s), 0, LongMax)
zenctl_storage_set_read_ahead(v) == Within(v, 0, LongMax)
zenctl_storage_get_read_ahead(t) == read_i64(t)

(* The enumeration has a fourth member for FUA, which the command line does *)
(* not offer and which is written as plain write back.                      *)
cache_type_parse(s) == IF s[1] = "word" THEN EnumOf(s[2], CacheName) ELSE Refused
cache_type_to_str(v) == IF v = Num(4) THEN Word("write_back") ELSE NameOf(v, CacheName)
cache_str_to_type(t) == IF t = Word("daft") THEN Num(1) ELSE EnumOf(t[2], CacheName)

OnOrAuto(v) == OneOf(v, {"on", "auto"})
zenctl_storage_set_power_control(v) == OnOrAuto(v)
zenctl_storage_get_power_control(t) == t

-----------------------------------------------------------------------------
(* PCIe, USB and runtime power management.  The getter of the ASPM policy   *)
(* returns the marked list as it is.                                        *)
zenctl_pcie_set_aspm_policy(v) ==
  OneOf(v, {"default", "performance", "powersave", "powersupersave"})
zenctl_pcie_get_aspm_policy(t) == t

zenctl_pcie_set_power_control(v) == OnOrAuto(v)
zenctl_pcie_get_power_control(t) == t

zenctl_pcie_set_d3cold_allowed(v) == Num(Text(v, 1, 0))
zenctl_pcie_get_d3cold_allowed(t) == IF read_i64(t) = Refused THEN Refused ELSE Flag(t[2] # 0)

zenctl_usb_set_power_control(v) == OnOrAuto(v)
zenctl_usb_get_power_control(t) == t

usb_set_autosuspend(s) == Cast(cli_parse_int(s))
zenctl_usb_set_autosuspend_delay(v) == v
zenctl_usb_get_autosuspend_delay(t) == Cast(t)

zenctl_usb_set_authorized(v) == Num(Text(v, 1, 0))
zenctl_usb_get_authorized(t) == Flag(t[2] # 0)

zenctl_usb_set_wakeup(v) == Word(Text(v, "enabled", "disabled"))
zenctl_usb_get_wakeup(t) == Flag(t = Word("enabled"))

zenctl_power_set_runtime_pm(v) == OnOrAuto(v)
zenctl_power_get_runtime_pm(t) == t

-----------------------------------------------------------------------------
(* Power.  The parser of mem_sleep takes the first word of a list without   *)
(* brackets.                                                                *)
SleepName == <<"freeze", "mem", "disk", "standby">>

power_suspend(s) == IF s[1] = "word" THEN EnumOf(s[2], SleepName) ELSE Refused
sleep_state_name(v) == NameOf(v, SleepName)
zenctl_power_suspend(v, states) == OneOf(sleep_state_name(v), states)

zenctl_power_set_mem_sleep_mode(v) == v
zenctl_power_get_mem_sleep_mode(t) == Word(t[2])

power_set_charge(s) == Cast(Within(cli_parse_int(s), 0, 100))
zenctl_power_battery_set_charge_start(v) == Within(v, 0, 100)
zenctl_power_battery_get_charge_start(t) == Within(read_i64(t), 0, 100)
zenctl_power_battery_set_charge_end(v) == Within(v, 0, 100)
zenctl_power_battery_get_charge_end(t) == Within(read_i64(t), 0, 100)

-----------------------------------------------------------------------------
(* CPU.  Case does not count in the name of a governor; here "Powersave" is *)
(* the one name that differs from the kernel's spelling.                    *)
Folded(v) == IF v = Word("Powersave") THEN Word("powersave") ELSE v

zenctl_cpu_set_governor(v, available) == IF Folded(v) \in available THEN v ELSE Refused
zenctl_cpu_get_governor(t) == t

cpu_set_online(s) == BoolOf(s, {"on"}, {"off"})
zenctl_cpu_set_online(v) == Num(Text(v, 1, 0))
zenctl_cpu_get_online(t) == Flag(t = Num(1))

cpu_set_smt(s) == BoolOf(s, {"on"}, {"off"})
zenctl_cpu_set_smt_active(v) == Word(Text(v, "on", "off"))
zenctl_cpu_get_smt_active(t) == Flag(t = Num(1))

cpu_set_cstate(s) == BoolOf(s, {"disable"}, {"enable"})
zenctl_cpu_set_cstate_disable_inverted(v) == Num(Text(v, 0, 1))

zenctl_cpu_set_cstate_disable(v) == Num(Text(v, 1, 0))

zenctl_cpu_get_cstate_disable(t) == Flag(t = Num(1))

-----------------------------------------------------------------------------
(* Network.  The ethtool flags travel in an ioctl, as 0 or 1. *)
net_set_mtu(s) == Cast(Within(strtol(s), 68, 65536))
zenctl_net_set_mtu(v) == Within(v, 0, IntMax)
zenctl_net_get_mtu(t) == Within(read_i64(t), 0, IntMax)

parse_on_off(s) == BoolOf(s, {"on"}, {"off"})
net_set_flag(v) == Num(Text(v, 1, 0))
net_get_flag(t) == Flag(t[2] # 0)

zenctl_net_set_irq_affinity(v) == v
zenctl_net_get_irq_affinity(t) == t

-----------------------------------------------------------------------------
(* Thermal zones, cooling devices and hwmon fans. *)
zenctl_thermal_set_policy(v) == v
zenctl_thermal_get_policy(t) == t

zenctl_thermal_set_mode(v) == Word(Text(v, "enabled", "disabled"))
zenctl_thermal_get_mode(t) == Flag(t = Word("enabled"))

set_cooling(s) == Cast(cli_parse_int(s))
zenctl_thermal_set_cooling_state(v, max_state) == Within(v, 0, max_state)
zenctl_thermal_get_cooling(t) == Cast(read_i64(t))

thermal_hwmon_fan_unchecked(s) == Cast(cli_parse_int(s))

thermal_hwmon_fan(s) == Cast(Within(cli_parse_int(s), 0, 255))

zenctl_thermal_hwmon_set_fan_pwm(v) == Within(v, 0, 255)
zenctl_thermal_hwmon_get_fan_pwm(t) == Cast(read_i64(t))

zenctl_thermal_hwmon_set_fan_auto(v) == Num(Text(v, 2, 1))
zenctl_thermal_hwmon_get_fan_auto(t) == IF read_i64(t) = Refused THEN Refused ELSE Flag(t[2] >= 2)

-----------------------------------------------------------------------------
(* GPU.  NVML reports a fan in percent, and clocks, power and temperature   *)
(* in other units than hwmon.                                               *)
set_fan(s) == Cast(Within(cli_parse_int(s), 0, 255))
zenctl_gpu_set_fan_pwm(v) == Within(v, 0, 255)

zenctl_gpu_get_fan_pwm_unclamped(t) ==
  IF t[1] = "percent" THEN Num((t[2] * 255 + 50) \div 100) ELSE Cast(read_i64(t))

zenctl_gpu_get_fan_pwm(t) ==
  IF t[1] = "percent" THEN Num(((IF t[2] > 100 THEN 100 ELSE t[2]) * 255 + 50) \div 100)
  ELSE Cast(read_i64(t))

set_fan_auto(s) == IF s = Word("auto") THEN Flag(TRUE) ELSE Refused
zenctl_gpu_set_fan_auto(v) == Num(Text(v, 2, 1))
zenctl_gpu_get_fan_auto(t) == IF read_i64(t) = Refused THEN Refused ELSE Flag(t[2] >= 2)

(* The setter looks the profile's index up and writes that; the getter      *)
(* returns the name on the line with the star.                              *)
zenctl_gpu_amdgpu_set_power_profile(v, profiles) == EnumOf(v[2], profiles)
zenctl_gpu_amdgpu_get_power_profile(t) == Active(t)

zenctl_gpu_nvidia_set_power_limit(v) == Within(v, 0, IntMax)
zenctl_gpu_nvidia_get_power_limit(t) == Cast(t)

zenctl_gpu_i915_set_rc6(v) == Num(Text(v, 1, 0))
zenctl_gpu_i915_get_rc6(t) == IF read_i64(t) = Refused THEN Refused ELSE Flag(t[2] % 2 = 1)

zenctl_gpu_i915_set_rps_min(v) == Within(v, 0, IntMax)
zenctl_gpu_i915_get_rps_min(t) == Cast(read_i64(t))
zenctl_gpu_i915_set_rps_max(v) == Within(v, 0, IntMax)
zenctl_gpu_i915_get_rps_max(t) == Cast(read_i64(t))
zenctl_gpu_i915_set_rps_boost(v) == Within(v, 0, IntMax)
zenctl_gpu_i915_get_rps_boost(t) == Cast(read_i64(t))

nvml_get_temp(t) == Num(t[2] * 1000)
zenctl_gpu_get_temp(t) == IF t[1] = "celsius" THEN nvml_get_temp(t) ELSE read_i64(t)
nvml_get_power(t) == Num(t[2] * 1000)
zenctl_gpu_get_power(t) == IF t[1] = "milliwatt" THEN nvml_get_power(t) ELSE read_i64(t)
nvml_get_clock(t) == Num(t[2])
zenctl_gpu_get_freq(t) ==
  IF t[1] = "mhz" THEN nvml_get_clock(t)
  ELSE IF read_i64(t) # Refused /\ t[2] > 100000 THEN Num(t[2] \div 1000) ELSE read_i64(t)
=============================================================================
