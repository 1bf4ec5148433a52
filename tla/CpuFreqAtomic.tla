--------------------------- MODULE CpuFreqAtomic ---------------------------
(***************************************************************************)
(* What "zenctl cpu set freq-min|freq-max" promises its callers: for each   *)
(* CPU of its loop, one indivisible step that either moves the bound or,    *)
(* when the bound cannot be moved at that moment, counts a failure.         *)
(* CpuFreq, where the call is a check-then-act over four sysfs files, is    *)
(* shown to implement this module.                                          *)
(***************************************************************************)
EXTENDS Integers

CONSTANTS Proc, Cpu, NCpu, Policy, PolicyOf, HwMin, HwMax, CpuArg, Hz

VARIABLES
  scaling_min, scaling_max, cpufreq,
  pc,                                  \* "idle", "run" or "done"
  which, hz, cpu, end, failures

vars == <<scaling_min, scaling_max, cpufreq, pc, which, hz, cpu, end, failures>>

Init ==
  /\ scaling_min \in [Policy -> UNION {HwMin[k] .. HwMax[k] : k \in Policy}]
  /\ scaling_max \in [Policy -> UNION {HwMin[k] .. HwMax[k] : k \in Policy}]
  /\ \A k \in Policy : /\ HwMin[k] <= scaling_min[k]
                       /\ scaling_min[k] <= scaling_max[k]
                       /\ scaling_max[k] <= HwMax[k]
  /\ cpufreq = Cpu
  /\ pc = [p \in Proc |-> "idle"]
  /\ which = [p \in Proc |-> "min"]
  /\ hz = [p \in Proc |-> 0]
  /\ cpu = [p \in Proc |-> 0]
  /\ end = [p \in Proc |-> 0]
  /\ failures = [p \in Proc |-> 0]

(* A caller asks for a bound on one CPU or on as many as there are. *)
Start(p) ==
  /\ pc[p] = "idle"
  /\ \E w \in {"min", "max"}, h \in Hz,
        r \in {<<0, NCpu>>} \cup {<<n, n + 1>> : n \in CpuArg} :
       /\ which' = [which EXCEPT ![p] = w]
       /\ hz' = [hz EXCEPT ![p] = h]
       /\ cpu' = [cpu EXCEPT ![p] = r[1]]
       /\ end' = [end EXCEPT ![p] = r[2]]
  /\ failures' = [failures EXCEPT ![p] = 0]
  /\ pc' = [pc EXCEPT ![p] = "run"]
  /\ UNCHANGED <<scaling_min, scaling_max, cpufreq>>

(* Policy k can take v as its bound w now: inside the hardware range, and   *)
(* on the right side of the other bound.                                    *)
CanTake(k, w, v) ==
  /\ v \in HwMin[k] .. HwMax[k]
  /\ w = "min" => v <= scaling_max[k]
  /\ w = "max" => v >= scaling_min[k]

(* The call on the loop's current CPU would succeed now. *)
Settable(p) ==
  /\ cpu[p] \in Cpu \cap cpufreq
  /\ hz[p] >= 0
  /\ CanTake(PolicyOf[cpu[p]], which[p], hz[p] \div 1000)

(* The whole of zenctl_cpu_set_freq_min or _max, at one moment. *)
Set(p) ==
  /\ pc[p] = "run"
  /\ cpu[p] < end[p]
  /\ \/ /\ Settable(p)
        /\ \/ /\ which[p] = "min"
              /\ scaling_min' = [scaling_min EXCEPT ![PolicyOf[cpu[p]]] = hz[p] \div 1000]
              /\ UNCHANGED scaling_max
           \/ /\ which[p] = "max"
              /\ scaling_max' = [scaling_max EXCEPT ![PolicyOf[cpu[p]]] = hz[p] \div 1000]
              /\ UNCHANGED scaling_min
        /\ UNCHANGED failures
     \/ /\ ~Settable(p)
        /\ failures' = [failures EXCEPT ![p] = @ + 1]
        /\ UNCHANGED <<scaling_min, scaling_max>>
  /\ cpu' = [cpu EXCEPT ![p] = @ + 1]
  /\ UNCHANGED <<cpufreq, pc, which, hz, end>>

Finish(p) ==
  /\ pc[p] = "run"
  /\ cpu[p] >= end[p]
  /\ pc' = [pc EXCEPT ![p] = "done"]
  /\ UNCHANGED <<scaling_min, scaling_max, cpufreq, which, hz, cpu, end, failures>>

(* External: a cpufreq directory goes away or comes back. *)
Hotplug(c) ==
  /\ cpufreq' = IF c \in cpufreq THEN cpufreq \ {c} ELSE cpufreq \cup {c}
  /\ UNCHANGED <<scaling_min, scaling_max, pc, which, hz, cpu, end, failures>>

Next ==
  \/ \E p \in Proc : Start(p) \/ Set(p) \/ Finish(p)
  \/ \E c \in Cpu : Hotplug(c)

Spec == Init /\ [][Next]_vars
=============================================================================
