------------------------------ MODULE CpuFreq ------------------------------
(***************************************************************************)
(* "zenctl cpu set freq-min|freq-max HZ --cpu N|all" run by several        *)
(* processes at once.  cpu_set_freq (cli/cmd/cpu.c) walks the CPUs and     *)
(* calls zenctl_cpu_set_freq_min or _max (lib/cpu/cpu.c) on each of them.  *)
(* Those functions are a check-then-act over sysfs: they read the hardware *)
(* bounds, read the opposite scaling bound, and only then write.  Every    *)
(* sysfs access that another process can change is a step of its own.      *)
(*                                                                         *)
(* Several CPUs may share one cpufreq policy: cpuN/cpufreq then names the  *)
(* same pair of files, so scaling_min and scaling_max belong to policies.  *)
(***************************************************************************)
EXTENDS Integers, FiniteSets

CONSTANTS
  Proc,      \* the zenctl processes
  Cpu,       \* the N of the cpuN directories; there may be gaps
  Policy,    \* the cpufreq policies
  PolicyOf,  \* the policy behind cpuN/cpufreq
  HwMin,     \* cpuinfo_min_freq of a policy, in kHz
  HwMax,     \* cpuinfo_max_freq of a policy, in kHz
  CpuArg,    \* the N that callers give in --cpu N
  Hz         \* the frequencies callers ask for, in Hz

(* cmd_count_cpus: how many cpuN directories there are. *)
NCpu == Cardinality(Cpu)

ASSUME CpuFreqAssumption ==
  /\ Cpu \subseteq Nat
  /\ IsFiniteSet(Cpu)
  /\ Cpu # {}
  /\ PolicyOf \in [Cpu -> Policy]
  /\ HwMin \in [Policy -> Nat]
  /\ HwMax \in [Policy -> Nat]
  /\ \A k \in Policy : HwMin[k] <= HwMax[k]
  /\ CpuArg \subseteq Nat
  /\ Hz \subseteq Int

VARIABLES
  scaling_min,  \* scaling_min_freq of each policy, in kHz
  scaling_max,  \* scaling_max_freq of each policy, in kHz
  cpufreq,      \* CPUs whose cpufreq directory can be read and written
  pc,           \* where each process is
  which,        \* "min" or "max": the bound the process sets
  hz,           \* the frequency it was asked for
  first,        \* first CPU of the loop
  cpu,          \* the loop variable c
  end,          \* the CPU the loop stops before
  failures,     \* the loop's failure count; the exit status is failures = 0
  disturbed     \* history: policies other processes wrote since this one began

shared == <<scaling_min, scaling_max, cpufreq>>
request == <<which, hz, first, end>>
vars == <<scaling_min, scaling_max, cpufreq, pc, which, hz, first, cpu, end,
          failures, disturbed>>

TypeOK ==
  /\ scaling_min \in [Policy -> Nat]
  /\ scaling_max \in [Policy -> Nat]
  /\ cpufreq \in SUBSET Cpu
  /\ pc \in [Proc -> {"idle", "open", "range", "other", "write", "done"}]
  /\ which \in [Proc -> {"min", "max"}]
  /\ hz \in [Proc -> Int]
  /\ first \in [Proc -> Nat]
  /\ cpu \in [Proc -> Nat]
  /\ end \in [Proc -> Nat]
  /\ failures \in [Proc -> Nat]
  /\ disturbed \in [Proc -> SUBSET Policy]

-----------------------------------------------------------------------------
(* Hz at the API, kHz at the kernel: the C division of a non-negative hz.   *)
Khz(h) == h \div 1000

(* The range check against cpuinfo_min_freq and cpuinfo_max_freq. *)
InHwRange_nolow(k, khz) == khz <= HwMax[k]

InHwRange(k, khz) == khz >= HwMin[k] /\ khz <= HwMax[k]

(* The check against the opposite scaling bound of policy k. *)
BelowOther_off(k, w, khz) ==
  IF w = "min" THEN khz <= scaling_max[k] + 1 ELSE khz >= scaling_min[k]

BelowOther_strict(k, w, khz) ==
  IF w = "min" THEN khz < scaling_max[k] ELSE khz >= scaling_min[k]

BelowOther(k, w, khz) ==
  IF w = "min" THEN khz <= scaling_max[k] ELSE khz >= scaling_min[k]

(* External: the kernel refuses (EINVAL) a write that would put the minimum *)
(* above the maximum.                                                       *)
KernelAccepts(k, w, khz) ==
  IF w = "min" THEN khz <= scaling_max[k] ELSE khz >= scaling_min[k]

(* Whatever the processes ask for and however they interleave, the two      *)
(* bounds of a policy stay in order and inside what cpuinfo_min_freq and    *)
(* cpuinfo_max_freq allow: DESIGN.md's "all numeric writes are range-checked *)
(* against kernel-reported min/max before writing".                         *)
BoundsSound ==
  \A k \in Policy :
    /\ HwMin[k] <= scaling_min[k]
    /\ scaling_min[k] <= scaling_max[k]
    /\ scaling_max[k] <= HwMax[k]

-----------------------------------------------------------------------------
Init ==
  /\ scaling_min \in [Policy -> UNION {HwMin[k] .. HwMax[k] : k \in Policy}]
  /\ scaling_max \in [Policy -> UNION {HwMin[k] .. HwMax[k] : k \in Policy}]
  /\ BoundsSound
  /\ cpufreq = Cpu
  /\ pc = [p \in Proc |-> "idle"]
  /\ which = [p \in Proc |-> "min"]
  /\ hz = [p \in Proc |-> 0]
  /\ first = [p \in Proc |-> 0]
  /\ cpu = [p \in Proc |-> 0]
  /\ end = [p \in Proc |-> 0]
  /\ failures = [p \in Proc |-> 0]
  /\ disturbed = [p \in Proc |-> {}]

(* cpu_set_freq up to its loop.  --cpu N gives the range N..N, whether cpuN *)
(* exists or not; --cpu all (or no --cpu) gives 0..NCpu-1.                  *)
Start(p) ==
  /\ pc[p] = "idle"
  /\ \E w \in {"min", "max"}, h \in Hz, r \in {<<0, NCpu>>} \cup {<<n, n + 1>> : n \in CpuArg} :
       /\ which' = [which EXCEPT ![p] = w]
       /\ hz' = [hz EXCEPT ![p] = h]
       /\ first' = [first EXCEPT ![p] = r[1]]
       /\ cpu' = [cpu EXCEPT ![p] = r[1]]
       /\ end' = [end EXCEPT ![p] = r[2]]
  /\ failures' = [failures EXCEPT ![p] = 0]
  /\ disturbed' = [disturbed EXCEPT ![p] = {}]
  /\ pc' = [pc EXCEPT ![p] = "open"]
  /\ UNCHANGED shared

(* The library call on this CPU failed: the loop counts it and goes on. *)
Fail_uncounted(p) ==
  /\ cpu' = [cpu EXCEPT ![p] = @ + 1]
  /\ pc' = [pc EXCEPT ![p] = "open"]
  /\ UNCHANGED failures

Fail_decrement(p) ==
  /\ failures' = [failures EXCEPT ![p] = @ - 1]
  /\ cpu' = [cpu EXCEPT ![p] = @ + 1]
  /\ pc' = [pc EXCEPT ![p] = "open"]

Fail(p) ==
  /\ failures' = [failures EXCEPT ![p] = @ + 1]
  /\ cpu' = [cpu EXCEPT ![p] = @ + 1]
  /\ pc' = [pc EXCEPT ![p] = "open"]

(* The loop head: zenctl_cpu_open fails on a CPU with no directory. *)
Open(p) ==
  /\ pc[p] = "open"
  /\ cpu[p] < end[p]
  /\ \/ /\ cpu[p] \in Cpu
        /\ pc' = [pc EXCEPT ![p] = "range"]
        /\ UNCHANGED <<cpu, failures>>
     \/ /\ cpu[p] \notin Cpu
        /\ Fail(p)
  /\ UNCHANGED <<shared, request, disturbed>>

Finish(p) ==
  /\ pc[p] = "open"
  /\ cpu[p] >= end[p]
  /\ pc' = [pc EXCEPT ![p] = "done"]
  /\ UNCHANGED <<shared, request, cpu, failures, disturbed>>

(* hz < 0 is EINVAL; an unreadable cpuinfo file ends the call; a frequency  *)
(* outside the hardware range is ERANGE.                                    *)
RangeCheck(p) ==
  /\ pc[p] = "range"
  /\ IF hz[p] >= 0 /\ cpu[p] \in cpufreq /\ InHwRange(PolicyOf[cpu[p]], Khz(hz[p]))
     THEN pc' = [pc EXCEPT ![p] = "other"] /\ UNCHANGED <<cpu, failures>>
     ELSE Fail(p)
  /\ UNCHANGED <<shared, request, disturbed>>

(* Read the opposite bound, compare, and keep only the verdict. *)
ReadOther(p) ==
  /\ pc[p] = "other"
  /\ IF cpu[p] \in cpufreq /\ BelowOther(PolicyOf[cpu[p]], which[p], Khz(hz[p]))
     THEN pc' = [pc EXCEPT ![p] = "write"] /\ UNCHANGED <<cpu, failures>>
     ELSE Fail(p)
  /\ UNCHANGED <<shared, request, disturbed>>

(* zenctl__write_file_i64 on the bound itself. *)
Write(p) ==
  LET k == PolicyOf[cpu[p]]
      v == Khz(hz[p])
  IN /\ pc[p] = "write"
     /\ \/ /\ cpu[p] \in cpufreq
           /\ KernelAccepts(k, which[p], v)
           /\ IF which[p] = "min"
              THEN scaling_min' = [scaling_min EXCEPT ![k] = v] /\ UNCHANGED scaling_max
              ELSE scaling_max' = [scaling_max EXCEPT ![k] = v] /\ UNCHANGED scaling_min
           /\ disturbed' = [q \in Proc |-> IF q = p THEN disturbed[q]
                                                    ELSE disturbed[q] \cup {k}]
           /\ cpu' = [cpu EXCEPT ![p] = @ + 1]
           /\ pc' = [pc EXCEPT ![p] = "open"]
           /\ UNCHANGED failures
        \/ /\ cpu[p] \notin cpufreq \/ ~KernelAccepts(k, which[p], v)
           /\ Fail(p)
           /\ UNCHANGED <<scaling_min, scaling_max, disturbed>>
     /\ UNCHANGED <<cpufreq, request>>

(* External: a CPU's cpufreq directory goes away (the CPU is taken offline, *)
(* the driver is unloaded) or comes back.                                   *)
Hotplug(c) ==
  /\ cpufreq' = IF c \in cpufreq THEN cpufreq \ {c} ELSE cpufreq \cup {c}
  /\ UNCHANGED <<scaling_min, scaling_max, pc, request, cpu, failures, disturbed>>

Step(p) == Open(p) \/ RangeCheck(p) \/ ReadOther(p) \/ Write(p) \/ Finish(p)

Next ==
  \/ \E p \in Proc : Start(p) \/ Step(p)
  \/ \E c \in Cpu : Hotplug(c)

Spec == Init /\ [][Next]_vars

-----------------------------------------------------------------------------
Target(p) == PolicyOf[cpu[p]]

BoundOf(k, w) == IF w = "min" THEN scaling_min[k] ELSE scaling_max[k]

(* set_freq_min and set_freq_max compare with the opposite bound so that    *)
(* the kernel does not answer EINVAL.  The comparison is stale by the time  *)
(* of the write, but only another process's write to the same policy can    *)
(* make the kernel refuse: a process alone is never refused.                *)
RefusedOnlyIfDisturbed ==
  \A p \in Proc :
    /\ pc[p] = "write"
    /\ Target(p) \notin disturbed[p]
    => KernelAccepts(Target(p), which[p], Khz(hz[p]))

(* Exit status 0 of cpu_set_freq is truthful for every CPU of the loop:     *)
(* once it has gone through with no failure, each CPU's policy has the      *)
(* frequency asked for, unless another process has written that policy.     *)
SuccessMeansSet ==
  \A p \in Proc :
    pc[p] = "done" /\ failures[p] = 0 =>
      \A c \in first[p] .. end[p] - 1 :
        /\ c \in Cpu
        /\ \/ PolicyOf[c] \in disturbed[p]
           \/ BoundOf(PolicyOf[c], which[p]) = Khz(hz[p])

(* cpu_set_freq counts the cpuN directories and walks 0..count-1, which is  *)
(* not the set of CPUs when their numbers have gaps.  Even so, exit status  *)
(* 0 of --cpu all means that every CPU there is has been set: a gap makes   *)
(* the loop fail on the missing number.                                     *)
AllMeansEveryCpu ==
  \A p \in Proc :
    pc[p] = "done" /\ failures[p] = 0 /\ first[p] = 0 /\ end[p] = NCpu =>
      \A c \in Cpu :
        \/ PolicyOf[c] \in disturbed[p]
        \/ BoundOf(PolicyOf[c], which[p]) = Khz(hz[p])

-----------------------------------------------------------------------------
(* A process inside a library call is, to its caller, still in the loop. *)
pcBar == [p \in Proc |-> IF pc[p] \in {"open", "range", "other", "write"}
                         THEN "run" ELSE pc[p]]

Atomic == INSTANCE CpuFreqAtomic WITH pc <- pcBar

(* The check-then-act of set_freq_min and set_freq_max is linearizable:     *)
(* a call that succeeds acts as if it had checked and written at the moment *)
(* of its write, and a call that fails was impossible at the moment it      *)
(* failed, whatever the other processes did in between.                     *)
ImplementsAtomic == Atomic!Spec

-----------------------------------------------------------------------------
(* The inductive strengthening: where a process may stand, and what it has  *)
(* established by the time it stands there.                                 *)
AtCpu ==
  \A p \in Proc :
    /\ pc[p] \in {"range", "other", "write"} => cpu[p] \in Cpu /\ cpu[p] < end[p]
    /\ pc[p] \in {"other", "write"} =>
         hz[p] >= 0 /\ InHwRange(PolicyOf[cpu[p]], Khz(hz[p]))
    /\ pc[p] = "done" => cpu[p] >= end[p]

(* The prefix of the loop already walked, with no failure so far, is set. *)
WalkedAreSet ==
  \A p \in Proc :
    pc[p] # "idle" /\ failures[p] = 0 =>
      \A c \in first[p] .. cpu[p] - 1 :
        /\ c \in Cpu
        /\ \/ PolicyOf[c] \in disturbed[p]
           \/ BoundOf(PolicyOf[c], which[p]) = Khz(hz[p])

IInv == TypeOK /\ BoundsSound /\ AtCpu /\ RefusedOnlyIfDisturbed /\ WalkedAreSet
=============================================================================
