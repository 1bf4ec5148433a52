--------------------------- MODULE CpuFreqProofs ---------------------------
(***************************************************************************)
(* Proofs about CpuFreq for every number of processes, every set of CPUs    *)
(* and policies and every set of requested frequencies.                     *)
(***************************************************************************)
EXTENDS CpuFreq, FiniteSetTheorems, TLAPS

(* The conversion to kHz of a frequency that set_freq_min or set_freq_max   *)
(* let through is a natural number.                                         *)
LEMMA KhzType == \A h \in Int : h >= 0 => Khz(h) \in Nat
BY DEF Khz

(* The loop bounds are natural numbers: cmd_count_cpus counts a finite set. *)
LEMMA NCpuType == NCpu \in Nat
BY CpuFreqAssumption, FS_CardinalityType DEF NCpu

(* Exit status 0 of --cpu all covers every CPU there is, by counting: when  *)
(* every index below the number of cpuN directories is a directory, there   *)
(* is no directory left outside.                                            *)
LEMMA NoGap ==
  ASSUME \A c \in 0 .. NCpu - 1 : c \in Cpu
  PROVE  Cpu = 0 .. NCpu - 1
<1>1. NCpu \in Nat /\ IsFiniteSet(Cpu)
  BY NCpuType, CpuFreqAssumption
<1>2. IsFiniteSet(0 .. NCpu - 1) /\ Cardinality(0 .. NCpu - 1) = NCpu
  <2>1. 0 \in Int /\ NCpu - 1 \in Int
    BY <1>1
  <2>2. Cardinality(0 .. NCpu - 1) = IF 0 > NCpu - 1 THEN 0 ELSE NCpu - 1 - 0 + 1
    BY <2>1, FS_Interval
  <2> QED BY <1>1, <2>1, <2>2, FS_Interval
<1>3. 0 .. NCpu - 1 \subseteq Cpu
  OBVIOUS
<1> QED BY <1>1, <1>2, <1>3, FS_Subset DEF NCpu

(* The inductive invariant holds of every sound state of the policies. *)
LEMMA InitIInv == Init => IInv
<1> SUFFICES ASSUME Init PROVE IInv
  OBVIOUS
<1> USE CpuFreqAssumption DEF Init
<1>1. TypeOK
  <2>1. UNION {HwMin[k] .. HwMax[k] : k \in Policy} \subseteq Nat
    OBVIOUS
  <2> QED BY <2>1 DEF TypeOK
<1>2. AtCpu /\ RefusedOnlyIfDisturbed /\ WalkedAreSet
  BY DEF AtCpu, RefusedOnlyIfDisturbed, WalkedAreSet
<1> QED BY <1>1, <1>2 DEF IInv

(* A new command disturbs no other process. *)
LEMMA StartStep ==
  ASSUME IInv, NEW p \in Proc, Start(p)
  PROVE  IInv'
<1> USE CpuFreqAssumption, NCpuType DEF IInv
<1>0. PICK w \in {"min", "max"}, h \in Hz,
           r \in {<<0, NCpu>>} \cup {<<n, n + 1>> : n \in CpuArg} :
        /\ which' = [which EXCEPT ![p] = w]
        /\ hz' = [hz EXCEPT ![p] = h]
        /\ first' = [first EXCEPT ![p] = r[1]]
        /\ cpu' = [cpu EXCEPT ![p] = r[1]]
        /\ end' = [end EXCEPT ![p] = r[2]]
  BY DEF Start
<1>1. r[1] \in Nat /\ r[2] \in Nat /\ h \in Int
  OBVIOUS
<1>2. TypeOK'
  BY <1>0, <1>1 DEF Start, TypeOK, shared
<1>3. BoundsSound'
  BY DEF Start, BoundsSound, shared
<1>4. AtCpu'
  BY <1>0 DEF Start, AtCpu, TypeOK, InHwRange
<1>5. RefusedOnlyIfDisturbed'
  BY <1>0 DEF Start, RefusedOnlyIfDisturbed, TypeOK, KernelAccepts, Target, shared
<1>6. WalkedAreSet'
  <2> SUFFICES ASSUME NEW q \in Proc, pc'[q] # "idle", failures'[q] = 0,
                      NEW c \in first'[q] .. cpu'[q] - 1
               PROVE  /\ c \in Cpu
                      /\ \/ PolicyOf[c] \in disturbed'[q]
                         \/ BoundOf(PolicyOf[c], which[q])' = Khz(hz'[q])
    BY DEF WalkedAreSet
  <2>1. CASE q = p
    BY <1>0, <1>1, <2>1 DEF TypeOK
  <2>2. CASE q # p
    BY <1>0, <2>2 DEF Start, WalkedAreSet, TypeOK, BoundOf, shared
  <2> QED BY <2>1, <2>2
<1> QED BY <1>2, <1>3, <1>4, <1>5, <1>6

(* A call that fails extends the walked prefix, but counts the failure. *)
LEMMA FailStep ==
  ASSUME IInv, NEW p \in Proc, Fail(p), pc[p] # "idle",
         UNCHANGED <<shared, request, disturbed>>
  PROVE  IInv'
<1> USE CpuFreqAssumption DEF IInv, Fail, shared, request
<1>1. TypeOK'
  BY DEF TypeOK
<1>2. BoundsSound'
  BY DEF BoundsSound
<1>3. AtCpu'
  BY DEF AtCpu, TypeOK, InHwRange
<1>4. RefusedOnlyIfDisturbed'
  BY DEF RefusedOnlyIfDisturbed, TypeOK, KernelAccepts, Target
<1>5. WalkedAreSet'
  BY DEF WalkedAreSet, TypeOK, BoundOf
<1> QED BY <1>1, <1>2, <1>3, <1>4, <1>5

(* A call that goes on to its next check, or the end of the loop. *)
LEMMA AdvanceStep ==
  ASSUME IInv, NEW p \in Proc, pc[p] # "idle",
         NEW l \in {"range", "other", "write", "done"},
         pc' = [pc EXCEPT ![p] = l],
         UNCHANGED <<shared, request, cpu, failures, disturbed>>,
         l \in {"range", "other", "write"} => cpu[p] \in Cpu /\ cpu[p] < end[p],
         l \in {"other", "write"} =>
           hz[p] >= 0 /\ InHwRange(PolicyOf[cpu[p]], Khz(hz[p])),
         l = "write" => KernelAccepts(Target(p), which[p], Khz(hz[p])),
         l = "done" => cpu[p] >= end[p]
  PROVE  IInv'
<1> USE CpuFreqAssumption DEF IInv, shared, request
<1>1. TypeOK'
  BY DEF TypeOK
<1>2. BoundsSound'
  BY DEF BoundsSound
<1>3. AtCpu'
  BY DEF AtCpu, TypeOK, InHwRange
<1>4. RefusedOnlyIfDisturbed'
  BY DEF RefusedOnlyIfDisturbed, TypeOK, KernelAccepts, Target
<1>5. WalkedAreSet'
  BY DEF WalkedAreSet, TypeOK, BoundOf
<1> QED BY <1>1, <1>2, <1>3, <1>4, <1>5

(* The write that the kernel accepts. *)
LEMMA AcceptedWrite ==
  ASSUME IInv, NEW p \in Proc, pc[p] = "write",
         NEW k \in Policy, k = PolicyOf[cpu[p]],
         NEW v \in Nat, v = Khz(hz[p]),
         KernelAccepts(k, which[p], v),
         IF which[p] = "min"
         THEN scaling_min' = [scaling_min EXCEPT ![k] = v] /\ UNCHANGED scaling_max
         ELSE scaling_max' = [scaling_max EXCEPT ![k] = v] /\ UNCHANGED scaling_min,
         disturbed' = [q \in Proc |-> IF q = p THEN disturbed[q]
                                               ELSE disturbed[q] \cup {k}],
         cpu' = [cpu EXCEPT ![p] = @ + 1],
         pc' = [pc EXCEPT ![p] = "open"],
         UNCHANGED <<failures, cpufreq, request>>
  PROVE  IInv'
<1> USE CpuFreqAssumption DEF IInv, request
<1>0. /\ TypeOK
      /\ cpu[p] \in Cpu /\ cpu[p] \in Nat
      /\ InHwRange(k, v)
  BY DEF AtCpu, TypeOK
<1>1. TypeOK'
  BY <1>0 DEF TypeOK
<1>2. BoundsSound'
  BY <1>0 DEF BoundsSound, InHwRange, KernelAccepts, TypeOK
<1>3. AtCpu'
  BY <1>0 DEF AtCpu, TypeOK, InHwRange
<1>a. \A j \in Policy : j # k =>
        scaling_min'[j] = scaling_min[j] /\ scaling_max'[j] = scaling_max[j]
  BY <1>0 DEF TypeOK
<1>4. RefusedOnlyIfDisturbed'
  <2> SUFFICES ASSUME NEW q \in Proc, pc'[q] = "write", Target(q)' \notin disturbed'[q]
               PROVE  KernelAccepts(Target(q), which[q], Khz(hz[q]))'
    BY DEF RefusedOnlyIfDisturbed
  <2>1. q # p /\ pc[q] = "write" /\ cpu'[q] = cpu[q]
    BY <1>0 DEF TypeOK
  <2>2. Target(q)' = Target(q) /\ Target(q) \in Policy
    BY <1>0, <2>1 DEF Target, AtCpu
  <2>3. Target(q) # k /\ Target(q) \notin disturbed[q]
    BY <2>1, <2>2 DEF TypeOK
  <2> QED BY <1>a, <2>1, <2>2, <2>3 DEF RefusedOnlyIfDisturbed, KernelAccepts
<1>5. WalkedAreSet'
  <2> SUFFICES ASSUME NEW q \in Proc, pc'[q] # "idle", failures'[q] = 0,
                      NEW c \in first'[q] .. cpu'[q] - 1
               PROVE  /\ c \in Cpu
                      /\ \/ PolicyOf[c] \in disturbed'[q]
                         \/ BoundOf(PolicyOf[c], which[q])' = Khz(hz'[q])
    BY DEF WalkedAreSet
  <2>0. which'[q] = which[q] /\ hz'[q] = hz[q] /\ first'[q] = first[q]
        /\ pc[q] # "idle" /\ failures[q] = 0
    BY <1>0 DEF TypeOK
  <2>a. BoundOf(k, which[p])' = v
    BY <1>0 DEF BoundOf, TypeOK
  <2>1. CASE q = p
    <3>1. CASE c = cpu[p]
      BY <1>0, <2>0, <2>a, <2>1, <3>1
    <3>2. CASE c # cpu[p]
      <4>1. c \in first[p] .. cpu[p] - 1
        BY <1>0, <2>0, <2>1, <3>2 DEF TypeOK
      <4>2. c \in Cpu /\ (PolicyOf[c] \in disturbed[p] \/ BoundOf(PolicyOf[c], which[p]) = v)
        BY <2>0, <2>1, <4>1 DEF WalkedAreSet
      <4>3. CASE PolicyOf[c] = k
        BY <2>0, <2>a, <2>1, <4>2, <4>3
      <4>4. CASE PolicyOf[c] # k
        BY <1>a, <2>0, <2>1, <4>2, <4>4 DEF BoundOf
      <4> QED BY <4>3, <4>4
    <3> QED BY <3>1, <3>2
  <2>2. CASE q # p
    <3>1. c \in first[q] .. cpu[q] - 1
      BY <1>0, <2>0, <2>2 DEF TypeOK
    <3>2. c \in Cpu /\ (PolicyOf[c] \in disturbed[q] \/ BoundOf(PolicyOf[c], which[q]) = Khz(hz[q]))
      BY <2>0, <3>1 DEF WalkedAreSet
    <3>3. CASE PolicyOf[c] = k
      BY <2>2, <3>2, <3>3
    <3>4. CASE PolicyOf[c] # k
      BY <1>a, <2>0, <2>2, <3>2, <3>4 DEF BoundOf
    <3> QED BY <3>3, <3>4
  <2> QED BY <2>1, <2>2
<1> QED BY <1>1, <1>2, <1>3, <1>4, <1>5

(* Every action preserves the inductive invariant. *)
LEMMA NextIInv == IInv /\ [Next]_vars => IInv'
<1> SUFFICES ASSUME IInv, [Next]_vars PROVE IInv'
  OBVIOUS
<1>0. TypeOK /\ AtCpu
  BY DEF IInv
<1>1. ASSUME NEW p \in Proc, Start(p) PROVE IInv'
  BY <1>1, StartStep
<1>2. ASSUME NEW p \in Proc, Open(p) PROVE IInv'
  <2>1. CASE cpu[p] \in Cpu
    BY <1>0, <1>2, <2>1, AdvanceStep DEF Open, Fail
  <2>2. CASE cpu[p] \notin Cpu
    BY <1>2, <2>2, FailStep DEF Open
  <2> QED BY <2>1, <2>2
<1>3. ASSUME NEW p \in Proc, RangeCheck(p) PROVE IInv'
  <2>1. CASE hz[p] >= 0 /\ cpu[p] \in cpufreq /\ InHwRange(PolicyOf[cpu[p]], Khz(hz[p]))
    <3>1. cpu[p] \in Cpu /\ cpu[p] < end[p]
      BY <1>0, <1>3 DEF RangeCheck, AtCpu
    <3> QED BY <1>3, <2>1, <3>1, AdvanceStep DEF RangeCheck
  <2>2. CASE ~(hz[p] >= 0 /\ cpu[p] \in cpufreq /\ InHwRange(PolicyOf[cpu[p]], Khz(hz[p])))
    BY <1>3, <2>2, FailStep DEF RangeCheck
  <2> QED BY <2>1, <2>2
<1>4. ASSUME NEW p \in Proc, ReadOther(p) PROVE IInv'
  <2>1. CASE cpu[p] \in cpufreq /\ BelowOther(PolicyOf[cpu[p]], which[p], Khz(hz[p]))
    <3>1. /\ cpu[p] \in Cpu /\ cpu[p] < end[p]
          /\ hz[p] >= 0 /\ InHwRange(PolicyOf[cpu[p]], Khz(hz[p]))
      BY <1>0, <1>4 DEF ReadOther, AtCpu
    <3>2. KernelAccepts(Target(p), which[p], Khz(hz[p]))
      BY <2>1 DEF BelowOther, KernelAccepts, Target
    <3> QED BY <1>4, <2>1, <3>1, <3>2, AdvanceStep DEF ReadOther
  <2>2. CASE ~(cpu[p] \in cpufreq /\ BelowOther(PolicyOf[cpu[p]], which[p], Khz(hz[p])))
    BY <1>4, <2>2, FailStep DEF ReadOther
  <2> QED BY <2>1, <2>2
<1>5. ASSUME NEW p \in Proc, Write(p) PROVE IInv'
  <2>1. /\ cpu[p] \in Cpu /\ PolicyOf[cpu[p]] \in Policy
        /\ hz[p] \in Int /\ hz[p] >= 0
    BY <1>0, <1>5, CpuFreqAssumption DEF Write, AtCpu, TypeOK
  <2>2. Khz(hz[p]) \in Nat
    BY <2>1, KhzType
  <2>3. CASE cpu[p] \in cpufreq /\ KernelAccepts(PolicyOf[cpu[p]], which[p], Khz(hz[p]))
    BY <1>5, <2>1, <2>2, <2>3, AcceptedWrite DEF Write
  <2>4. CASE ~(cpu[p] \in cpufreq /\ KernelAccepts(PolicyOf[cpu[p]], which[p], Khz(hz[p])))
    BY <1>5, <2>4, FailStep DEF Write, shared
  <2> QED BY <2>3, <2>4
<1>6. ASSUME NEW p \in Proc, Finish(p) PROVE IInv'
  BY <1>6, AdvanceStep DEF Finish
<1>7. ASSUME NEW c \in Cpu, Hotplug(c) PROVE IInv'
  <2> USE <1>7 DEF Hotplug, request, IInv
  <2>1. TypeOK'
    BY DEF TypeOK
  <2>2. BoundsSound' /\ AtCpu' /\ RefusedOnlyIfDisturbed' /\ WalkedAreSet'
    BY DEF BoundsSound, AtCpu, RefusedOnlyIfDisturbed, WalkedAreSet, InHwRange,
           KernelAccepts, Target, BoundOf
  <2> QED BY <2>1, <2>2
<1>8. CASE UNCHANGED vars
  BY <1>8 DEF vars, IInv, TypeOK, BoundsSound, AtCpu, RefusedOnlyIfDisturbed, WalkedAreSet,
              InHwRange, KernelAccepts, Target, BoundOf
<1> QED BY <1>1, <1>2, <1>3, <1>4, <1>5, <1>6, <1>7, <1>8 DEF Next, Step

(* IInv is an inductive invariant of "zenctl cpu set freq-min|freq-max".    *)
THEOREM InductiveInvariant == Spec => []IInv
BY InitIInv, NextIInv, PTL DEF Spec

(* Every variable keeps its type: a failure count never goes below zero and *)
(* a scaling bound never becomes a negative number of kHz.                  *)
THEOREM TypeCorrect == Spec => []TypeOK
BY InductiveInvariant, PTL DEF IInv

(* However many processes run and whatever they ask for, every policy keeps *)
(* hw min <= scaling_min <= scaling_max <= hw max.                          *)
THEOREM BoundsAlwaysSound == Spec => []BoundsSound
BY InductiveInvariant, PTL DEF IInv

(* set_freq_min and set_freq_max are refused by the kernel only when        *)
(* another process has written the policy meanwhile.                        *)
THEOREM RefusalNeedsInterference == Spec => []RefusedOnlyIfDisturbed
BY InductiveInvariant, PTL DEF IInv

(* Exit status 0 of cpu_set_freq is truthful for every CPU of its loop. *)
THEOREM SuccessIsTruthful == Spec => []SuccessMeansSet
<1>1. IInv => SuccessMeansSet
  <2> SUFFICES ASSUME IInv, NEW p \in Proc, pc[p] = "done", failures[p] = 0,
                      NEW c \in first[p] .. end[p] - 1
               PROVE  /\ c \in Cpu
                      /\ \/ PolicyOf[c] \in disturbed[p]
                         \/ BoundOf(PolicyOf[c], which[p]) = Khz(hz[p])
    BY DEF SuccessMeansSet
  <2>1. c \in first[p] .. cpu[p] - 1
    BY DEF IInv, AtCpu, TypeOK
  <2> QED BY <2>1 DEF IInv, WalkedAreSet
<1> QED BY <1>1, InductiveInvariant, PTL

(* Exit status 0 of --cpu all covers every CPU the machine has, although    *)
(* the loop of cpu_set_freq walks a count and not the set of CPUs.          *)
THEOREM AllIsEveryCpu == Spec => []AllMeansEveryCpu
<1>1. IInv /\ SuccessMeansSet => AllMeansEveryCpu
  <2> SUFFICES ASSUME SuccessMeansSet, NEW p \in Proc,
                      pc[p] = "done", failures[p] = 0, first[p] = 0, end[p] = NCpu,
                      NEW c \in Cpu
               PROVE  \/ PolicyOf[c] \in disturbed[p]
                      \/ BoundOf(PolicyOf[c], which[p]) = Khz(hz[p])
    BY DEF AllMeansEveryCpu
  <2>1. \A d \in 0 .. NCpu - 1 : d \in Cpu
    BY DEF SuccessMeansSet
  <2>2. c \in first[p] .. end[p] - 1
    BY <2>1, NoGap
  <2> QED BY <2>2 DEF SuccessMeansSet
<1> QED BY <1>1, InductiveInvariant, SuccessIsTruthful, PTL

-----------------------------------------------------------------------------
(* A failed library call is the failing branch of the indivisible call.     *)
LEMMA FailRefines ==
  ASSUME IInv, NEW p \in Proc, Fail(p), pc[p] \in {"open", "range", "other", "write"},
         cpu[p] < end[p], ~Atomic!Settable(p), UNCHANGED <<shared, request>>
  PROVE  Atomic!Set(p)
<1>1. pcBar[p] = "run" /\ pcBar' = pcBar
  BY DEF IInv, TypeOK, pcBar, Fail
<1> QED BY <1>1 DEF Atomic!Set, Fail, shared, request

(* A call that goes on to its next check is invisible to the caller. *)
LEMMA AdvanceRefines ==
  ASSUME IInv, NEW p \in Proc, pc[p] \in {"open", "range", "other", "write"},
         NEW l \in {"range", "other", "write"}, pc' = [pc EXCEPT ![p] = l],
         UNCHANGED <<shared, request, cpu, failures>>
  PROVE  UNCHANGED Atomic!vars
<1>1. pcBar' = pcBar
  BY DEF IInv, TypeOK, pcBar
<1> QED BY <1>1 DEF Atomic!vars, shared, request

(* Every step of the check-then-act is a step of the indivisible call, or   *)
(* no step of it.                                                           *)
LEMMA StepRefines == IInv /\ [Next]_vars => [Atomic!Next]_Atomic!vars
<1> SUFFICES ASSUME IInv, [Next]_vars PROVE Atomic!Next \/ UNCHANGED Atomic!vars
  OBVIOUS
<1>0. TypeOK /\ AtCpu
  BY DEF IInv
<1>1. ASSUME NEW p \in Proc, Start(p) PROVE Atomic!Start(p)
  <2>1. pcBar[p] = "idle" /\ pcBar' = [pcBar EXCEPT ![p] = "run"]
    BY <1>0, <1>1 DEF Start, TypeOK, pcBar
  <2>2. PICK w \in {"min", "max"}, h \in Hz,
             r \in {<<0, NCpu>>} \cup {<<n, n + 1>> : n \in CpuArg} :
          /\ which' = [which EXCEPT ![p] = w]
          /\ hz' = [hz EXCEPT ![p] = h]
          /\ first' = [first EXCEPT ![p] = r[1]]
          /\ cpu' = [cpu EXCEPT ![p] = r[1]]
          /\ end' = [end EXCEPT ![p] = r[2]]
    BY <1>1 DEF Start
  <2>3. /\ failures' = [failures EXCEPT ![p] = 0]
        /\ UNCHANGED <<scaling_min, scaling_max, cpufreq>>
    BY <1>1 DEF Start, shared
  <2> QED BY <2>1, <2>2, <2>3, Zenon DEF Atomic!Start
<1>2. ASSUME NEW p \in Proc, Open(p) PROVE Atomic!Set(p) \/ UNCHANGED Atomic!vars
  <2>1. CASE cpu[p] \in Cpu
    BY <1>2, <2>1, AdvanceRefines DEF Open, Fail
  <2>2. CASE cpu[p] \notin Cpu
    BY <1>2, <2>2, FailRefines DEF Open, Atomic!Settable
  <2> QED BY <2>1, <2>2
<1>3. ASSUME NEW p \in Proc, RangeCheck(p) PROVE Atomic!Set(p) \/ UNCHANGED Atomic!vars
  <2> DEFINE Ok == hz[p] >= 0 /\ cpu[p] \in cpufreq
                   /\ InHwRange(PolicyOf[cpu[p]], Khz(hz[p]))
  <2>1. CASE Ok
    BY <1>3, <2>1, AdvanceRefines DEF RangeCheck
  <2>2. CASE ~Ok
    <3>1. cpu[p] \in Cpu /\ cpu[p] < end[p] /\ hz[p] \in Int
      BY <1>0, <1>3 DEF RangeCheck, AtCpu, TypeOK
    <3>2. ~Atomic!Settable(p)
      <4> SUFFICES ASSUME Atomic!Settable(p) PROVE FALSE
        OBVIOUS
      <4>1. /\ cpu[p] \in cpufreq /\ hz[p] >= 0
            /\ hz[p] \div 1000 \in HwMin[PolicyOf[cpu[p]]] .. HwMax[PolicyOf[cpu[p]]]
        BY DEF Atomic!Settable, Atomic!CanTake
      <4> QED BY <2>2, <4>1 DEF InHwRange, Khz
    <3> QED BY <1>3, <2>2, <3>1, <3>2, FailRefines DEF RangeCheck
  <2> QED BY <2>1, <2>2
<1>4. ASSUME NEW p \in Proc, ReadOther(p) PROVE Atomic!Set(p) \/ UNCHANGED Atomic!vars
  <2> DEFINE Ok == cpu[p] \in cpufreq /\ BelowOther(PolicyOf[cpu[p]], which[p], Khz(hz[p]))
  <2>1. CASE Ok
    BY <1>4, <2>1, AdvanceRefines DEF ReadOther
  <2>2. CASE ~Ok
    <3>1. cpu[p] < end[p] /\ which[p] \in {"min", "max"}
      BY <1>0, <1>4 DEF ReadOther, AtCpu, TypeOK
    <3>2. ~Atomic!Settable(p)
      BY <2>2, <3>1 DEF Atomic!Settable, Atomic!CanTake, BelowOther, Khz
    <3> QED BY <1>4, <2>2, <3>1, <3>2, FailRefines DEF ReadOther
  <2> QED BY <2>1, <2>2
<1>5. ASSUME NEW p \in Proc, Write(p) PROVE Atomic!Set(p)
  <2> DEFINE k == PolicyOf[cpu[p]]
             v == Khz(hz[p])
  <2>1. /\ pc[p] = "write" /\ cpu[p] \in Cpu /\ cpu[p] < end[p] /\ k \in Policy
        /\ hz[p] \in Int /\ hz[p] >= 0 /\ InHwRange(k, v)
        /\ which[p] \in {"min", "max"}
    BY <1>0, <1>5, CpuFreqAssumption DEF Write, AtCpu, TypeOK
  <2>2. v \in Nat /\ HwMin[k] \in Nat /\ HwMax[k] \in Nat
    BY <2>1, KhzType, CpuFreqAssumption
  <2>3. CASE cpu[p] \in cpufreq /\ KernelAccepts(k, which[p], v)
    <3>1. Atomic!Settable(p)
      BY <2>1, <2>2, <2>3 DEF Atomic!Settable, Atomic!CanTake, InHwRange, KernelAccepts, Khz
    <3>2. pcBar[p] = "run" /\ pcBar' = pcBar
      BY <1>0, <1>5, <2>3 DEF TypeOK, pcBar, Write
    <3> QED BY <1>5, <2>1, <2>3, <3>1, <3>2 DEF Write, Atomic!Set, request, Khz
  <2>4. CASE ~(cpu[p] \in cpufreq /\ KernelAccepts(k, which[p], v))
    <3>1. ~Atomic!Settable(p)
      BY <2>1, <2>4 DEF Atomic!Settable, Atomic!CanTake, KernelAccepts, Khz
    <3> QED BY <1>5, <2>1, <2>4, <3>1, FailRefines DEF Write, shared
  <2> QED BY <2>3, <2>4
<1>6. ASSUME NEW p \in Proc, Finish(p) PROVE Atomic!Finish(p)
  <2>1. pcBar[p] = "run" /\ pcBar' = [pcBar EXCEPT ![p] = "done"]
    BY <1>0, <1>6 DEF Finish, TypeOK, pcBar
  <2> QED BY <1>6, <2>1 DEF Finish, Atomic!Finish, shared, request
<1>7. ASSUME NEW c \in Cpu, Hotplug(c) PROVE Atomic!Hotplug(c)
  BY <1>7 DEF Hotplug, Atomic!Hotplug, request, pcBar
<1>8. CASE UNCHANGED vars
  BY <1>8 DEF vars, Atomic!vars, pcBar
<1> QED
  BY <1>1, <1>2, <1>3, <1>4, <1>5, <1>6, <1>7, <1>8 DEF Next, Step, Atomic!Next

(* zenctl_cpu_set_freq_min and _max, interleaved step by step with any      *)
(* number of others, implement the indivisible CpuFreqAtomic.               *)
THEOREM Linearizable == Spec => ImplementsAtomic
<1>1. Init => Atomic!Init
  BY DEF Init, Atomic!Init, BoundsSound, pcBar
<1> QED
  BY <1>1, StepRefines, InductiveInvariant, PTL DEF Spec, Atomic!Spec, ImplementsAtomic
=============================================================================
