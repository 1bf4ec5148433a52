----------------------------- MODULE RaceProofs -----------------------------
(***************************************************************************)
(* Proofs about the calls that read a kernel object, decide and then write  *)
(* it, by any number of processes with no lock between them: NetRing,       *)
(* Wakeup and EfiVar.  The three share their argument.  A history variable  *)
(* has the processes that another one interfered with since they read; what *)
(* a process that is not among them has read is true until it writes.       *)
(***************************************************************************)
EXTENDS NetRing, Wakeup, EfiVar, TLAPS

-----------------------------------------------------------------------------
(* NetRing, for any number of processes, any maxima and any int. *)

(* The cast to int is an integer, and leaves alone what fits. *)
LEMMA CastType == \A n \in Nat : AsInt(n) \in Int
BY NetRingAssumption DEF AsInt

LEMMA CastExact == \A n \in Nat : FitsInt(n) => AsInt(n) = n
BY NetRingAssumption DEF AsInt, FitsInt

(* The initial states satisfy the inductive invariant. *)
LEMMA RingInitIInv == RingInit => RingIInv
<1> SUFFICES ASSUME RingInit PROVE RingIInv
  OBVIOUS
<1>1. \A r \in Ring : 0 .. RingMax[r] \subseteq Nat
  BY NetRingAssumption
<1>2. pending \in [Ring -> Nat]
  BY <1>1 DEF RingInit
<1> QED
  BY <1>2 DEF RingInit, RingIInv, RingTypeOK, SuccessMeansSet, PairIsCurrent

(* Every step preserves the inductive invariant. *)
LEMMA RingNextIInv == RingIInv /\ [RingNext]_ring_vars => RingIInv'
<1> SUFFICES ASSUME RingIInv, [RingNext]_ring_vars PROVE RingIInv'
  OBVIOUS
<1>0. Size \subseteq Nat /\ \A p \in Proc : size[p] \in Nat /\ AsInt(size[p]) \in Int
  BY CastType, NetRingAssumption DEF RingIInv, RingTypeOK
<1> USE <1>0 DEF RingIInv, RingTypeOK, SuccessMeansSet, PairIsCurrent, Exit, Goto, args
<1>1. ASSUME NEW p \in Proc, RingStart(p) PROVE RingIInv'
  BY <1>1 DEF RingStart
<1>2. ASSUME NEW p \in Proc, Open(p) PROVE RingIInv'
  BY <1>2 DEF Open
<1>3. ASSUME NEW p \in Proc, Get(p) PROVE RingIInv'
  <2>1. CASE up
    <3>1. AsInt(size[p]) \in Nat
      BY <1>3 DEF Get
    <3>2. Replaced(p) \in [Ring -> Nat] /\ Replaced(p)[which[p]] = AsInt(size[p])
      BY <3>1 DEF Replaced
    <3>3. rp' = [rp EXCEPT ![p] = Replaced(p)] /\ pc' = [pc EXCEPT ![p] = "set"]
      BY <1>3, <2>1 DEF Get
    <3>4. raced' = raced \ {p} /\ UNCHANGED <<pending, up, which, size, status>>
      BY <1>3, <2>1 DEF Get
    <3>5. RingTypeOK'
      BY <3>2, <3>3, <3>4
    <3>6. PairIsCurrent'
      <4> SUFFICES ASSUME NEW q \in Proc, pc'[q] = "set"
                   PROVE  /\ rp'[q][which[q]] = AsInt(size[q])
                          /\ AsInt(size[q]) >= 0
                          /\ q \notin raced' =>
                               rp'[q] = [pending EXCEPT ![which[q]] = AsInt(size[q])]
        BY <3>4
      <4>1. CASE q = p
        <5>1. rp'[q] = [pending EXCEPT ![which[q]] = AsInt(size[q])]
          BY <4>1, <3>3 DEF Replaced
        <5> QED BY <5>1, <3>1, <3>2, <3>3, <4>1
      <4>2. CASE q # p
        <5>1. pc[q] = "set" /\ rp'[q] = rp[q] /\ (q \in raced' <=> q \in raced)
          BY <4>2, <3>3, <3>4
        <5> QED BY <5>1
      <4> QED BY <4>1, <4>2
    <3>7. SuccessMeansSet'
      <4> SUFFICES ASSUME NEW q \in Proc, status[q] = "ok", q \notin raced', FitsInt(size[q])
                   PROVE  pending[which[q]] = size[q]
        BY <3>4
      <4>1. q # p
        BY <1>3 DEF Get
      <4> QED BY <4>1, <3>4
    <3> QED
      BY <1>3, <3>3, <3>4, <3>5, <3>6, <3>7 DEF Get
  <2>2. CASE ~up
    BY <1>3, <2>2 DEF Get
  <2> QED
    BY <2>1, <2>2
<1>4. ASSUME NEW p \in Proc, Set(p) PROVE RingIInv'
  BY <1>4, CastExact DEF Set
<1>5. ASSUME NEW p \in Proc, SetFails(p) PROVE RingIInv'
  BY <1>5 DEF SetFails
<1>6. CASE Unplug
  BY <1>6 DEF Unplug
<1>7. CASE UNCHANGED ring_vars
  BY <1>7 DEF ring_vars
<1> QED
  BY <1>1, <1>2, <1>3, <1>4, <1>5, <1>6, <1>7 DEF RingNext

(* A pair that was read and not raced is current until it is written. *)
THEOREM RingInvariant == RingSpec => []RingIInv
BY RingInitIInv, RingNextIInv, PTL DEF RingSpec

(* Exit status 0 of net_set_ring is truthful when nobody raced it. *)
THEOREM RingSetIsTruthful == RingSpec => []SuccessMeansSet
BY RingInvariant, PTL DEF RingIInv

(* The read-modify-write of set_ring_rx and set_ring_tx keeps the other     *)
(* ring's size when no other process writes in between.                     *)
THEOREM UnracedSetKeepsOther == RingSpec => OtherRingKept
<1>1. RingIInv /\ [RingNext]_ring_vars =>
        [\A p \in Proc : Set(p) /\ p \notin raced =>
           \A r \in Ring \ {which[p]} : pending'[r] = pending[r]]_ring_vars
  BY DEF RingIInv, RingTypeOK, PairIsCurrent, Set
<1> QED
  BY <1>1, RingInvariant, PTL DEF RingSpec, OtherRingKept

-----------------------------------------------------------------------------
(* Wakeup, for any number of callers and devices. *)

(* The initial states satisfy the inductive invariant. *)
LEMMA WakeupInitIInv == WakeupInit => WakeupIInv
BY DEF WakeupInit, WakeupIInv, WakeupTypeOK, AloneIsExact, ReadStillTrue

(* Every step of a call preserves the inductive invariant. *)
LEMMA WakeupNextIInv == WakeupIInv /\ [WakeupNext]_wakeup_vars => WakeupIInv'
<1> SUFFICES ASSUME WakeupIInv, [WakeupNext]_wakeup_vars PROVE WakeupIInv'
  OBVIOUS
<1> USE DEF WakeupIInv, WakeupTypeOK, AloneIsExact, ReadStillTrue, AsWanted, Return, Goto, table
<1>1. ASSUME NEW p \in Proc, WakeupStart(p) PROVE WakeupIInv'
  BY <1>1 DEF WakeupStart
<1>2. ASSUME NEW p \in Proc, Read(p) PROVE WakeupIInv'
  BY <1>2 DEF Read
<1>3. ASSUME NEW p \in Proc, Toggle(p) PROVE WakeupIInv'
  <2> USE <1>3 DEF Toggle
  <2>1. WakeupTypeOK'
    OBVIOUS
  <2>2. ASSUME NEW q \in Proc, q # p, device[q] = device[p] PROVE toggled'[q]
    BY <2>2
  <2>3. ASSUME NEW q \in Proc, device[q] # device[p]
        PROVE  /\ (device[q] \in enabled)' <=> device[q] \in enabled
               /\ toggled'[q] <=> toggled[q]
    BY <2>3
  <2>4. (device[p] \in enabled)' <=> ~(device[p] \in enabled)
    OBVIOUS
  <2>5. AloneIsExact'
    <3> SUFFICES ASSUME NEW q \in Proc, result'[q] = "ok", ~toggled'[q]
                 PROVE  (device[q] \in enabled)' <=> want[q]
      OBVIOUS
    <3>1. CASE q = p
      <4>1. ~toggled[p]
        BY <3>1
      <4>2. ~(device[p] \in enabled) <=> want[p]
        BY <4>1
      <4> QED BY <4>2, <2>4, <3>1
    <3>2. CASE q # p
      <4>1. device[q] # device[p]
        BY <2>2, <3>2
      <4>2. result[q] = "ok"
        BY <3>2
      <4>3. ~toggled[q] /\ ((device[q] \in enabled)' <=> device[q] \in enabled)
        BY <4>1, <2>3
      <4>4. device[q] \in enabled <=> want[q]
        BY <4>2, <4>3
      <4> QED BY <4>3, <4>4
    <3> QED BY <3>1, <3>2
  <2>6. ReadStillTrue'
    <3> SUFFICES ASSUME NEW q \in Proc, pc'[q] = "toggle"
                 PROVE  device[q] \in rows /\ (toggled'[q] \/ ~((device[q] \in enabled)' <=> want[q]))
      OBVIOUS
    <3>1. q # p /\ pc[q] = "toggle"
      OBVIOUS
    <3>2. device[q] \in rows /\ (toggled[q] \/ ~(device[q] \in enabled <=> want[q]))
      BY <3>1
    <3> QED BY <3>1, <3>2, <2>2, <2>3
  <2> QED
    BY <2>1, <2>5, <2>6
<1>4. ASSUME NEW p \in Proc, ToggleFails(p) PROVE WakeupIInv'
  BY <1>4 DEF ToggleFails
<1>5. CASE UNCHANGED wakeup_vars
  BY <1>5 DEF wakeup_vars
<1> QED
  BY <1>1, <1>2, <1>3, <1>4, <1>5 DEF WakeupNext

(* What a call has read stays true until its toggle unless another one toggles the row. *)
THEOREM WakeupInvariant == WakeupSpec => []WakeupIInv
BY WakeupInitIInv, WakeupNextIInv, PTL DEF WakeupSpec

(* zenctl_power_set_wakeup is exact for a caller nobody toggled. *)
THEOREM UnracedCallIsExact == WakeupSpec => []AloneIsExact
BY WakeupInvariant, PTL DEF WakeupIInv

-----------------------------------------------------------------------------
(* EfiVar, for any number of processes and payloads. *)

(* Every initial state is protected: the kernel's choice of flag is there. *)
LEMMA EfiInitIInv == EfiInit => EfiIInv
<1> SUFFICES ASSUME EfiInit PROVE EfiIInv
  OBVIOUS
<1>1. EfiTypeOK
  BY EfiVarAssumption DEF EfiInit, EfiTypeOK, Working
<1>2. NeverLeftMutable
  BY Zenon DEF EfiInit, NeverLeftMutable
<1>3. RefusedOnlyIfTouched /\ Undisturbed
  BY DEF EfiInit, RefusedOnlyIfTouched, Undisturbed
<1> QED BY <1>1, <1>2, <1>3 DEF EfiIInv

(* The type of every variable is preserved by every step. *)
LEMMA EfiNextTypeOK == EfiTypeOK /\ [EfiNext]_efi_vars => EfiTypeOK'
<1> SUFFICES ASSUME EfiTypeOK, [EfiNext]_efi_vars PROVE EfiTypeOK'
  OBVIOUS
<1> USE EfiVarAssumption DEF EfiTypeOK, Goto, Touch, Leave, Working, file, Abandon
<1>1. ASSUME NEW p \in Proc, EfiStart(p) PROVE EfiTypeOK'
  BY <1>1 DEF EfiStart
<1>2. ASSUME NEW p \in Proc, GetFlags(p) PROVE EfiTypeOK'
  BY <1>2 DEF GetFlags
<1>3. ASSUME NEW p \in Proc, ClearFlag(p) PROVE EfiTypeOK'
  BY <1>3 DEF ClearFlag
<1>4. ASSUME NEW p \in Proc, WriteRefused(p) PROVE EfiTypeOK'
  BY <1>4 DEF WriteRefused
<1>5. ASSUME NEW p \in Proc, WriteOpen(p) PROVE EfiTypeOK'
  BY <1>5 DEF WriteOpen
<1>6. ASSUME NEW p \in Proc, WriteFails(p) PROVE EfiTypeOK'
  BY <1>6 DEF WriteFails
<1>7. ASSUME NEW p \in Proc, WriteSet(p) PROVE EfiTypeOK'
  BY <1>7 DEF WriteSet
<1>8. ASSUME NEW p \in Proc, WriteDelete(p) PROVE EfiTypeOK'
  BY <1>8 DEF WriteDelete
<1>9. ASSUME NEW p \in Proc, Stat(p) PROVE EfiTypeOK'
  BY <1>9 DEF Stat
<1>10. ASSUME NEW p \in Proc, Unlink(p) PROVE EfiTypeOK'
  BY <1>10 DEF Unlink
<1>11. ASSUME NEW p \in Proc, RegetFlags(p) PROVE EfiTypeOK'
  BY <1>11 DEF RegetFlags
<1>12. ASSUME NEW p \in Proc, Restore(p) PROVE EfiTypeOK'
  BY <1>12 DEF Restore
<1>13. ASSUME NEW p \in Proc, Kill(p) PROVE EfiTypeOK'
  BY <1>13 DEF Kill
<1>14. CASE UNCHANGED efi_vars
  BY <1>14 DEF efi_vars
<1> QED
  BY <1>1, <1>2, <1>3, <1>4, <1>5, <1>6, <1>7,
     <1>8, <1>9, <1>10, <1>11, <1>12, <1>13, <1>14
  DEF EfiNext, Step

(* Every step preserves the inductive invariant. *)
LEMMA EfiNextIInv == EfiIInv /\ [EfiNext]_efi_vars => EfiIInv'
<1> SUFFICES ASSUME EfiIInv, [EfiNext]_efi_vars PROVE EfiIInv'
  OBVIOUS
<1>0. EfiTypeOK /\ EfiTypeOK'
  BY EfiNextTypeOK DEF EfiIInv
<1> DEFINE Inv == NeverLeftMutable /\ RefusedOnlyIfTouched /\ Undisturbed
<1> USE <1>0, EfiVarAssumption
    DEF EfiIInv, EfiTypeOK, NeverLeftMutable, RefusedOnlyIfTouched, Undisturbed, Holds,
        Goto, Touch, Leave, Working, file, Abandon
<1>1. ASSUME NEW p \in Proc, EfiStart(p) PROVE Inv'
  BY <1>1 DEF EfiStart
<1>2. ASSUME NEW p \in Proc, GetFlags(p) PROVE Inv'
  BY <1>2 DEF GetFlags
<1>3. ASSUME NEW p \in Proc, ClearFlag(p) PROVE Inv'
  BY <1>3 DEF ClearFlag
<1>4. ASSUME NEW p \in Proc, WriteRefused(p) PROVE Inv'
  BY <1>4 DEF WriteRefused
<1>5. ASSUME NEW p \in Proc, WriteOpen(p) PROVE Inv'
  BY <1>5 DEF WriteOpen
<1>6. ASSUME NEW p \in Proc, WriteFails(p) PROVE Inv'
  BY <1>6 DEF WriteFails
<1>7. ASSUME NEW p \in Proc, WriteSet(p) PROVE Inv'
  BY <1>7 DEF WriteSet
<1>8. ASSUME NEW p \in Proc, WriteDelete(p) PROVE Inv'
  <2>1. NeverLeftMutable'
    <3> SUFFICES ASSUME Immutable, exists', ~flag'
                 PROVE  abandoned' \/ \E q \in Proc : Holds(q)'
      BY DEF NeverLeftMutable
    <3>1. exists /\ ~flag /\ abandoned' = abandoned /\ was_cleared' = was_cleared
      BY <1>8, Zenon DEF WriteDelete
    <3>2. CASE abandoned
      BY <3>1, <3>2
    <3>3. ASSUME NEW q \in Proc, Holds(q) PROVE Holds(q)'
      BY <1>8, <3>1, <3>3 DEF WriteDelete
    <3> QED BY <3>1, <3>2, <3>3 DEF NeverLeftMutable
  <2>2. RefusedOnlyIfTouched'
    BY <1>8 DEF WriteDelete
  <2>3. Undisturbed'
    BY <1>8 DEF WriteDelete
  <2> QED BY <2>1, <2>2, <2>3
<1>9. ASSUME NEW p \in Proc, Stat(p) PROVE Inv'
  BY <1>9 DEF Stat
<1>10. ASSUME NEW p \in Proc, Unlink(p) PROVE Inv'
  BY <1>10 DEF Unlink
<1>11. ASSUME NEW p \in Proc, RegetFlags(p) PROVE Inv'
  BY <1>11 DEF RegetFlags
<1>12. ASSUME NEW p \in Proc, Restore(p) PROVE Inv'
  BY <1>12 DEF Restore
<1>13. ASSUME NEW p \in Proc, Kill(p) PROVE Inv'
  BY <1>13 DEF Kill
<1>14. CASE UNCHANGED efi_vars
  BY <1>14 DEF efi_vars
<1> QED
  BY <1>1, <1>2, <1>3, <1>4, <1>5, <1>6, <1>7,
     <1>8, <1>9, <1>10, <1>11, <1>12, <1>13, <1>14
  DEF EfiNext, Step

(* EfiIInv is an inductive invariant of efi_set and efi_delete. *)
THEOREM EfiInvariant == EfiSpec => []EfiIInv
BY EfiInitIInv, EfiNextIInv, PTL DEF EfiSpec

(* Short of a process that is killed or fails to set the flag again, no     *)
(* interleaving of efi_set and efi_delete leaves a protected variable       *)
(* without its immutable flag.                                              *)
THEOREM ProtectionIsRestored == EfiSpec => []NeverLeftMutable
BY EfiInvariant, PTL DEF EfiIInv

(* EPERM from write_binary or unlink is always another process's doing. *)
THEOREM RefusalNeedsInterference == EfiSpec => []RefusedOnlyIfTouched
BY EfiInvariant, PTL DEF EfiIInv

(* efi_set and efi_delete report success only for what they have done. *)
THEOREM SuccessIsTruthful == EfiSpec => []SuccessIsTrue
<1>1. EfiIInv => SuccessIsTrue
  BY DEF EfiIInv, Undisturbed, SuccessIsTrue
<1> QED BY <1>1, EfiInvariant, PTL
=============================================================================
