------------------------- MODULE BiosPasswordProofs -------------------------
(***************************************************************************)
(* Proofs about BiosPassword for any number of callers, roles, passwords    *)
(* and unloads of the driver.                                               *)
(***************************************************************************)
EXTENDS BiosPassword, FiniteSetTheorems, TLAPS

(* list_dir returns every role exactly once: the order is a sequence, its   *)
(* entries differ, and each role is one of them.                            *)
LEMMA OrderFacts ==
  ASSUME order \in SetToSeqs(Role)
  PROVE  /\ Len(order) \in Nat
         /\ order \in [1..Len(order) -> Role]
         /\ \A i, j \in 1..Len(order) : order[i] = order[j] => i = j
         /\ \A r \in Role : \E j \in 1..Len(order) : order[j] = r
<1> DEFINE n == Cardinality(Role)
<1>1. n \in Nat
  BY BiosAssumption, FS_CardinalityType
<1>2. order \in [1..n -> Role] /\ \A i, j \in 1..n : i # j => order[i] # order[j]
  BY DEF SetToSeqs
<1> HIDE DEF n
<1>3. Len(order) = n
  BY <1>1, <1>2
<1>4. IsFiniteSet(1..n) /\ Cardinality(1..n) = n
  BY <1>1, FS_Interval
<1>5. order \in Injection(1..n, Role)
  BY <1>2 DEF Injection, IsInjective
<1>6. order \in Surjection(1..n, Role)
  BY <1>4, <1>5, BiosAssumption, FS_Injection DEF n
<1> QED
  BY <1>1, <1>2, <1>3, <1>6 DEF Surjection

(* Every initial state satisfies the inductive invariant. *)
LEMMA InitIInv == Init => IInv
<1> SUFFICES ASSUME Init PROVE IInv
  OBVIOUS
<1>1. order \in SetToSeqs(Role)
  BY DEF Init
<1>2. Len(order) \in Nat
  BY <1>1, OrderFacts
<1> QED
  BY <1>2, BiosAssumption
  DEF Init, IInv, TypeOK, NoResultYet, LoadedUnlessDisturbed, PassedRefuse, SecretStaged,
      StagedInFirstRole, RightPasswordWorks, ErrorMeansNotApplied

(* The type of every variable is preserved by every step. *)
LEMMA NextTypeOK == TypeOK /\ [Next]_vars => TypeOK'
<1> SUFFICES ASSUME TypeOK, [Next]_vars PROVE TypeOK'
  OBVIOUS
<1>0. /\ order \in SetToSeqs(Role)
      /\ Len(order) \in Nat
      /\ order \in [1..Len(order) -> Role]
  BY OrderFacts DEF TypeOK
<1> USE <1>0, BiosAssumption DEF TypeOK, machine, Goto, Return
<1>1. ASSUME NEW p \in Proc, Start(p) PROVE TypeOK'
  <2>1. disturbed' \in [Proc -> BOOLEAN]
    BY <1>1 DEF Start
  <2> QED BY <1>1, <2>1 DEF Start
<1>2. ASSUME NEW p \in Proc, Stage(p) PROVE TypeOK'
  <2>1. order[role[p]] \in Role /\ role[p] + 1 \in 1..Len(order) + 1
    BY <1>2 DEF Stage
  <2>2. CASE Takes(order[role[p]], pw[p])
    <3>1. pw[p] \in Password
      BY <2>2 DEF Takes
    <3>2. /\ staged' = [staged EXCEPT ![order[role[p]]] = pw[p]]
          /\ disturbed' = [q \in Proc |-> disturbed[q] \/ q # p]
          /\ pc' = [pc EXCEPT ![p] = "write"]
          /\ UNCHANGED <<machine, loaded, unloads, setting, pw, role, result>>
      BY <1>2, <2>2 DEF Stage, AfterStaged
    <3>3. disturbed' \in [Proc -> BOOLEAN]
      BY <3>2, Zenon
    <3> QED BY <2>1, <3>1, <3>2, <3>3
  <2>3. CASE ~Takes(order[role[p]], pw[p])
    BY <1>2, <2>1, <2>3 DEF Stage
  <2> QED BY <2>2, <2>3
<1>3. ASSUME NEW p \in Proc, StageNone(p) PROVE TypeOK'
  BY <1>3 DEF StageNone
<1>4. ASSUME NEW p \in Proc, Write(p) PROVE TypeOK'
  BY <1>4 DEF Write
<1>5. ASSUME NEW p \in Proc, Clear(p) PROVE TypeOK'
  BY <1>5 DEF Clear, WriteEmpty
<1>6. ASSUME NEW p \in Proc, Kill(p) PROVE TypeOK'
  BY <1>6 DEF Kill
<1>7. CASE Unload
  <2>1. disturbed' \in [Proc -> BOOLEAN]
    BY <1>7, Zenon DEF Unload
  <2>2. unloads + 1 \in 0..MaxUnloads
    BY <1>7 DEF Unload
  <2> QED BY <1>7, <2>1, <2>2 DEF Unload
<1>8. CASE Load
  BY <1>8 DEF Load
<1>9. CASE UNCHANGED vars
  BY <1>9 DEF vars
<1> QED
  BY <1>1, <1>2, <1>3, <1>4, <1>5, <1>6, <1>7, <1>8, <1>9 DEF Next

(* Whoever walks the roles in order and finds only refusals before one that *)
(* takes x has found the first for x; if another role is the first for x,   *)
(* it is the same one.                                                      *)
LEMMA FirstIsFound ==
  ASSUME order \in SetToSeqs(Role), NEW x, NEW k \in 1..Len(order),
         <<order[k], x>> \in accepts,
         \A i \in 1..Len(order) : i < k => <<order[i], x>> \notin accepts
  PROVE  /\ FirstFor(order[k], x)
         /\ \A r \in Role : FirstFor(r, x) => r = order[k]
<1>1. FirstFor(order[k], x)
  BY OrderFacts DEF FirstFor
<1>2. ASSUME NEW r \in Role, FirstFor(r, x) PROVE r = order[k]
  <2>1. PICK j \in 1..Len(order) : order[j] = r
    BY OrderFacts
  <2>2. ~(j < k) /\ ~(k < j)
    BY <1>2, <2>1 DEF FirstFor
  <2> QED BY <2>1, <2>2, OrderFacts
<1> QED BY <1>1, <1>2

(* Every step preserves the inductive invariant. *)
LEMMA NextIInv == IInv /\ [Next]_vars => IInv'
<1> SUFFICES ASSUME IInv, [Next]_vars PROVE IInv'
  OBVIOUS
<1>0. TypeOK /\ TypeOK'
  BY NextTypeOK DEF IInv
<1> DEFINE Inv == /\ NoResultYet /\ LoadedUnlessDisturbed /\ PassedRefuse /\ SecretStaged
                  /\ StagedInFirstRole /\ RightPasswordWorks /\ ErrorMeansNotApplied
<1>a. Inv
  BY DEF IInv
<1>b. machine' = machine
  BY DEF Next, Start, Stage, StageNone, Write, Clear, Kill, Unload, Load, vars
<1>c. \A r, x : FirstFor(r, x)' <=> FirstFor(r, x)
  BY <1>b DEF FirstFor, machine
<1> USE <1>0, <1>a, <1>c, BiosAssumption DEF TypeOK, machine, Goto, Return
<1>1. ASSUME NEW p \in Proc, Start(p) PROVE Inv'
  <2>1. NoResultYet' /\ LoadedUnlessDisturbed'
    <3>1. NoResultYet'
      BY <1>1 DEF Start, NoResultYet
    <3>2. loaded' = loaded /\ unloads' = unloads
      BY <1>1 DEF Start
    <3>3. ~loaded => pc' = [pc EXCEPT ![p] = "done"]
      BY <1>1 DEF Start
    <3>4. ~loaded => pc'[p] = "done"
      BY <3>3
    <3>5. \A q \in Proc : q # p => pc'[q] = pc[q] /\ disturbed'[q] = disturbed[q]
      BY <1>1 DEF Start
    <3>6. ASSUME NEW q \in Proc, pc'[q] \in {"stage", "write"}, ~disturbed'[q]
          PROVE  loaded'
      <4>1. CASE q = p
        BY <3>2, <3>4, <3>6, <4>1
      <4>2. CASE q # p
        BY <3>2, <3>5, <3>6, <4>2, Zenon DEF LoadedUnlessDisturbed
      <4> QED BY <4>1, <4>2
    <3>7. unloads' = 0 => loaded'
      BY <3>2, Zenon DEF LoadedUnlessDisturbed
    <3>8. LoadedUnlessDisturbed'
      BY <3>6, <3>7, Zenon DEF LoadedUnlessDisturbed
    <3> QED BY <3>1, <3>8
  <2>2. ErrorMeansNotApplied'
    BY <1>1 DEF Start, NoResultYet, ErrorMeansNotApplied
  <2>3. PassedRefuse'
    BY <1>1 DEF Start, PassedRefuse
  <2>4. StagedInFirstRole'
    BY <1>1 DEF Start, StagedInFirstRole, LoadedUnlessDisturbed
  <2>5. SecretStaged' /\ RightPasswordWorks'
    BY <1>1 DEF Start, SecretStaged, RightPasswordWorks, NoResultYet
  <2> QED BY <2>1, <2>2, <2>3, <2>4, <2>5
<1>2. ASSUME NEW p \in Proc, Stage(p) PROVE Inv'
  <2> DEFINE k == role[p]
  <2>0. k \in 1..Len(order) /\ order[k] \in Role
    BY <1>2, OrderFacts DEF Stage
  <2>1. NoResultYet' /\ LoadedUnlessDisturbed'
    BY <1>2 DEF Stage, AfterStaged, NoResultYet, LoadedUnlessDisturbed
  <2>2. ErrorMeansNotApplied'
    BY <1>2 DEF Stage, AfterStaged, NoResultYet, ErrorMeansNotApplied
  <2>3. CASE ~Takes(order[k], pw[p])
    <3>1. /\ role' = [role EXCEPT ![p] = k + 1]
          /\ UNCHANGED <<machine, loaded, unloads, staged, setting, pc, pw, result, disturbed>>
      BY <1>2, <2>3 DEF Stage
    <3>2. unloads = 0 \/ ~disturbed[p] => <<order[k], pw[p]>> \notin accepts
      BY <1>2, <2>3 DEF Stage, Takes, LoadedUnlessDisturbed
    <3>3. PassedRefuse'
      <4> SUFFICES ASSUME NEW q \in Proc, pc[q] = "stage", unloads = 0 \/ ~disturbed[q],
                          NEW i \in 1..Len(order), i < role'[q]
                   PROVE  <<order[i], pw[q]>> \notin accepts
        BY <1>2, <3>1 DEF Stage, PassedRefuse
      <4>1. CASE q # p \/ i < k
        BY <1>2, <3>1, <4>1 DEF Stage, PassedRefuse
      <4>2. CASE q = p /\ ~(i < k)
        <5>1. i = k
          BY <2>0, <3>1, <4>2, OrderFacts
        <5> QED BY <3>2, <4>2, <5>1
      <4> QED BY <4>1, <4>2
    <3>4. StagedInFirstRole' /\ SecretStaged' /\ RightPasswordWorks'
      BY <3>1 DEF StagedInFirstRole, SecretStaged, RightPasswordWorks
    <3> QED BY <2>1, <2>2, <3>3, <3>4
  <2>4. CASE Takes(order[k], pw[p])
    <3>1. /\ staged' = [staged EXCEPT ![order[k]] = pw[p]]
          /\ disturbed' = [q \in Proc |-> disturbed[q] \/ q # p]
          /\ pc' = [pc EXCEPT ![p] = "write"]
          /\ UNCHANGED <<machine, loaded, unloads, setting, pw, role, result>>
      BY <1>2, <2>4 DEF Stage, AfterStaged
    <3>2. \A q \in Proc : disturbed'[q] <=> disturbed[q] \/ q # p
      BY <3>1, Zenon
    <3>3. unloads = 0 \/ ~disturbed[p] =>
                         /\ FirstFor(order[k], pw[p])
                         /\ \A r \in Role : FirstFor(r, pw[p]) => r = order[k]
      BY <1>2, <2>0, <2>4, FirstIsFound DEF Stage, Takes, PassedRefuse
    <3>4. PassedRefuse'
      BY <3>1 DEF PassedRefuse
    <3>5. StagedInFirstRole'
      BY <2>0, <3>1, <3>3 DEF StagedInFirstRole
    <3>6. SecretStaged'
      BY <2>0, <3>1, <3>2, <3>3 DEF SecretStaged, LoadedUnlessDisturbed
    <3>7. RightPasswordWorks'
      BY <3>1, <3>2 DEF RightPasswordWorks
    <3> QED BY <2>1, <2>2, <3>4, <3>5, <3>6, <3>7
  <2> QED BY <2>3, <2>4
<1>3. ASSUME NEW p \in Proc, StageNone(p) PROVE Inv'
  <2>1. NoResultYet' /\ LoadedUnlessDisturbed'
    BY <1>3 DEF StageNone, NoResultYet, LoadedUnlessDisturbed
  <2>2. ErrorMeansNotApplied'
    BY <1>3 DEF StageNone, NoResultYet, ErrorMeansNotApplied
  <2>3. PassedRefuse'
    BY <1>3 DEF StageNone, PassedRefuse
  <2>4. StagedInFirstRole'
    BY <1>3 DEF StageNone, StagedInFirstRole, LoadedUnlessDisturbed
  <2>5. ~disturbed[p] => ~FirstFor(Admin, pw[p])
    <3> SUFFICES ASSUME ~disturbed[p], FirstFor(Admin, pw[p]) PROVE FALSE
      OBVIOUS
    <3>1. PICK j \in 1..Len(order) : order[j] = Admin
      BY OrderFacts
    <3>2. j < role[p]
      BY <1>3, OrderFacts DEF StageNone
    <3> QED BY <1>3, <3>1, <3>2 DEF StageNone, PassedRefuse, FirstFor
  <2>6. SecretStaged' /\ RightPasswordWorks'
    BY <1>3, <2>5 DEF StageNone, SecretStaged, RightPasswordWorks
  <2> QED BY <2>1, <2>2, <2>3, <2>4, <2>6
<1>4. ASSUME NEW p \in Proc, Write(p) PROVE Inv'
  <2>1. NoResultYet' /\ LoadedUnlessDisturbed'
    BY <1>4 DEF Write, Authorised, NoResultYet, LoadedUnlessDisturbed
  <2>2. ErrorMeansNotApplied'
    BY <1>4 DEF Write, Authorised, NoResultYet, ErrorMeansNotApplied
  <2>3. PassedRefuse'
    BY <1>4 DEF Write, Authorised, PassedRefuse
  <2>4. StagedInFirstRole'
    BY <1>4 DEF Write, Authorised, StagedInFirstRole, LoadedUnlessDisturbed
  <2>5. SecretStaged' /\ RightPasswordWorks'
    BY <1>4 DEF Write, Authorised, SecretStaged, RightPasswordWorks, NoResultYet
  <2> QED BY <2>1, <2>2, <2>3, <2>4, <2>5
<1>5. ASSUME NEW p \in Proc, Clear(p) PROVE Inv'
  <2>1. NoResultYet' /\ LoadedUnlessDisturbed'
    BY <1>5 DEF Clear, WriteEmpty, NoResultYet, LoadedUnlessDisturbed
  <2>2. ErrorMeansNotApplied'
    BY <1>5 DEF Clear, WriteEmpty, NoResultYet, ErrorMeansNotApplied
  <2>3. PassedRefuse'
    BY <1>5 DEF Clear, WriteEmpty, PassedRefuse
  <2>4. StagedInFirstRole'
    BY <1>5 DEF Clear, WriteEmpty, StagedInFirstRole, LoadedUnlessDisturbed
  <2>5. SecretStaged' /\ RightPasswordWorks'
    BY <1>5 DEF Clear, WriteEmpty, SecretStaged, RightPasswordWorks, NoResultYet
  <2> QED BY <2>1, <2>2, <2>3, <2>4, <2>5
<1>6. ASSUME NEW p \in Proc, Kill(p) PROVE Inv'
  <2>1. NoResultYet' /\ LoadedUnlessDisturbed'
    BY <1>6 DEF Kill, NoResultYet, LoadedUnlessDisturbed
  <2>2. ErrorMeansNotApplied'
    BY <1>6 DEF Kill, NoResultYet, ErrorMeansNotApplied
  <2>3. PassedRefuse'
    BY <1>6 DEF Kill, PassedRefuse
  <2>4. StagedInFirstRole'
    BY <1>6 DEF Kill, StagedInFirstRole, LoadedUnlessDisturbed
  <2>5. SecretStaged' /\ RightPasswordWorks'
    BY <1>6 DEF Kill, SecretStaged, RightPasswordWorks, NoResultYet
  <2> QED BY <2>1, <2>2, <2>3, <2>4, <2>5
<1>7. ASSUME Unload PROVE Inv'
  <2>1. NoResultYet' /\ LoadedUnlessDisturbed'
    BY <1>7 DEF Unload, NoResultYet, LoadedUnlessDisturbed
  <2>2. ErrorMeansNotApplied'
    BY <1>7 DEF Unload, NoResultYet, ErrorMeansNotApplied
  <2>3. PassedRefuse'
    BY <1>7 DEF Unload, PassedRefuse
  <2>4. StagedInFirstRole'
    BY <1>7 DEF Unload, StagedInFirstRole, LoadedUnlessDisturbed
  <2>5. SecretStaged' /\ RightPasswordWorks'
    BY <1>7 DEF Unload, SecretStaged, RightPasswordWorks, NoResultYet
  <2> QED BY <2>1, <2>2, <2>3, <2>4, <2>5
<1>8. ASSUME Load PROVE Inv'
  <2>1. NoResultYet' /\ LoadedUnlessDisturbed'
    BY <1>8 DEF Load, NoResultYet, LoadedUnlessDisturbed
  <2>2. ErrorMeansNotApplied'
    BY <1>8 DEF Load, NoResultYet, ErrorMeansNotApplied
  <2>3. PassedRefuse'
    BY <1>8 DEF Load, PassedRefuse
  <2>4. StagedInFirstRole'
    BY <1>8 DEF Load, StagedInFirstRole, LoadedUnlessDisturbed
  <2>5. SecretStaged' /\ RightPasswordWorks'
    BY <1>8 DEF Load, SecretStaged, RightPasswordWorks, NoResultYet
  <2> QED BY <2>1, <2>2, <2>3, <2>4, <2>5
<1>9. ASSUME UNCHANGED vars PROVE Inv'
  <2>1. NoResultYet' /\ LoadedUnlessDisturbed'
    BY <1>9 DEF vars, NoResultYet, LoadedUnlessDisturbed
  <2>2. ErrorMeansNotApplied'
    BY <1>9 DEF vars, NoResultYet, ErrorMeansNotApplied
  <2>3. PassedRefuse'
    BY <1>9 DEF vars, PassedRefuse
  <2>4. StagedInFirstRole'
    BY <1>9 DEF vars, StagedInFirstRole, LoadedUnlessDisturbed
  <2>5. SecretStaged' /\ RightPasswordWorks'
    BY <1>9 DEF vars, SecretStaged, RightPasswordWorks, NoResultYet
  <2> QED BY <2>1, <2>2, <2>3, <2>4, <2>5
<1> QED
  BY <1>1, <1>2, <1>3, <1>4, <1>5, <1>6, <1>7, <1>8, <1>9 DEF Next, IInv

(* Callers, roles and the driver keep their types in every reachable state. *)
THEOREM TypeCorrect == Spec => []TypeOK
<1>1. Init => TypeOK
  BY InitIInv DEF IInv
<1> QED BY <1>1, NextTypeOK, PTL DEF Spec

(* The inductive invariant holds of every behaviour of the callers. *)
THEOREM InductiveInvariant == Spec => []IInv
BY InitIInv, NextIInv, PTL DEF Spec

(* A password is staged in the first role that takes it and in no other,    *)
(* whatever calls overlap, fail or die, as long as the driver stays.        *)
THEOREM StagingSafe == Spec => []StagedInFirstRole
<1>1. IInv => StagedInFirstRole
  BY DEF IInv
<1> QED BY <1>1, InductiveInvariant, PTL

(* Only another caller's password or an unload, between a call's start and  *)
(* its write, makes the firmware refuse the right password.                 *)
THEOREM RightPasswordAccepted == Spec => []RightPasswordWorks
<1>1. IInv => RightPasswordWorks
  BY DEF IInv
<1> QED BY <1>1, InductiveInvariant, PTL

(* A call that reports an error has not changed the setting. *)
THEOREM ErrorIsHarmless == Spec => []ErrorMeansNotApplied
<1>1. IInv => ErrorMeansNotApplied
  BY DEF IInv
<1> QED BY <1>1, InductiveInvariant, PTL
=============================================================================
