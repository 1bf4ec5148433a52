----------------------------- MODULE RadioProofs -----------------------------
(***************************************************************************)
(* Proofs about Radio for any number of clients, controllers, Wi-Fi radios  *)
(* and hot-plug events.                                                     *)
(***************************************************************************)
EXTENDS Radio, FiniteSetTheorems, WellFoundedInduction, TLAPS

(* A non-empty set of natural numbers has a least element, which Min is. *)
LEMMA MinOfNaturals ==
  ASSUME NEW S \in SUBSET Nat, S # {}
  PROVE  Min(S) \in S
<1>1. PICK x \in S : \A y \in S : ~ (<<y, x>> \in OpToRel(<, Nat))
  BY NatLessThanWellFounded, WFMin
<1>2. \A y \in S : ~ (y < x)
  BY <1>1 DEF OpToRel
<1>3. \A y \in S : x =< y
  BY <1>2
<1> QED BY <1>3, Zenon DEF Min

(* The hci number that a new controller takes exists and is free: there are *)
(* fewer radios than numbers, as every radio has a switch of its own.       *)
LEMMA LowestIsFree ==
  ASSUME TypeOK, OneSwitchEach, regs + 1 <= MaxRegs
  PROVE  LET taken == {slot[e] : e \in plugged \cap Bluetooth}
         IN  Min(0..MaxRegs \ taken) \in 0..MaxRegs \ taken
<1> DEFINE taken == {slot[e] : e \in plugged \cap Bluetooth}
           D == DOMAIN owner
           f == [n \in D |-> slot[owner[n]]]
           all == {f[n] : n \in D}
<1> USE RadioAssumption
<1>1. regs \in Nat /\ D \subseteq 1..regs /\ slot \in [Dev -> 0..MaxRegs]
  BY DEF TypeOK
<1>2. IsFiniteSet(D) /\ Cardinality(D) <= regs /\ Cardinality(D) \in Nat
  <2>1. IsFiniteSet(1..regs) /\ Cardinality(1..regs) = regs
    BY <1>1, FS_Interval
  <2>2. IsFiniteSet(D) /\ Cardinality(D) <= Cardinality(1..regs)
    BY <1>1, <2>1, FS_Subset
  <2> QED BY <1>1, <2>1, <2>2, FS_CardinalityType
<1>3. f \in Surjection(D, all)
  BY DEF Surjection
<1>4. IsFiniteSet(all) /\ Cardinality(all) <= Cardinality(D) /\ Cardinality(all) \in Nat
  BY <1>2, <1>3, FS_Surjection, FS_CardinalityType
<1>5. taken \subseteq all
  <2> SUFFICES ASSUME NEW e \in plugged \cap Bluetooth PROVE slot[e] \in all
    OBVIOUS
  <2>1. PICK n \in D : owner[n] = e
    BY DEF OneSwitchEach
  <2> QED BY <2>1
<1>6. 0..MaxRegs \ taken # {}
  <2> SUFFICES ASSUME 0..MaxRegs \subseteq taken PROVE FALSE
    OBVIOUS
  <2>1. Cardinality(0..MaxRegs) = MaxRegs + 1
    BY FS_Interval
  <2>2. Cardinality(0..MaxRegs) <= Cardinality(all)
    BY <1>4, <1>5, FS_Subset
  <2> QED BY <1>1, <1>2, <1>4, <2>1, <2>2
<1> QED BY <1>6, MinOfNaturals

(* Every initial state satisfies the inductive invariant. *)
LEMMA InitIInv == Init => IInv
<1> SUFFICES ASSUME Init PROVE IInv
  OBVIOUS
<1> USE RadioAssumption DEF Dev
<1>1. PICK b \in Bluetooth, w \in Wlan :
        /\ plugged = {b, w}
        /\ up \in {{}, {b}}
        /\ \E blocked \in BOOLEAN : soft = [n \in 1..2 |-> n = 1 /\ blocked]
        /\ owner = [n \in 1..2 |-> IF n = 1 THEN b ELSE w]
  BY DEF Init
<1>2. TypeOK
  <2>1. DOMAIN soft = 1..2 /\ \A n \in 1..2 : soft[n] \in BOOLEAN
    BY <1>1, Zenon
  <2>2. named \subseteq Dev
    BY DEF Init
  <2>3. disturbed \in [Proc -> BOOLEAN] /\ want \in [Proc -> BOOLEAN]
    BY Zenon DEF Init
  <2>4. /\ plugged \subseteq Dev /\ up \subseteq plugged \cap Bluetooth
        /\ DOMAIN owner = DOMAIN soft /\ \A n \in DOMAIN owner : owner[n] \in plugged
    BY <1>1, <2>1
  <2>5. DOMAIN soft \subseteq 1..regs /\ regs \in 0..MaxRegs
    BY <2>1 DEF Init
  <2> QED BY <2>1, <2>2, <2>3, <2>4, <2>5 DEF Init, TypeOK, Outcome
<1>3. OneSwitchEach
  BY <1>1 DEF OneSwitchEach
<1>4. SlotsUnique
  BY <1>1 DEF Init, SlotsUnique, Kind
<1>5. NothingYet /\ NameHolds /\ Ways /\ EffectHolds /\ RightDevice /\ ReadBack
  BY DEF Init, NothingYet, NameHolds, Ways, EffectHolds, RightDevice, ReadBack, Undisturbed, IsBt
<1>6. SwitchHolds
  BY DEF Init, SwitchHolds
<1> QED BY <1>2, <1>3, <1>4, <1>5, <1>6 DEF IInv

(* The type of every variable is preserved by every step: a Wi-Fi radio is  *)
(* never brought up by HCI, and a new controller finds a free number.       *)
LEMMA NextTypeOK == TypeOK /\ OneSwitchEach /\ Ways /\ [Next]_vars => TypeOK'
<1> SUFFICES ASSUME TypeOK, OneSwitchEach, Ways, [Next]_vars PROVE TypeOK'
  OBVIOUS
<1> USE RadioAssumption DEF TypeOK, Outcome, machine, devices, call, Goto
<1>0. ASSUME NEW p \in Proc, NEW d, NEW h, Touch(p, d, h) PROVE disturbed' \in [Proc -> BOOLEAN]
  BY <1>0, Zenon DEF Touch
<1>1. ASSUME NEW p \in Proc, NEW d \in Dev, NEW on \in BOOLEAN, Open(p, d, on) PROVE TypeOK'
  BY <1>1 DEF Open, FirstStep
<1>2. ASSUME NEW p \in Proc, HciSet(p) PROVE TypeOK'
  <2>1. CASE \E d \in Current(p) : /\ up' = IF want[p] THEN up \cup {d} ELSE up \ {d}
                                   /\ Touch(p, d, "hci")
                                   /\ SetReturns(p, "ok")
    <3>1. PICK d \in Current(p) : /\ up' = IF want[p] THEN up \cup {d} ELSE up \ {d}
                                  /\ Touch(p, d, "hci")
                                  /\ SetReturns(p, "ok")
      BY <2>1
    <3>2. d \in plugged /\ disturbed' \in [Proc -> BOOLEAN]
      BY <1>0, <3>1 DEF Current
    <3>3. up' \subseteq plugged \cap Bluetooth
      BY <1>2, <3>1 DEF Current, Kind, HciSet, Ways, IsBt
    <3> QED BY <1>2, <3>1, <3>2, <3>3 DEF HciSet, SetReturns, Touch
  <2>2. CASE /\ UNCHANGED <<up, call>>
             /\ SetReturns(p, IoctlResult(p)) \/ (Goto(p, "find") /\ UNCHANGED result)
    BY <1>2, <2>2 DEF HciSet, SetReturns, IoctlResult
  <2> QED BY <1>2, <2>1, <2>2 DEF HciSet
<1>3. ASSUME NEW p \in Proc, HciNoSocket(p) PROVE TypeOK'
  BY <1>3 DEF HciNoSocket
<1>4. ASSUME NEW p \in Proc, Find(p) PROVE TypeOK'
  BY <1>4 DEF Find, Found, SetReturns, GetReturns, rfkill_find
<1>5. ASSUME NEW p \in Proc, FindAny(p) PROVE TypeOK'
  BY <1>5 DEF FindAny, Found, SetReturns, GetReturns, rfkill_find_any
<1>6. ASSUME NEW p \in Proc, SetSoft(p) PROVE TypeOK'
  <2> DEFINE n == number[p]
  <2>1. CASE UNCHANGED <<soft, up, call>>
    BY <1>6, <2>1 DEF SetSoft, SetReturns
  <2>2. CASE /\ n \in DOMAIN soft
             /\ soft' = [soft EXCEPT ![n] = BlockFor(want[p])]
             /\ up' = IF BlockFor(want[p]) THEN up \ {owner[n]} ELSE up
             /\ Touch(p, owner[n], "rfkill")
             /\ SetReturns(p, "ok")
    <3>1. DOMAIN soft' = DOMAIN soft /\ \A m \in DOMAIN soft : soft'[m] \in BOOLEAN
      BY <2>2, Zenon DEF BlockFor
    <3>2. owner[n] \in Dev /\ disturbed' \in [Proc -> BOOLEAN] /\ up' \subseteq up
      BY <1>0, <2>2
    <3>3. UNCHANGED <<machine, plugged, slot, owner, regs, got>>
      BY <1>6 DEF SetSoft
    <3> QED BY <2>2, <3>1, <3>2, <3>3 DEF SetReturns, Touch
  <2> QED BY <1>6, <2>1, <2>2 DEF SetSoft
<1>7. ASSUME NEW p \in Proc, HciGet(p) PROVE TypeOK'
  BY <1>7 DEF HciGet, GetReturns
<1>8. ASSUME NEW p \in Proc, GetSoft(p) PROVE TypeOK'
  BY <1>8 DEF GetSoft, GetReturns, PowerOf
<1>9. ASSUME NEW d \in Dev, Unplug(d) PROVE TypeOK'
  BY <1>9 DEF Unplug, SwitchOf
<1>10. ASSUME NEW d \in Dev, Plug(d) PROVE TypeOK'
  <2> DEFINE n == regs + 1
             lowest == Min(0..MaxRegs \ {slot[e] : e \in plugged \cap Bluetooth})
  <2>1. lowest \in 0..MaxRegs
    BY <1>10, LowestIsFree DEF Plug
  <2> HIDE DEF lowest
  <2>2. slot' \in [Dev -> 0..MaxRegs]
    BY <1>10, <2>1 DEF Plug, lowest
  <2>3. /\ DOMAIN soft' = DOMAIN soft \cup {n} /\ DOMAIN owner' = DOMAIN soft'
        /\ regs' = n /\ n \in 0..MaxRegs
        /\ plugged' = plugged \cup {d}
        /\ UNCHANGED <<machine, up, pc, call, result, got>>
    BY <1>10 DEF Plug
  <2>4. \A m \in DOMAIN soft' : soft'[m] \in BOOLEAN
    BY <1>10, <2>3, Zenon DEF Plug
  <2>5. \A m \in DOMAIN owner' : owner'[m] \in plugged'
    BY <1>10, <2>3 DEF Plug
  <2> QED BY <2>2, <2>3, <2>4, <2>5
<1>11. CASE UNCHANGED vars
  BY <1>11 DEF vars
<1> QED
  BY <1>1, <1>2, <1>3, <1>4, <1>5, <1>6, <1>7, <1>8, <1>9, <1>10, <1>11 DEF Next

(* The device that has the name a client remembers is the one it opened, if *)
(* that has not gone.                                                       *)
LEMMA CurrentIsOpened ==
  ASSUME TypeOK, SlotsUnique, NameHolds, NEW p \in Proc, pc[p] # "idle", p \notin went
  PROVE  Current(p) = {opened[p]}
<1>1. opened[p] \in plugged /\ slot[opened[p]] = name[p]
  BY DEF NameHolds
<1>2. opened[p] \in Kind(opened[p])
  BY <1>1 DEF TypeOK, Kind, Dev
<1>3. ASSUME NEW d \in Current(p) PROVE d = opened[p]
  <2>1. Kind(d) = Kind(opened[p]) /\ d \in plugged /\ slot[d] = slot[opened[p]]
    BY <1>1, <1>3, RadioAssumption DEF Current, Kind
  <2> QED BY <1>1, <2>1 DEF SlotsUnique
<1> QED BY <1>1, <1>2, <1>3 DEF Current

(* A client whose radio is there and has a switch that carries the name     *)
(* finds that switch and no other.                                          *)
LEMMA FindsOwnSwitch ==
  ASSUME TypeOK, OneSwitchEach, SlotsUnique, NameHolds,
         NEW p \in Proc, pc[p] # "idle", p \notin went, opened[p] \in named
  PROVE  /\ rfkill_find(p) # {}
         /\ \A n \in rfkill_find(p) : n \in DOMAIN owner /\ owner[n] = opened[p]
<1>1. Current(p) = {opened[p]}
  BY CurrentIsOpened
<1>2. opened[p] \in plugged
  BY DEF NameHolds
<1>3. PICK n \in DOMAIN owner : owner[n] = opened[p]
  BY <1>2 DEF OneSwitchEach
<1> QED BY <1>1, <1>3 DEF rfkill_find

(* Plugging and unplugging keep one switch per radio and numbers that       *)
(* differ; no client step touches either.                                   *)
LEMMA NextDevices ==
  TypeOK /\ OneSwitchEach /\ SlotsUnique /\ [Next]_vars => OneSwitchEach' /\ SlotsUnique'
<1> SUFFICES ASSUME TypeOK, OneSwitchEach, SlotsUnique, [Next]_vars
             PROVE  OneSwitchEach' /\ SlotsUnique'
  OBVIOUS
<1> USE RadioAssumption DEF Kind
<1>1. ASSUME NEW d \in Dev, Unplug(d) PROVE OneSwitchEach' /\ SlotsUnique'
  <2>1. OneSwitchEach'
    BY <1>1 DEF Unplug, OneSwitchEach, SwitchOf, TypeOK
  <2>2. SlotsUnique'
    BY <1>1 DEF Unplug, SlotsUnique, TypeOK
  <2> QED BY <2>1, <2>2
<1>2. ASSUME NEW d \in Dev, Plug(d) PROVE OneSwitchEach' /\ SlotsUnique'
  <2> DEFINE n == regs + 1
             taken == {slot[e] : e \in plugged \cap Bluetooth}
             lowest == Min(0..MaxRegs \ taken)
  <2>1. lowest \in 0..MaxRegs \ taken
    BY <1>2, LowestIsFree DEF Plug
  <2> HIDE DEF lowest
  <2>2. /\ d \notin plugged /\ plugged' = plugged \cup {d}
        /\ slot' = [slot EXCEPT ![d] = IF d \in Bluetooth THEN lowest ELSE regs]
        /\ owner' = [m \in DOMAIN soft \cup {n} |-> IF m = n THEN d ELSE owner[m]]
        /\ regs' = n
    BY <1>2 DEF Plug, lowest
  <2>3. OneSwitchEach'
    <3>1. /\ n \notin DOMAIN owner /\ DOMAIN owner' = DOMAIN owner \cup {n}
          /\ owner'[n] = d /\ \A m \in DOMAIN owner : owner'[m] = owner[m] /\ owner[m] \in plugged
      BY <2>2 DEF TypeOK
    <3> QED BY <2>2, <3>1 DEF OneSwitchEach
  <2>4. /\ slot'[d] = IF d \in Bluetooth THEN lowest ELSE regs
        /\ \A e \in plugged : slot'[e] = slot[e]
    BY <2>2 DEF TypeOK
  <2>5. \A e \in plugged : Kind(e) = Kind(d) => slot[e] # slot'[d]
    BY <2>1, <2>4 DEF SlotsUnique, TypeOK, Dev
  <2>6. SlotsUnique'
    BY <2>2, <2>4, <2>5 DEF SlotsUnique, TypeOK, Dev
  <2> QED BY <2>3, <2>6
<1>3. CASE UNCHANGED <<plugged, slot, owner, regs>>
  BY <1>3 DEF OneSwitchEach, SlotsUnique
<1>4. ASSUME NEW p \in Proc,
             \/ \E d \in Dev, on \in BOOLEAN : Open(p, d, on)
             \/ HciSet(p) \/ HciNoSocket(p) \/ Find(p) \/ FindAny(p) \/ SetSoft(p)
             \/ HciGet(p) \/ GetSoft(p)
      PROVE  UNCHANGED <<plugged, slot, owner, regs>>
  BY <1>4 DEF Open, HciSet, HciNoSocket, Find, FindAny, SetSoft, HciGet, GetSoft, devices
<1>5. CASE UNCHANGED vars
  BY <1>3, <1>5 DEF vars, devices
<1> QED BY <1>1, <1>2, <1>3, <1>4, <1>5 DEF Next

(* Every client step, unplug and plug preserves what is known of clients. *)
LEMMA NextClients ==
  IInv /\ [Next]_vars =>
    /\ NothingYet' /\ NameHolds' /\ SwitchHolds' /\ Ways'
    /\ EffectHolds' /\ RightDevice' /\ ReadBack'
<1> DEFINE CInv == /\ NothingYet /\ NameHolds /\ SwitchHolds /\ Ways
                   /\ EffectHolds /\ RightDevice /\ ReadBack
<1> SUFFICES ASSUME IInv, [Next]_vars PROVE CInv'
  OBVIOUS
<1>a. TypeOK /\ TypeOK' /\ CInv
  BY NextTypeOK DEF IInv
<1> USE <1>a, RadioAssumption DEF TypeOK, Dev, machine, devices, call, Goto, IsBt, Undisturbed
<1>1. ASSUME NEW p \in Proc, NEW d \in Dev, NEW on \in BOOLEAN, Open(p, d, on) PROVE CInv'
  <2>1. NothingYet'
    BY <1>1 DEF Open, FirstStep, NothingYet
  <2>2. NameHolds'
    BY <1>1 DEF Open, FirstStep, NameHolds, NothingYet
  <2>3. SwitchHolds'
    BY <1>1 DEF Open, FirstStep, SwitchHolds, NameHolds, NothingYet
  <2>4. Ways'
    BY <1>1 DEF Open, FirstStep, Ways, NothingYet
  <2>5. EffectHolds'
    BY <1>1 DEF Open, FirstStep, EffectHolds, NothingYet
  <2>6. RightDevice'
    BY <1>1 DEF Open, FirstStep, RightDevice, NothingYet
  <2>7. ReadBack'
    BY <1>1 DEF Open, FirstStep, ReadBack, NothingYet
  <2> QED BY <2>1, <2>2, <2>3, <2>4, <2>5, <2>6, <2>7
<1>2. ASSUME NEW p \in Proc, HciSet(p) PROVE CInv'
  <2>0. p \notin went => Current(p) = {opened[p]}
    BY <1>2, CurrentIsOpened DEF HciSet, IInv
  <2>1. CASE /\ UNCHANGED <<up, call>>
             /\ \/ IoctlResult(p) # "ok" /\ SetReturns(p, IoctlResult(p))
                \/ p \notin admin /\ Goto(p, "find") /\ UNCHANGED result
    <3>1. NothingYet' /\ NameHolds' /\ SwitchHolds'
      BY <1>2, <2>1 DEF HciSet, SetReturns, NothingYet, NameHolds, SwitchHolds
    <3>2. Ways' /\ EffectHolds' /\ RightDevice' /\ ReadBack'
      BY <1>2, <2>1 DEF HciSet, SetReturns, Ways, EffectHolds, RightDevice, ReadBack, NothingYet
    <3> QED BY <3>1, <3>2
  <2>2. ASSUME NEW d \in Current(p),
               up' = IF want[p] THEN up \cup {d} ELSE up \ {d},
               Touch(p, d, "hci"), SetReturns(p, "ok")
        PROVE  CInv'
    <3>1. /\ \A q \in Proc : disturbed'[q] <=> disturbed[q] \/ (q # p /\ opened[q] = d)
          /\ d \in Dev
      BY <2>2, Zenon DEF Touch, Current
    <3>2. /\ pc' = [pc EXCEPT ![p] = "get_hci"] /\ result' = [result EXCEPT ![p] = "ok"]
          /\ touched' = [touched EXCEPT ![p] = d] /\ via' = [via EXCEPT ![p] = "hci"]
          /\ UNCHANGED <<machine, plugged, slot, soft, owner, regs, got>>
          /\ UNCHANGED <<opened, name, want, number, went>>
      BY <1>2, <2>2 DEF HciSet, SetReturns, Touch, Ways
    <3>3. NothingYet' /\ NameHolds' /\ SwitchHolds'
      BY <3>1, <3>2, <1>2 DEF HciSet, NothingYet, NameHolds, SwitchHolds
    <3>4. Ways'
      BY <1>2, <3>1, <3>2 DEF HciSet, Ways
    <3>5. EffectHolds'
      BY <2>0, <2>2, <3>1, <3>2 DEF EffectHolds
    <3>6. RightDevice' /\ ReadBack'
      BY <1>2, <2>0, <3>1, <3>2 DEF HciSet, RightDevice, ReadBack, NothingYet
    <3> QED BY <3>3, <3>4, <3>5, <3>6
  <2> QED BY <1>2, <2>1, <2>2 DEF HciSet, FallsBack, IoctlResult
<1>3. ASSUME NEW p \in Proc, HciNoSocket(p) PROVE CInv'
  <2>1. NothingYet'
    BY <1>3 DEF HciNoSocket, NothingYet
  <2>2. NameHolds'
    BY <1>3 DEF HciNoSocket, NameHolds, NothingYet
  <2>3. SwitchHolds'
    BY <1>3 DEF HciNoSocket, SwitchHolds, NameHolds, NothingYet
  <2>4. Ways'
    BY <1>3 DEF HciNoSocket, Ways, NothingYet
  <2>5. EffectHolds'
    BY <1>3 DEF HciNoSocket, EffectHolds, NothingYet
  <2>6. RightDevice'
    BY <1>3 DEF HciNoSocket, RightDevice, NothingYet
  <2>7. ReadBack'
    BY <1>3 DEF HciNoSocket, ReadBack, NothingYet
  <2> QED BY <2>1, <2>2, <2>3, <2>4, <2>5, <2>6, <2>7
<1>4. ASSUME NEW p \in Proc, Find(p) PROVE CInv'
  <2>0. p \notin went /\ opened[p] \in named =>
          /\ rfkill_find(p) # {}
          /\ \A n \in rfkill_find(p) : n \in DOMAIN owner /\ owner[n] = opened[p]
    BY <1>4, FindsOwnSwitch DEF Find, IInv
  <2>1. NothingYet'
    BY <1>4 DEF Find, Found, SetReturns, GetReturns, NothingYet
  <2>2. NameHolds'
    BY <1>4 DEF Find, Found, SetReturns, GetReturns, NameHolds, NothingYet
  <2>3. SwitchHolds'
    BY <1>4, <2>0 DEF Find, Found, SetReturns, GetReturns, SwitchHolds
  <2>4. Ways'
    BY <1>4 DEF Find, Found, SetReturns, GetReturns, Ways, NothingYet
  <2>5. EffectHolds'
    BY <1>4 DEF Find, Found, SetReturns, GetReturns, EffectHolds, NothingYet
  <2>6. RightDevice'
    BY <1>4 DEF Find, Found, SetReturns, GetReturns, RightDevice, NothingYet
  <2>7. ReadBack'
    BY <1>4, <2>0 DEF Find, Found, SetReturns, GetReturns, ReadBack, NothingYet
  <2> QED BY <2>1, <2>2, <2>3, <2>4, <2>5, <2>6, <2>7
<1>5. ASSUME NEW p \in Proc, FindAny(p) PROVE CInv'
  <2>1. NothingYet'
    BY <1>5 DEF FindAny, Found, SetReturns, GetReturns, NothingYet
  <2>2. NameHolds'
    BY <1>5 DEF FindAny, Found, SetReturns, GetReturns, NameHolds, NothingYet
  <2>3. SwitchHolds'
    BY <1>5 DEF FindAny, Found, SetReturns, GetReturns, SwitchHolds, NameHolds, NothingYet
  <2>4. Ways'
    BY <1>5 DEF FindAny, Found, SetReturns, GetReturns, Ways, NothingYet
  <2>5. EffectHolds'
    BY <1>5 DEF FindAny, Found, SetReturns, GetReturns, EffectHolds, NothingYet
  <2>6. RightDevice'
    BY <1>5 DEF FindAny, Found, SetReturns, GetReturns, RightDevice, NothingYet
  <2>7. ReadBack'
    BY <1>5 DEF FindAny, Found, SetReturns, GetReturns, ReadBack, SwitchHolds
  <2> QED BY <2>1, <2>2, <2>3, <2>4, <2>5, <2>6, <2>7
<1>6. ASSUME NEW p \in Proc, SetSoft(p) PROVE CInv'
  <2> DEFINE n == number[p]
  <2>1. CASE /\ UNCHANGED <<soft, up, call>>
             /\ SetReturns(p, IF n \in DOMAIN soft THEN "eperm" ELSE "enoent")
    <3>1. NothingYet' /\ NameHolds' /\ SwitchHolds'
      BY <1>6, <2>1 DEF SetSoft, SetReturns, NothingYet, NameHolds, SwitchHolds
    <3>2. Ways' /\ EffectHolds' /\ RightDevice' /\ ReadBack'
      BY <1>6, <2>1 DEF SetSoft, SetReturns, Ways, EffectHolds, RightDevice, ReadBack, NothingYet
    <3> QED BY <3>1, <3>2
  <2>2. CASE /\ n \in DOMAIN soft
             /\ soft' = [soft EXCEPT ![n] = BlockFor(want[p])]
             /\ up' = IF BlockFor(want[p]) THEN up \ {owner[n]} ELSE up
             /\ Touch(p, owner[n], "rfkill")
             /\ SetReturns(p, "ok")
    <3>1. \A q \in Proc : disturbed'[q] <=> disturbed[q] \/ (q # p /\ opened[q] = owner[n])
      BY <2>2, Zenon DEF Touch
    <3>2. /\ pc' = [pc EXCEPT ![p] = IF IsBt(p) THEN "get_hci" ELSE "get_find"]
          /\ result' = [result EXCEPT ![p] = "ok"]
          /\ touched' = [touched EXCEPT ![p] = owner[n]] /\ via' = [via EXCEPT ![p] = "rfkill"]
          /\ UNCHANGED <<machine, plugged, slot, owner, regs, got, opened, name, want, number, went>>
      BY <1>6, <2>2 DEF SetSoft, SetReturns, Touch
    <3>3. p \notin went /\ opened[p] \in named => owner[n] = opened[p]
      BY <1>6 DEF SetSoft, SwitchHolds
    <3>4. NothingYet' /\ NameHolds' /\ SwitchHolds'
      BY <1>6, <3>1, <3>2 DEF SetSoft, NothingYet, NameHolds, SwitchHolds
    <3>5. Ways'
      BY <1>6, <3>1, <3>2 DEF SetSoft, Ways
    <3>6. EffectHolds'
      <4> SUFFICES ASSUME NEW q \in Proc, Undisturbed(q)'
                   PROVE  /\ via'[q] = "hci" => (opened[q] \in up' <=> want[q])
                          /\ via'[q] = "rfkill" /\ opened[q] \in named =>
                               /\ \A m \in DOMAIN owner :
                                    owner[m] = opened[q] => (soft'[m] <=> ~want[q])
                               /\ ~want[q] => opened[q] \notin up'
        BY <3>2 DEF EffectHolds
      <4>1. CASE q = p
        <5>1. soft'[n] <=> ~want[p]
          BY <2>2, Zenon DEF BlockFor
        <5>2. opened[p] \in named =>
                owner[n] = opened[p] /\ \A m \in DOMAIN owner : owner[m] = opened[p] => m = n
          BY <2>2, <3>1, <3>2, <3>3, <4>1 DEF OneSwitchEach, IInv
        <5>3. ~want[p] => up' = up \ {owner[n]}
          BY <2>2 DEF BlockFor
        <5> QED BY <3>2, <4>1, <5>1, <5>2, <5>3
      <4>2. CASE q # p
        <5>1. Undisturbed(q) /\ opened[q] # owner[n] /\ via'[q] = via[q]
          BY <3>1, <3>2, <4>2
        <5>2. opened[q] \in up' <=> opened[q] \in up
          BY <2>2, <5>1
        <5>3. \A m \in DOMAIN owner : owner[m] = opened[q] => soft'[m] = soft[m]
          BY <2>2, <5>1
        <5> QED BY <5>1, <5>2, <5>3 DEF EffectHolds
      <4> QED BY <4>1, <4>2
    <3>7. RightDevice' /\ ReadBack'
      BY <1>6, <3>1, <3>2, <3>3 DEF SetSoft, RightDevice, ReadBack, NothingYet
    <3> QED BY <3>4, <3>5, <3>6, <3>7
  <2> QED BY <1>6, <2>1, <2>2 DEF SetSoft
<1>7. ASSUME NEW p \in Proc, HciGet(p) PROVE CInv'
  <2>0. p \notin went => Current(p) = {opened[p]}
    BY <1>7, CurrentIsOpened DEF HciGet, IInv
  <2>1. NothingYet'
    BY <1>7 DEF HciGet, GetReturns, NothingYet
  <2>2. NameHolds'
    BY <1>7 DEF HciGet, GetReturns, NameHolds, NothingYet
  <2>3. SwitchHolds'
    BY <1>7 DEF HciGet, GetReturns, SwitchHolds, NameHolds, NothingYet
  <2>4. Ways'
    <3>1. pc' = [pc EXCEPT ![p] = "done"] \/ (pc' = [pc EXCEPT ![p] = "get_find"] /\ p \in went)
      BY <1>7, <2>0 DEF HciGet, GetReturns
    <3> QED BY <1>7, <3>1 DEF HciGet, Ways
  <2>5. EffectHolds'
    BY <1>7 DEF HciGet, GetReturns, EffectHolds, NothingYet
  <2>6. RightDevice'
    BY <1>7 DEF HciGet, GetReturns, RightDevice, NothingYet
  <2>7. ReadBack'
    <3> SUFFICES ASSUME Undisturbed(p), opened[p] \in named,
                        ~(want[p] /\ via[p] = "rfkill"), got'[p] # "none"
                 PROVE  got'[p] = IF want[p] THEN "on" ELSE "off"
      BY <1>7 DEF HciGet, GetReturns, ReadBack, Ways
    <3>1. got'[p] = IF opened[p] \in up THEN "on" ELSE "off"
      BY <1>7, <2>0 DEF HciGet, GetReturns, NothingYet
    <3>2. opened[p] \in up <=> want[p]
      BY DEF EffectHolds, Ways
    <3> QED BY <3>1, <3>2
  <2> QED BY <2>1, <2>2, <2>3, <2>4, <2>5, <2>6, <2>7
<1>8. ASSUME NEW p \in Proc, GetSoft(p) PROVE CInv'
  <2>1. NothingYet'
    BY <1>8 DEF GetSoft, GetReturns, PowerOf, NothingYet
  <2>2. NameHolds'
    BY <1>8 DEF GetSoft, GetReturns, PowerOf, NameHolds, NothingYet
  <2>3. SwitchHolds'
    BY <1>8 DEF GetSoft, GetReturns, PowerOf, SwitchHolds, NameHolds, NothingYet
  <2>4. Ways'
    BY <1>8 DEF GetSoft, GetReturns, PowerOf, Ways, NothingYet
  <2>5. EffectHolds'
    BY <1>8 DEF GetSoft, GetReturns, PowerOf, EffectHolds, NothingYet
  <2>6. RightDevice'
    BY <1>8 DEF GetSoft, GetReturns, PowerOf, RightDevice, NothingYet
  <2>7. ReadBack'
    <3> SUFFICES ASSUME Undisturbed(p), opened[p] \in named
                 PROVE  got'[p] = IF want[p] THEN "on" ELSE "off"
      BY <1>8 DEF GetSoft, GetReturns, ReadBack
    <3>1. number[p] \in DOMAIN owner /\ owner[number[p]] = opened[p] /\ DOMAIN owner = DOMAIN soft
      BY <1>8 DEF GetSoft, SwitchHolds
    <3>2. via[p] = "rfkill"
      BY <1>8 DEF GetSoft, Ways
    <3>3. soft[number[p]] <=> ~want[p]
      BY <3>1, <3>2, Zenon DEF EffectHolds
    <3>4. got'[p] = IF soft[number[p]] THEN "off" ELSE "on"
      BY <1>8, <3>1 DEF GetSoft, GetReturns, PowerOf
    <3> QED BY <3>3, <3>4
  <2> QED BY <2>1, <2>2, <2>3, <2>4, <2>5, <2>6, <2>7
<1>9. ASSUME NEW d \in Dev, Unplug(d) PROVE CInv'
  <2>1. NothingYet'
    BY <1>9 DEF Unplug, NothingYet
  <2>2. NameHolds'
    BY <1>9 DEF Unplug, NameHolds, NothingYet
  <2>3. SwitchHolds'
    <3> SUFFICES ASSUME NEW q \in Proc, q \notin went', opened[q] \in named,
                        pc[q] \in {"soft", "get_soft"}
                 PROVE  number[q] \in DOMAIN owner' /\ owner'[number[q]] = opened[q]
      BY <1>9 DEF Unplug, SwitchHolds
    <3>1. q \notin went /\ opened[q] # d
      BY <1>9 DEF Unplug
    <3> QED BY <1>9, <3>1 DEF Unplug, SwitchHolds, SwitchOf
  <2>4. Ways'
    BY <1>9 DEF Unplug, Ways, NothingYet
  <2>5. EffectHolds'
    BY <1>9 DEF Unplug, EffectHolds, NothingYet
  <2>6. RightDevice'
    BY <1>9 DEF Unplug, RightDevice, NothingYet
  <2>7. ReadBack'
    BY <1>9 DEF Unplug, ReadBack, NothingYet
  <2> QED BY <2>1, <2>2, <2>3, <2>4, <2>5, <2>6, <2>7
<1>10. ASSUME NEW d \in Dev, Plug(d) PROVE CInv'
  <2>1. NothingYet'
    BY <1>10 DEF Plug, NothingYet
  <2>2. NameHolds'
    BY <1>10 DEF Plug, NameHolds, NothingYet
  <2>3. SwitchHolds'
    BY <1>10 DEF Plug, SwitchHolds, NameHolds, NothingYet
  <2>4. Ways'
    BY <1>10 DEF Plug, Ways, NothingYet
  <2>5. EffectHolds'
    <3> SUFFICES ASSUME NEW q \in Proc, Undisturbed(q), via[q] = "rfkill", opened[q] \in named,
                        NEW n \in DOMAIN owner', owner'[n] = opened[q]
                 PROVE  soft'[n] <=> ~want[q]
      BY <1>10 DEF Plug, EffectHolds
    <3>1. opened[q] \in plugged
      BY DEF NothingYet, NameHolds
    <3>2. n \in DOMAIN owner /\ owner[n] = opened[q] /\ soft'[n] = soft[n]
      BY <1>10, <3>1 DEF Plug
    <3> QED BY <3>2 DEF EffectHolds
  <2>6. RightDevice'
    BY <1>10 DEF Plug, RightDevice, NothingYet
  <2>7. ReadBack'
    BY <1>10 DEF Plug, ReadBack, NothingYet
  <2> QED BY <2>1, <2>2, <2>3, <2>4, <2>5, <2>6, <2>7
<1>11. CASE UNCHANGED vars
  <2>1. NothingYet' /\ NameHolds' /\ SwitchHolds' /\ Ways'
    BY <1>11 DEF vars, NothingYet, NameHolds, SwitchHolds, Ways
  <2>2. EffectHolds' /\ RightDevice' /\ ReadBack'
    BY <1>11 DEF vars, EffectHolds, RightDevice, ReadBack
  <2> QED BY <2>1, <2>2
<1> QED
  BY <1>1, <1>2, <1>3, <1>4, <1>5, <1>6, <1>7, <1>8, <1>9, <1>10, <1>11 DEF Next

(* Every step preserves the inductive invariant. *)
LEMMA NextIInv == IInv /\ [Next]_vars => IInv'
BY NextTypeOK, NextDevices, NextClients DEF IInv

(* The inductive invariant holds of every behaviour of clients and radios. *)
THEOREM InductiveInvariant == Spec => []IInv
BY InitIInv, NextIInv, PTL DEF Spec

(* Only a plugged controller is up, every switch belongs to a radio that is *)
(* there, and the numbers that radios take stay in range.                   *)
THEOREM TypeCorrect == Spec => []TypeOK
<1>1. IInv => TypeOK
  BY DEF IInv
<1> QED BY <1>1, InductiveInvariant, PTL

(* An undisturbed "off" that returned 0 has the controller down, by HCI or  *)
(* by rfkill.                                                               *)
THEOREM OffSafe == Spec => []OffIsOff
<1>1. IInv => OffIsOff
  BY DEF IInv, OffIsOff, EffectHolds, SwitchHolds, Ways, TypeOK, IsBt, Undisturbed
<1> QED BY <1>1, InductiveInvariant, PTL

(* An undisturbed "on" that returned 0 to a privileged client has the       *)
(* controller up.                                                           *)
THEOREM OnSafe == Spec => []OnIsUp
<1>1. IInv => OnIsUp
  BY DEF IInv, OnIsUp, EffectHolds, Ways, TypeOK, IsBt, Undisturbed
<1> QED BY <1>1, InductiveInvariant, PTL

(* A set changes no radio but the one opened, whatever other clients do,    *)
(* unless that went or its switch does not carry its name.                  *)
THEOREM RightDeviceSafe == Spec => []RightDevice
<1>1. IInv => RightDevice
  BY DEF IInv
<1> QED BY <1>1, InductiveInvariant, PTL

(* A get on the handle of an undisturbed set returns what was set. *)
THEOREM ReadBackSafe == Spec => []ReadBack
<1>1. IInv => ReadBack
  BY DEF IInv
<1> QED BY <1>1, InductiveInvariant, PTL
=============================================================================
