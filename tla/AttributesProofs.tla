-------------------------- MODULE AttributesProofs --------------------------
(***************************************************************************)
(* What a session with one attribute keeps for every number of devices,     *)
(* every width of int and long and every number that may be typed.  IInv    *)
(* has two halves.  One is about the way to the device: where a call is,    *)
(* what its handle holds, and that while nothing moves the straight path    *)
(* leads to the device that is meant.  The other is about the text: what a  *)
(* file can hold, that the text to write is what the setter made of its     *)
(* argument, and that a set which reports success left what reads as it was *)
(* given.  Between them stand the lemmas about the conversions, by          *)
(* attribute: from what was typed to the argument, to the text, through the *)
(* kernel and back.                                                         *)
(***************************************************************************)
EXTENDS Attributes, FiniteSetTheorems, FunctionTheorems, TLAPS

(* IntMod is even, so that int is symmetric around -1/2. *)
LEMMA HalfRange == \E h \in Nat : IntMod = 2 * h /\ IntMod \div 2 = h /\ IntMax = h - 1 /\ h > 65536
<1> DEFINE h == IntMod \div 2
<1>1. h \in Nat /\ IntMod = 2 * h /\ h > 65536
  BY AttrCodecAssumption
<1>2. IntMax = h - 1 /\ IntMod \div 2 = h
  BY DEF IntMax
<1> HIDE DEF h
<1> QED BY <1>1, <1>2

(* int holds the bounds the commands check for, and long more than int. *)
LEMMA IntRange == IntMax \in Nat /\ IntMax >= 65536 /\ LongMax \in Nat /\ LongMax > IntMax + 1
BY HalfRange, AttrCodecAssumption

(* A number that an int holds survives the cast. *)
LEMMA WrappedFits == \A n \in (-IntMax - 1)..IntMax : n \in Int /\ Wrapped(n) = n
<1>1. PICK h \in Nat : IntMod = 2 * h /\ IntMod \div 2 = h /\ IntMax = h - 1 /\ h > 65536
  BY HalfRange
<1> SUFFICES ASSUME NEW n \in (-IntMax - 1)..IntMax PROVE n \in Int /\ Wrapped(n) = n
  OBVIOUS
<1>2. n \in Int /\ n + h \in 0..(2 * h - 1)
  BY <1>1
<1>3. (n + h) % (2 * h) = n + h
  BY <1>1, <1>2
<1> QED BY <1>1, <1>2, <1>3 DEF Wrapped

(* The cast yields an int, whatever the number. *)
LEMMA WrappedType == \A n \in Int : Wrapped(n) \in (-IntMax - 1)..IntMax
<1>1. PICK h \in Nat : IntMod = 2 * h /\ IntMod \div 2 = h /\ IntMax = h - 1 /\ h > 65536
  BY HalfRange
<1> SUFFICES ASSUME NEW n \in Int PROVE Wrapped(n) \in (-IntMax - 1)..IntMax
  OBVIOUS
<1>2. (n + h) % (2 * h) \in 0..(2 * h - 1)
  BY <1>1
<1> QED BY <1>1, <1>2 DEF Wrapped

(* The number of smaller members grows along a finite set of numbers. *)
LEMMA RankGrows ==
  ASSUME NEW S \in SUBSET Int, IsFiniteSet(S)
  PROVE  /\ Cardinality(S) \in Nat
         /\ \A x \in S : Cardinality({y \in S : y < x}) \in 0..(Cardinality(S) - 1)
         /\ \A x, z \in S : x < z => Cardinality({y \in S : y < x}) < Cardinality({y \in S : y < z})
<1> DEFINE Below(x) == {y \in S : y < x}
<1>1. Cardinality(S) \in Nat
  BY FS_CardinalityType
<1>2. ASSUME NEW x \in S
      PROVE  IsFiniteSet(Below(x)) /\ Cardinality(Below(x)) \in 0..(Cardinality(S) - 1)
  <2>1. Below(x) \in SUBSET S /\ Below(x) # S
    OBVIOUS
  <2>2. IsFiniteSet(Below(x)) /\ Cardinality(Below(x)) <= Cardinality(S)
        /\ Cardinality(S) # Cardinality(Below(x))
    BY <2>1, FS_Subset
  <2>3. Cardinality(Below(x)) \in Nat
    BY <2>2, FS_CardinalityType
  <2> QED BY <1>1, <2>2, <2>3
<1>3. ASSUME NEW x \in S, NEW z \in S, x < z
      PROVE  Cardinality(Below(x)) < Cardinality(Below(z))
  <2>1. Below(x) \in SUBSET Below(z) /\ Below(z) # Below(x)
    <3>1. x \in Below(z) /\ x \notin Below(x)
      BY <1>3
    <3>2. \A y \in Below(x) : y \in Below(z)
      BY <1>3
    <3> QED BY <3>1, <3>2
  <2>2. IsFiniteSet(Below(z))
    BY <1>2
  <2>3. Cardinality(Below(x)) <= Cardinality(Below(z)) /\ Cardinality(Below(z)) # Cardinality(Below(x))
    BY <2>1, <2>2, FS_Subset
  <2>4. Cardinality(Below(x)) \in Int /\ Cardinality(Below(z)) \in Int
    BY <1>1, <1>2
  <2> QED BY <2>3, <2>4
<1> QED BY <1>1, <1>2, <1>3

(* A finite set of numbers can be listed in ascending order. *)
LEMMA SortedLists ==
  ASSUME NEW S \in SUBSET Int, IsFiniteSet(S)
  PROVE  /\ Sorted(S) \in [1..Cardinality(S) -> S]
         /\ \A i, j \in 1..Cardinality(S) : i < j => Sorted(S)[i] < Sorted(S)[j]
<1> DEFINE n == Cardinality(S)
           rank == [x \in S |-> Cardinality({y \in S : y < x}) + 1]
<1>1. n \in Nat /\ rank \in [S -> 1..n] /\ \A x, z \in S : x < z => rank[x] < rank[z]
  <2>1. n \in Nat
    BY RankGrows
  <2>2. rank \in [S -> 1..n]
    <3>1. ASSUME NEW x \in S PROVE Cardinality({y \in S : y < x}) + 1 \in 1..n
      <4>1. Cardinality({y \in S : y < x}) \in 0..(n - 1)
        BY RankGrows
      <4> QED BY <2>1, <4>1
    <3> QED BY <3>1
  <2>3. ASSUME NEW x \in S, NEW z \in S, x < z PROVE rank[x] < rank[z]
    <3>1. Cardinality({y \in S : y < x}) < Cardinality({y \in S : y < z})
      BY <2>3, RankGrows
    <3>2. Cardinality({y \in S : y < x}) \in Int /\ Cardinality({y \in S : y < z}) \in Int
      <4>1. \A u \in S : Cardinality({y \in S : y < u}) \in 0..(n - 1)
        BY RankGrows
      <4> QED BY <4>1, <2>1
    <3> QED BY <3>1, <3>2
  <2> QED BY <2>1, <2>2, <2>3
<1> HIDE DEF rank
<1>2. rank \in Injection(S, 1..n)
  <2>1. \A x, z \in S : rank[x] = rank[z] => x = z
    BY <1>1
  <2> QED BY <1>1, <2>1, Fun_IsInj
<1>3. rank \in Surjection(S, 1..n)
  <2>1. IsFiniteSet(1..n) /\ Cardinality(1..n) = n
    BY <1>1, FS_Interval
  <2> QED BY <1>2, <2>1, FS_Injection
<1>4. \A i \in 1..n : \E x \in S : rank[x] = i
  BY <1>3, Fun_SurjectionProperties
<1> DEFINE f == [i \in 1..n |-> CHOOSE x \in S : rank[x] = i]
<1>5. \A i \in 1..n : f[i] \in S /\ rank[f[i]] = i
  BY <1>4
<1>6. f \in [1..n -> S]
  BY <1>5
<1> HIDE DEF f
<1>7. ASSUME NEW i \in 1..n, NEW j \in 1..n, i < j PROVE f[i] < f[j]
  <2>1. PICK x \in S : x = f[i] /\ rank[x] = i
    BY <1>5
  <2>2. PICK z \in S : z = f[j] /\ rank[z] = j
    BY <1>5
  <2>3. x # z /\ ~(z < x)
    BY <1>1, <1>7, <2>1, <2>2
  <2>4. x \in Int /\ z \in Int
    OBVIOUS
  <2> QED BY <2>1, <2>2, <2>3, <2>4
<1>8. \E g \in [1..n -> S] : \A i, j \in 1..n : i < j => g[i] < g[j]
  BY <1>6, <1>7
<1> QED BY <1>8 DEF Sorted

(* The i-th member in ascending order is the one with i - 1 smaller ones.   *)
LEMMA SortedRank ==
  ASSUME NEW S \in SUBSET Int, IsFiniteSet(S), NEW i \in 1..Cardinality(S)
  PROVE  {m \in S : Cardinality({k \in S : k < m}) = i - 1} = {Sorted(S)[i]}
<1> DEFINE n == Cardinality(S)
           f == Sorted(S)
<1>1. n \in Nat /\ f \in [1..n -> S] /\ \A p, q \in 1..n : p < q => f[p] < f[q]
  BY SortedLists, RankGrows
<1> HIDE DEF f
<1>2. \A p, q \in 1..n : f[p] = f[q] => p = q
  <2> SUFFICES ASSUME NEW p \in 1..n, NEW q \in 1..n, f[p] = f[q] PROVE p = q
    OBVIOUS
  <2>1. f[p] \in Int /\ f[q] \in Int
    BY <1>1
  <2>2. ~(p < q) /\ ~(q < p)
    BY <1>1, <2>1
  <2> QED BY <2>2, <1>1
<1>3. \A x \in S : \E p \in 1..n : f[p] = x
  <2>1. f \in Injection(1..n, S)
    BY <1>1, <1>2, Fun_IsInj
  <2>2. Cardinality(1..n) = n
    BY <1>1, FS_Interval
  <2>3. f \in Surjection(1..n, S)
    BY <2>1, <2>2, FS_Injection
  <2> QED BY <2>3 DEF Surjection
<1> DEFINE T == {k \in S : k < f[i]}
           g == [p \in 1..(i - 1) |-> f[p]]
<1>4. i \in Int /\ i - 1 \in Nat /\ \A p \in 1..(i - 1) : p \in 1..n /\ p < i
  BY <1>1
<1>5. \A p \in 1..(i - 1) : g[p] = f[p] /\ f[p] \in T
  BY <1>1, <1>4
<1>6. \A x \in T : \E p \in 1..(i - 1) : g[p] = x
  <2> SUFFICES ASSUME NEW x \in T PROVE \E p \in 1..(i - 1) : f[p] = x
    OBVIOUS
  <2>1. PICK p \in 1..n : f[p] = x
    BY <1>3
  <2>2. f[i] \in Int /\ f[p] < f[i]
    BY <1>1, <2>1
  <2>3. p # i /\ ~(i < p)
    BY <1>1, <2>1, <2>2
  <2> QED BY <2>1, <2>3, <1>1
<1>7. g \in Bijection(1..(i - 1), T)
  <2>1. g \in [1..(i - 1) -> T]
    BY <1>5
  <2>2. \A p, q \in 1..(i - 1) : g[p] = g[q] => p = q
    BY <1>2, <1>4, <1>5
  <2> HIDE DEF g, T
  <2> QED BY <1>6, <2>1, <2>2, Fun_IsBij
<1>8. Cardinality(T) = i - 1
  <2> HIDE DEF g, T
  <2>1. ExistsBijection(1..(i - 1), T)
    BY <1>7, Fun_ExistsBij
  <2> QED BY <2>1, <1>4, FS_CountingElements
<1>9. ASSUME NEW m \in S, Cardinality({k \in S : k < m}) = i - 1 PROVE m = f[i]
  <2>1. f[i] \in S
    BY <1>1
  <2>2. /\ m < f[i] => Cardinality({k \in S : k < m}) < Cardinality(T)
        /\ f[i] < m => Cardinality(T) < Cardinality({k \in S : k < m})
    BY <2>1, RankGrows
  <2>3. ~(m < f[i]) /\ ~(f[i] < m)
    <3> HIDE DEF T
    <3> QED BY <1>8, <1>9, <2>2, <1>4
  <2>4. m \in Int /\ f[i] \in Int
    BY <2>1
  <2> QED BY <2>3, <2>4
<1> QED BY <1>1, <1>8, <1>9 DEF f
(* The steps that give up: the call fails and nothing else changes. *)
LEMMA FailingSteps ==
  ASSUME OpenFails \/ LookupFails \/ CheckFails \/ WriteFails \/ Write2Fails \/ ReadFails
  PROVE  Fail /\ UNCHANGED args /\ pc \in {"open", "lookup", "check", "write", "write2", "read"}
BY DEF OpenFails, LookupFails, CheckFails, WriteFails, Write2Fails, ReadFails

(* Every index that may be typed arrives as an int. *)
LEMMA AskedArrives ==
  ASSUME NEW a, NEW n \in Asked(a), NEW m \in Targets(a, n)
  PROVE  m \in (-IntMax - 1)..IntMax
<1>1. MaxName \in Int /\ MaxName >= 1 /\ MaxName <= IntMax
  BY AttributesAssumption, IntRange
<1>2. 0 \in (-IntMax - 1)..IntMax /\ \A k \in Name : k \in (-IntMax - 1)..IntMax
  BY <1>1, IntRange DEF Name
<1>3. Indices \subseteq Int
  BY AttributesAssumption, IntRange
<1>4. n \in Int /\ (a \notin CastIndex => n = 0 \/ Wrapped(n) = n)
  BY <1>3 DEF Asked
<1>5. Wrapped(n) \in (-IntMax - 1)..IntMax
  BY <1>4, WrappedType
<1>6. m \in Name \/ m = Wrapped(n) \/ m = 0
  BY <1>4 DEF Targets
<1> QED BY <1>2, <1>5, <1>6

(* An index leads to a device only if it is a name. *)
LEMMA AtType ==
  ASSUME TypeOK, NEW n
  PROVE  /\ At(n) \in Dev \cup {NoDev}
         /\ At(n) # NoDev => n \in Name /\ At(n) = at[n] /\ At(n) \in Dev
         /\ At(n) # NoDev => number[At(n)] \in 0..MaxNumber
<1>1. At(n) \in Dev \cup {NoDev} /\ (At(n) # NoDev => n \in Name /\ At(n) = at[n] /\ At(n) \in Dev)
  BY DEF At, TypeOK
<1>2. At(n) # NoDev => number[At(n)] \in -1..MaxNumber /\ number[At(n)] # -1
  BY <1>1 DEF TypeOK
<1> QED BY <1>1, <1>2, AttributesAssumption

(* A path leads to a device or to none. *)
LEMMA ReachedType ==
  ASSUME TypeOK, FoundOK
  PROVE  Reached(found) \in Dev \cup {NoDev}
<1>1. \A k : Owner(k) \in Dev \cup {NoDev}
  BY DEF Owner
<1>2. \A i : get_handle(i) \in Dev \cup {NoDev}
  BY <1>1 DEF get_handle
<1>3. CASE found[1] \in {"name", "hwmon"}
  BY <1>3, AtType DEF Reached
<1>4. CASE found[1] = "number"
  BY <1>1, <1>4 DEF Reached
<1>5. CASE found[1] = "nvml"
  BY <1>2, <1>5 DEF Reached
<1>6. CASE found[1] = "none"
  BY <1>6 DEF Reached
<1> QED BY <1>3, <1>4, <1>5, <1>6 DEF TypeOK

(* The names in use are finitely many numbers. *)
LEMMA PresentFinite ==
  Present \in SUBSET Int /\ IsFiniteSet(Present) /\ Cardinality(Present) \in Nat
<1>1. MaxName \in Int
  BY AttributesAssumption, IntRange
<1>2. IsFiniteSet(Name) /\ Name \subseteq Int
  BY <1>1, FS_Interval DEF Name
<1>3. Present \in SUBSET Name
  BY DEF Present
<1>4. IsFiniteSet(Present)
  BY <1>2, <1>3, FS_Subset
<1> QED BY <1>2, <1>3, <1>4, FS_CardinalityType

(* The name of a battery is one of the names in use. *)
LEMMA BatteryName ==
  ASSUME NEW i, nth_battery_name(i) # NotFound
  PROVE  /\ i + 1 \in 1..Cardinality(Present)
         /\ nth_battery_name(i) = <<"name", Sorted(Present)[i + 1]>>
         /\ Sorted(Present)[i + 1] \in Present
<1>1. i \in 0..(Cardinality(Present) - 1) /\ nth_battery_name(i) = <<"name", Sorted(Present)[i + 1]>>
  BY DEF nth_battery_name
<1>2. i + 1 \in 1..Cardinality(Present)
  BY <1>1, PresentFinite
<1>3. Sorted(Present) \in [1..Cardinality(Present) -> Present]
  BY PresentFinite, SortedLists
<1> QED BY <1>1, <1>2, <1>3

(* What a lookup finds, by attribute. *)
LEMMA PathForm ==
  ASSUME TypeOK, FoundOK, pc = "lookup", IndexOK, Path # NotFound
  PROVE  /\ Path[1] \in {"name", "number", "hwmon", "nvml"} /\ Path[2] >= 0
         /\ Path[1] \in {"hwmon", "nvml"} => Path[2] = target
         /\ attr \in Hwmon => Path[1] \in {"hwmon", "nvml"}
         /\ attr \in Hwmon /\ Path[1] = "nvml" => op = "get"
<1>0. target \in Int /\ target >= 0
  BY IntRange DEF TypeOK, IndexOK
<1> DEFINE Goal == /\ Path[1] \in {"name", "number", "hwmon", "nvml"} /\ Path[2] >= 0
                   /\ Path[1] \in {"hwmon", "nvml"} => Path[2] = target
                   /\ attr \in Hwmon => Path[1] \in {"hwmon", "nvml"}
                   /\ attr \in Hwmon /\ Path[1] = "nvml" => op = "get"
<1>n. NumberAt(target) # NotFound =>
        NumberAt(target) = <<"number", number[At(target)]>> /\ number[At(target)] >= 0
  BY AtType, AttributesAssumption DEF NumberAt
<1>1. CASE attr \in Battery
  <2>1. Path = nth_battery_name(target) /\ attr \notin Hwmon
    BY <1>1 DEF Path, Battery, Hwmon
  <2>2. Path = <<"name", Sorted(Present)[target + 1]>> /\ Sorted(Present)[target + 1] \in Present
    BY <2>1, BatteryName
  <2>3. Sorted(Present)[target + 1] >= 0
    BY <2>2, AttributesAssumption, IntRange DEF Present, Name
  <2> QED BY <2>1, <2>2, <2>3
<1>2. CASE attr \in {"cooling", "irq_affinity"}
  <2>1. Path = NumberAt(target) /\ attr \notin Hwmon
    BY <1>2 DEF Path, Battery, Hwmon, zone_cdev_index, net_irq_path
  <2> QED BY <1>n, <2>1
<1>3. CASE attr \in Hwmon
  <2>1. Path = HwmonOrNvml(target)
    BY <1>3 DEF Path, Battery, Hwmon
  <2>2. found = NotFound \/ (found # NotFound /\ found[1] = "hwmon" /\ found[2] = target)
    BY <1>3 DEF FoundOK, TypeOK
  <2>3. CASE found = NotFound
    BY <1>0, <1>3, <2>1, <2>3 DEF HwmonOrNvml, gpu_hwmon, gpu_find_hwmon, NotFound
  <2>4. CASE found # NotFound /\ found[1] = "hwmon" /\ found[2] = target
    BY <1>0, <1>3, <2>1, <2>4 DEF HwmonOrNvml, gpu_hwmon
  <2> QED BY <2>2, <2>3, <2>4
<1>4. CASE attr = "power_limit"
  BY <1>0, <1>4 DEF Path, Battery, Hwmon
<1>5. CASE attr = "usb_reset"
  <2>1. Path = zenctl_usb_reset /\ attr \notin Hwmon
    BY <1>5 DEF Path, Battery, Hwmon
  <2>2. CASE found = NotFound
    BY <1>n, <2>1, <2>2 DEF zenctl_usb_reset, read_bus_dev_nums
  <2>3. CASE found # NotFound
    BY <2>1, <2>3 DEF zenctl_usb_reset, TypeOK, FoundOK
  <2> QED BY <2>2, <2>3
<1>6. CASE attr \notin Battery \cup Hwmon \cup {"cooling", "irq_affinity", "power_limit", "usb_reset"}
  BY <1>0, <1>6 DEF Path, TypeOK
<1> QED BY <1>1, <1>2, <1>3, <1>4, <1>5, <1>6

-----------------------------------------------------------------------------
(* A device that goes takes its name and its number with it. *)
LEMMA UnplugKeeps ==
  ASSUME TypeOK, Carried, NEW n \in Name, Unplug(n)
  PROVE  TypeOK' /\ Carried'
<1> DEFINE e == at[n]
<1>1. e = at[n] /\ e \in Dev /\ e # NoDev /\ at' = [at EXCEPT ![n] = NoDev] /\ number' = [number EXCEPT ![e] = -1]
      /\ at \in [Name -> Dev \cup {NoDev}] /\ number \in [Dev -> -1..MaxNumber]
      /\ (\A d \in Dev : number[d] # -1 <=> d \in {at[m] : m \in Name})
      /\ (\A m \in Name : at[m] = e => m = n)
  BY AttributesAssumption DEF Unplug, Present, TypeOK, Carried
<1> HIDE DEF e
<1>2. at' \in [Name -> Dev \cup {NoDev}] /\ \A m \in Name : at'[m] = IF m = n THEN NoDev ELSE at[m]
  BY <1>1
<1>3. -1 \in -1..MaxNumber
  BY AttributesAssumption
<1>4. number' \in [Dev -> -1..MaxNumber] /\ \A d \in Dev : number'[d] = IF d = e THEN -1 ELSE number[d]
  BY <1>1, <1>3
<1>5. ASSUME NEW d \in Dev PROVE number'[d] # -1 <=> \E m \in Name : at'[m] = d
  <2>1. CASE d = e
    BY <1>1, <1>2, <1>4, <2>1, AttributesAssumption
  <2>2. CASE d # e
    <3>1. number'[d] # -1 <=> \E m \in Name : at[m] = d
      BY <1>1, <1>4, <2>2
    <3>2. \A m \in Name : at'[m] = d <=> at[m] = d
      BY <1>1, <1>2, <2>2, AttributesAssumption
    <3> QED BY <3>1, <3>2
  <2> QED BY <2>1, <2>2
<1>6. moves' \in 0..MaxMoves
  <2>1. Hotplugs \in 0..MaxMoves
    BY AttributesAssumption DEF Hotplugs
  <2> QED BY <2>1, AttributesAssumption DEF Unplug, TypeOK
<1>7. TypeOK'
  BY <1>2, <1>4, <1>5, <1>6 DEF TypeOK, Unplug, machine, args
<1>8. Carried'
  <2>1. \A m, q \in Name : at'[m] = at'[q] /\ at'[m] # NoDev => m = q
    BY <1>2 DEF Carried
  <2>2. \A c, d \in Dev : number'[c] = number'[d] /\ number'[c] # -1 => c = d
    BY <1>4 DEF Carried
  <2> QED BY <2>1, <2>2 DEF Carried
<1> QED BY <1>7, <1>8

(* A device that comes gets a name and a number that no other has. *)
LEMMA PlugKeeps ==
  ASSUME TypeOK, Carried, NEW e \in Dev, NEW n \in Name, NEW k \in 0..MaxNumber, Plug(e, n, k)
  PROVE  TypeOK' /\ Carried'
<1>1. number[e] = -1 /\ at[n] = NoDev /\ at' = [at EXCEPT ![n] = e] /\ number' = [number EXCEPT ![e] = k]
      /\ at \in [Name -> Dev \cup {NoDev}] /\ number \in [Dev -> -1..MaxNumber]
      /\ (\A d \in Dev : number[d] # -1 <=> d \in {at[m] : m \in Name})
      /\ (\A d \in Dev : number[d] # k) /\ e # NoDev
  BY AttributesAssumption DEF Plug, Present, InUse, TypeOK
<1>2. at' \in [Name -> Dev \cup {NoDev}] /\ \A m \in Name : at'[m] = IF m = n THEN e ELSE at[m]
  BY <1>1
<1>3. k \in -1..MaxNumber /\ k # -1
  BY AttributesAssumption
<1>4. number' \in [Dev -> -1..MaxNumber] /\ \A d \in Dev : number'[d] = IF d = e THEN k ELSE number[d]
  BY <1>1, <1>3
<1>5. ASSUME NEW d \in Dev PROVE number'[d] # -1 <=> \E m \in Name : at'[m] = d
  <2>1. CASE d = e
    BY <1>2, <1>3, <1>4, <2>1
  <2>2. CASE d # e
    <3>1. number'[d] # -1 <=> \E m \in Name : at[m] = d
      BY <1>1, <1>4, <2>2
    <3>2. \A m \in Name : at'[m] = d <=> at[m] = d
      BY <1>1, <1>2, <2>2, AttributesAssumption
    <3> QED BY <3>1, <3>2
  <2> QED BY <2>1, <2>2
<1>6. moves' \in 0..MaxMoves
  <2>1. Hotplugs \in 0..MaxMoves
    BY AttributesAssumption DEF Hotplugs
  <2> QED BY <2>1, AttributesAssumption DEF Plug, TypeOK
<1>7. TypeOK'
  BY <1>2, <1>4, <1>5, <1>6 DEF TypeOK, Plug, machine, args
<1>8. Carried'
  <2>1. \A m \in Name : at[m] # e
    BY <1>1
  <2>2. \A m, q \in Name : at'[m] = at'[q] /\ at'[m] # NoDev => m = q
    BY <1>2, <2>1 DEF Carried
  <2>3. \A c, d \in Dev : number'[c] = number'[d] /\ number'[c] # -1 => c = d
    BY <1>1, <1>4 DEF Carried
  <2> QED BY <2>2, <2>3 DEF Carried
<1> QED BY <1>7, <1>8

(* What the user means is a device or none. *)
LEMMA MeantType ==
  ASSUME TypeOK, NEW n
  PROVE  Meant(n) \in Dev \cup {NoDev}
<1>1. \A S : S \subseteq Present /\ S # {} => at[CHOOSE m \in S : TRUE] \in Dev \cup {NoDev}
  BY DEF TypeOK, Present
<1> QED BY <1>1 DEF Meant

(* Every step keeps the types, and names and numbers apart. *)
LEMMA TypeStep ==
  ASSUME TypeOK, Carried, Progress, FoundOK, [Next]_vars
  PROVE  TypeOK' /\ Carried'
<1> USE DEF machine, devices, args
<1>1. ASSUME NEW s \in Typed(attr), NEW n \in Asked(attr), Start(s, n) PROVE TypeOK' /\ Carried'
  <2>1. target' \in (-IntMax - 1)..IntMax
    BY <1>1, AskedArrives DEF Start
  <2>2. meant' \in Dev \cup {NoDev}
    BY <1>1, MeantType DEF Start
  <2>3. pc' \in {"open", "lookup", "between", "done"} /\ result' \in {"none", "ok", "error"}
        /\ op' \in {"set", "get"}
    BY <1>1 DEF Start, FirstStep, TypeOK
  <2> QED BY <1>1, <2>1, <2>2, <2>3 DEF Start, TypeOK, Carried
<1>2. CASE Open
  <2>1. opened' \in Dev \cup {NoDev}
    BY <1>2, AtType DEF Open
  <2>2. found' = NotFound \/ found' = <<"number", number[At(target)]>>
    BY <1>2 DEF Open, read_bus_dev_nums, NumberAt
  <2>3. number[At(target)] >= 0
    BY <1>2, AtType, AttributesAssumption DEF Open
  <2>4. found'[1] \in {"none", "number"} /\ (found' # NotFound => found'[2] >= 0)
    BY <2>2, <2>3 DEF NotFound
  <2> QED BY <1>2, <2>1, <2>4 DEF Open, TypeOK, Carried
<1>3. CASE Fail /\ UNCHANGED args
  BY <1>3 DEF Fail, After, TypeOK, Carried
<1>4. CASE Lookup
  <2>1. found'[1] \in {"name", "number", "hwmon", "nvml"} /\ found'[2] >= 0
    BY <1>4, PathForm DEF Lookup
  <2> QED BY <1>4, <2>1 DEF Lookup, TypeOK, Carried
<1>5. CASE Check
  BY <1>5 DEF Check, TypeOK, Carried
<1>6. CASE Write
  <2>1. Reached(found) \in Dev
    BY <1>6, ReachedType DEF Write, KernelTakes
  <2> QED BY <1>6, <2>1 DEF Write, After, TypeOK, Carried
<1>7. CASE FallBack
  BY <1>7 DEF FallBack, TypeOK, Carried
<1>8. CASE Write2
  <2>1. Reached(found) \in Dev
    BY <1>8, ReachedType DEF Write2
  <2> QED BY <1>8, <2>1 DEF Write2, After, TypeOK, Carried
<1>9. ASSUME NEW same \in BOOLEAN, Again(same) PROVE TypeOK' /\ Carried'
  <2>1. found'[1] \in {"none", "hwmon"} /\ (found' # NotFound => found'[2] >= 0)
    BY <1>9 DEF Again, NotFound, TypeOK
  <2> QED BY <1>9, <2>1 DEF Again, FirstStep, TypeOK, Carried
<1>10. CASE Read
  <2>1. Reached(found) \in Dev
    BY <1>10, ReachedType DEF Read
  <2> QED BY <1>10, <2>1 DEF Read, TypeOK, Carried
<1>11. ASSUME NEW d \in Dev, OtherWrites(d) PROVE TypeOK' /\ Carried'
  BY <1>11 DEF OtherWrites, TypeOK, Carried
<1>12. CASE ReadNvml
  <2>1. found' = <<"nvml", target>> /\ target >= 0
    BY <1>12 DEF ReadNvml, HwmonGone, FoundOK, TypeOK, NotFound
  <2> QED BY <1>12, <2>1 DEF ReadNvml, TypeOK, Carried
<1>13. CASE UNCHANGED vars
  BY <1>13 DEF vars, TypeOK, Carried
<1> QED BY <1>1, <1>2, <1>3, <1>4, <1>5, <1>6, <1>7, <1>8, <1>9, <1>10, <1>11, <1>12, <1>13,
           FailingSteps, UnplugKeeps, PlugKeeps DEF Next

(* The call proceeds as Progress says. *)
LEMMA ProgressStep ==
  ASSUME TypeOK, Progress, FoundOK, [Next]_vars
  PROVE  Progress'
<1> USE DEF machine, devices, args
<1>1. ASSUME NEW s \in Typed(attr), NEW n \in Asked(attr), Start(s, n) PROVE Progress'
  <2>1. ReadOnly \cap WriteOnly = {} /\ Unopened \cap WriteOnly = {"suspend"}
    BY DEF ReadOnly, WriteOnly, Unopened, Global, Indexed, Battery
  <2> QED BY <1>1, <2>1 DEF Start, FirstStep, Progress
<1>2. CASE Open
  BY <1>2 DEF Open, Progress
<1>3. CASE Fail /\ UNCHANGED args /\ pc \in {"open", "lookup", "check", "write", "write2", "read"}
  BY <1>3 DEF Fail, After, Progress
<1>4. CASE Lookup
  <2>1. RightDriver'
    BY <1>4 DEF Lookup, RightDriver, gpu_is_nvidia
  <2>2. op \in {"set", "get"}
    BY DEF TypeOK
  <2> QED BY <1>4, <2>1, <2>2 DEF Lookup, Progress
<1>5. CASE Check
  <2>1. RightDriver' <=> RightDriver
    BY <1>5 DEF Check, RightDriver, gpu_is_nvidia
  <2> QED BY <1>5, <2>1 DEF Check, Progress
<1>6. CASE Write
  BY <1>6 DEF Write, After, Progress
<1>7. CASE FallBack
  <2>1. RightDriver' <=> RightDriver
    BY <1>7 DEF FallBack, RightDriver, gpu_is_nvidia
  <2> QED BY <1>7, <2>1 DEF FallBack, Progress
<1>8. CASE Write2
  BY <1>8 DEF Write2, After, Progress
<1>9. ASSUME NEW same \in BOOLEAN, Again(same) PROVE Progress'
  BY <1>9 DEF Again, FirstStep, Progress
<1>10. CASE Read
  BY <1>10 DEF Read, Progress
<1>11. CASE UNCHANGED <<attr, kind, op, pc, args, opened, found, result, got, touched>>
            /\ (pc = "start" => moves' = moves)
  <2>1. RightDriver' <=> RightDriver
    BY <1>11 DEF RightDriver, gpu_is_nvidia
  <2> QED BY <1>11, <2>1 DEF Progress
<1>12. ASSUME NEW d \in Dev, OtherWrites(d) PROVE Progress'
  BY <1>11, <1>12 DEF OtherWrites
<1>13. ASSUME NEW n \in Name, Unplug(n) PROVE Progress'
  BY <1>11, <1>13 DEF Unplug
<1>14. ASSUME NEW d \in Dev, NEW n \in Name, NEW k \in 0..MaxNumber, Plug(d, n, k) PROVE Progress'
  BY <1>11, <1>14 DEF Plug
<1>15. CASE UNCHANGED vars
  BY <1>11, <1>15 DEF vars
<1>16. CASE ReadNvml
  <2>1. RightDriver' <=> RightDriver
    BY <1>16 DEF ReadNvml, RightDriver, gpu_is_nvidia
  <2> QED BY <1>16, <2>1 DEF ReadNvml, Progress, NotFound
<1> QED BY <1>1, <1>2, <1>3, <1>4, <1>5, <1>6, <1>7, <1>8, <1>9, <1>10, <1>12, <1>13, <1>14, <1>15,
           <1>16, FailingSteps DEF Next

(* What a handle holds stays a name, a number or an index. *)
LEMMA FoundStep ==
  ASSUME TypeOK, Progress, FoundOK, [Next]_vars
  PROVE  FoundOK'
<1> USE DEF machine, devices, args
<1>1. ASSUME NEW s \in Typed(attr), NEW n \in Asked(attr), Start(s, n) PROVE FoundOK'
  <2>1. found' = NotFound
    BY <1>1 DEF Start, Progress
  <2> QED BY <2>1 DEF FoundOK, NotFound
<1>2. CASE Open
  <2>1. found' = NotFound \/ (attr' \notin Hwmon /\ found'[1] = "number")
    BY <1>2 DEF Open, read_bus_dev_nums, NumberAt, Hwmon
  <2> QED BY <2>1 DEF FoundOK, NotFound
<1>3. CASE Fail /\ UNCHANGED args /\ pc \in {"open", "lookup", "check", "write", "write2", "read"}
  BY <1>3 DEF Fail, After, FoundOK, Progress
<1>4. CASE Lookup
  BY <1>4, PathForm DEF Lookup, FoundOK
<1>5. CASE Again(TRUE) \/ Again(FALSE)
  <2>1. found' = NotFound \/ (found' = found /\ found[1] = "hwmon")
    BY <1>5 DEF Again
  <2> QED BY <1>5, <2>1 DEF Again, FoundOK, NotFound
<1>6. CASE UNCHANGED <<attr, target, found>> /\ pc \notin {"read", "done"}
  BY <1>6 DEF FoundOK
<1>7. CASE Read
  BY <1>7 DEF Read, FoundOK
<1>8. CASE Check \/ Write \/ FallBack \/ Write2
  BY <1>6, <1>8 DEF Check, Write, FallBack, Write2
<1>9. CASE UNCHANGED <<attr, pc, target, found>>
  BY <1>9 DEF FoundOK
<1>10. ASSUME NEW d \in Dev, OtherWrites(d) PROVE FoundOK'
  BY <1>9, <1>10 DEF OtherWrites
<1>11. ASSUME NEW n \in Name, Unplug(n) PROVE FoundOK'
  BY <1>9, <1>11 DEF Unplug
<1>12. ASSUME NEW d \in Dev, NEW n \in Name, NEW k \in 0..MaxNumber, Plug(d, n, k) PROVE FoundOK'
  BY <1>9, <1>12 DEF Plug
<1>13. CASE UNCHANGED vars
  BY <1>9, <1>13 DEF vars
<1>14. CASE ReadNvml
  BY <1>14 DEF ReadNvml, FoundOK, NotFound
<1> QED BY <1>1, <1>2, <1>3, <1>4, <1>5, <1>7, <1>8, <1>10, <1>11, <1>12, <1>13, <1>14,
           FailingSteps DEF Next

-----------------------------------------------------------------------------
(* While the devices stay, a name leads where it led. *)
LEMMA SameDevices ==
  ASSUME UNCHANGED <<attr, kind, at, number, target>>
  PROVE  /\ Straight' = Straight /\ Site' = Site
         /\ \A n : Meant(n)' = Meant(n)
         /\ DrmIsNvml' <=> DrmIsNvml
<1>1. Present' = Present /\ Nvidia' = Nvidia /\ \A k : Owner(k)' = Owner(k)
  BY DEF Present, Nvidia, Owner
<1>2. \A i : get_handle(i)' = get_handle(i)
  BY <1>1 DEF get_handle
<1>3. Straight' = Straight
  BY <1>1 DEF Straight, nth_battery_name, NumberAt, gpu_find_hwmon, At
<1>4. Site' = Site
  BY <1>1, <1>2, <1>3 DEF Site, Reached, At
<1>5. \A n : Meant(n)' = Meant(n)
  BY <1>1 DEF Meant
<1>6. DrmIsNvml' <=> DrmIsNvml
  BY <1>1, <1>2 DEF DrmIsNvml
<1> QED BY <1>3, <1>4, <1>5, <1>6

(* A lookup takes the straight path. *)
LEMMA LookupIsStraight ==
  ASSUME TypeOK, Progress, FoundOK, StillThere, pc = "lookup", moves = 0, Path # NotFound
  PROVE  /\ Path = Straight
         /\ Path[1] = "nvml" /\ RightDriver =>
              At(target) # NoDev /\ kind[At(target)] \in {"nvidia", "bare"}
<1>1. found \in {NotFound, Straight} /\ (opened # NoDev => opened = At(target))
      /\ (found[1] = "nvml" => At(target) # NoDev /\ kind[At(target)] \in {"nvidia", "bare"})
      /\ (attr \notin Unopened => opened # NoDev)
  BY DEF StillThere, Progress, FoundOK
<1>2. CASE attr \in Battery
  <2>1. Path = Straight /\ Path = nth_battery_name(target)
    BY <1>2 DEF Path, Straight, Battery, Numbered, Hwmon
  <2> QED BY <2>1 DEF nth_battery_name
<1>3. CASE attr \in {"cooling", "irq_affinity"}
  <2>1. Path = Straight /\ Path = NumberAt(target)
    BY <1>3 DEF Path, Straight, Battery, Numbered, Hwmon, zone_cdev_index, net_irq_path
  <2> QED BY <2>1 DEF NumberAt
<1>4. CASE attr \in Hwmon
  <2>1. Path = HwmonOrNvml(target) /\ attr \notin Unopened
        /\ Straight = (IF gpu_find_hwmon(target) = NotFound THEN <<"nvml", target>>
                       ELSE gpu_find_hwmon(target))
    BY <1>4 DEF Path, Straight, Battery, Hwmon, Numbered, Unopened, Global, Indexed
  <2>2. CASE found # NotFound
    BY <1>1, <2>1, <2>2 DEF HwmonOrNvml, gpu_hwmon
  <2>3. CASE found = NotFound /\ gpu_find_hwmon(target) # NotFound
    <3>1. Path = gpu_find_hwmon(target)
      BY <2>1, <2>3 DEF HwmonOrNvml, gpu_hwmon
    <3> QED BY <2>1, <2>3, <3>1 DEF gpu_find_hwmon
  <2>4. CASE found = NotFound /\ gpu_find_hwmon(target) = NotFound
    BY <1>1, <2>1, <2>4 DEF HwmonOrNvml, gpu_hwmon, MayAskNvml, gpu_is_nvidia
  <2> QED BY <2>2, <2>3, <2>4
<1>5. CASE attr = "power_limit"
  <2>1. Path = Straight /\ attr \notin Unopened
    BY <1>5 DEF Path, Straight, Battery, Hwmon, Numbered, Unopened, Global, Indexed
  <2> QED BY <1>1, <1>5, <2>1 DEF RightDriver, gpu_is_nvidia
<1>6. CASE attr = "usb_reset"
  <2>1. Straight = NumberAt(target) /\ Path \in {found, NumberAt(target)}
    BY <1>6 DEF Path, Straight, Battery, Hwmon, Numbered, zenctl_usb_reset, read_bus_dev_nums
  <2>2. NumberAt(target)[1] # "nvml"
    BY DEF NumberAt, NotFound
  <2> QED BY <1>1, <2>1, <2>2
<1>7. CASE attr \notin Battery \cup Hwmon \cup {"cooling", "irq_affinity", "power_limit", "usb_reset"}
  <2>1. Path = <<"name", target>> /\ Straight = <<"name", target>>
    BY <1>7 DEF Path, Straight, Numbered
  <2> QED BY <2>1
<1> QED BY <1>2, <1>3, <1>4, <1>5, <1>6, <1>7

(* What a call found while nothing moved leads to the site, unless a getter *)
(* has turned from an hwmon directory that is of no use to NVML.            *)
LEMMA FoundIsSite ==
  ASSUME Progress, FoundOK, StillThere, moves = 0, pc \in {"check", "write", "write2", "read"}
  PROVE  \/ found = Straight /\ Reached(found) = Site
         \/ pc = "read" /\ attr \in Hwmon /\ found = <<"nvml", target>> /\ Site = NoDev
<1>1. CASE found = Straight
  BY <1>1 DEF Site
<1>2. CASE attr \in Hwmon /\ found = <<"nvml", target>> /\ Site = NoDev
  BY <1>2 DEF FoundOK
<1> QED BY <1>1, <1>2 DEF Progress, StillThere

(* While nothing moves, every step keeps what was opened and found in       *)
(* place.                                                                   *)
LEMMA StillThereStep ==
  ASSUME TypeOK, Progress, FoundOK, StillThere, [Next]_vars
  PROVE  StillThere'
<1> USE DEF machine, devices, args
<1>1. ASSUME NEW s \in Typed(attr), NEW n \in Asked(attr), Start(s, n) PROVE StillThere'
  <2>1. opened' = NoDev /\ found' = NotFound /\ pc' # "write2"
    BY <1>1 DEF Start, Progress, FirstStep
  <2>2. meant' = Meant(n) /\ asked' = n /\ UNCHANGED <<attr, kind, at, number>>
    BY <1>1 DEF Start
  <2>3. Present' = Present
    BY <2>2 DEF Present
  <2>4. meant' = Meant(asked)'
    BY <2>2, <2>3 DEF Meant
  <2> QED BY <2>1, <2>4 DEF StillThere, NotFound
<1>2. ASSUME UNCHANGED <<attr, kind, at, number, target, asked, meant, moves>>,
             pc # "start", moves = 0,
             opened' \in {opened, NoDev, At(target)},
             \/ found' \in {found, NotFound, Straight}
             \/ attr \in Hwmon /\ found' = <<"nvml", target>> /\ Site = NoDev,
             found'[1] = "nvml" =>
               found' = found \/ (At(target) # NoDev /\ kind[At(target)] \in {"nvidia", "bare"}),
             pc' = "write2" => pc = "write2" \/ Site = NoDev \/ kind[Site] # "scsi"
      PROVE  StillThere'
  <2>1. Straight' = Straight /\ Site' = Site /\ Meant(asked)' = Meant(asked)
    <3>1. PICK n : n = asked
      OBVIOUS
    <3>2. Meant(n)' = Meant(n)
      BY <1>2, SameDevices
    <3>3. Meant(asked)' = Meant(n)'
      BY <1>2, <3>1 DEF Meant
    <3> QED BY <1>2, <3>1, <3>2, <3>3, SameDevices
  <2>2. At(target)' = At(target)
    BY <1>2 DEF At
  <2> QED BY <1>2, <2>1, <2>2 DEF StillThere
<1>3. CASE moves' # 0
  BY <1>3 DEF StillThere
<1>4. CASE Open /\ moves = 0
  <2>1. found' = NotFound \/ (attr = "usb_reset" /\ found' = NumberAt(target) /\ found'[1] = "number")
    BY <1>4 DEF Open, read_bus_dev_nums, NumberAt
  <2>2. attr = "usb_reset" => Straight = NumberAt(target)
    BY DEF Straight, Battery, Numbered, Hwmon
  <2>3. found' \in {NotFound, Straight} /\ found'[1] # "nvml"
    BY <2>1, <2>2 DEF NotFound
  <2> QED BY <1>2, <1>4, <2>3 DEF Open
<1>5. CASE Lookup /\ moves = 0
  BY <1>2, <1>5, LookupIsStraight DEF Lookup
<1>6. CASE FallBack /\ moves = 0
  <2>1. KernelTakes(Site) = {} /\ attr = "cache_type"
    BY <1>6, FoundIsSite DEF FallBack, Hwmon
  <2>2. Site = NoDev \/ kind[Site] # "scsi"
    BY <2>1 DEF KernelTakes, Kernel, Lists, WriteOnly
  <2> QED BY <1>2, <1>6, <2>2 DEF FallBack
<1>7. ASSUME NEW same \in BOOLEAN, Again(same), moves = 0 PROVE StillThere'
  BY <1>2, <1>7 DEF Again, FirstStep, NotFound
<1>8. CASE (Check \/ Write \/ Write2 \/ Read) /\ moves = 0
  BY <1>2, <1>8 DEF Check, Write, Write2, Read, After
<1>9. CASE Fail /\ UNCHANGED args /\ pc \in {"open", "lookup", "check", "write", "write2", "read"}
           /\ moves = 0
  BY <1>2, <1>9 DEF Fail, After
<1>10. ASSUME UNCHANGED <<attr, kind, at, number, target, asked, meant, moves, pc, opened, found>>
       PROVE  StillThere'
  <2>1. CASE pc = "start"
    BY <1>10, <2>1 DEF StillThere
  <2>2. CASE pc # "start"
    BY <1>2, <1>3, <1>10, <2>2
  <2> QED BY <2>1, <2>2
<1>11. ASSUME NEW d \in Dev, OtherWrites(d) PROVE StillThere'
  BY <1>10, <1>11 DEF OtherWrites
<1>12. CASE UNCHANGED vars
  BY <1>10, <1>12 DEF vars
<1>13. ASSUME NEW n \in Name, Unplug(n) PROVE StillThere'
  BY <1>3, <1>13 DEF Unplug, TypeOK
<1>14. ASSUME NEW d \in Dev, NEW n \in Name, NEW k \in 0..MaxNumber, Plug(d, n, k) PROVE StillThere'
  BY <1>3, <1>14 DEF Plug, TypeOK
<1>15. CASE moves # 0
  <2>1. moves' # 0
    BY <1>15, FailingSteps DEF Next, Start, Open, Lookup, Fail, Check, Write, FallBack, Write2, Again,
       Read, ReadNvml, OtherWrites, Unplug, Plug, TypeOK, vars
  <2> QED BY <1>3, <2>1
<1>16. CASE ReadNvml /\ moves = 0
  <2>1. Site = NoDev /\ attr \in Hwmon
    BY <1>16, FoundIsSite DEF ReadNvml, HwmonGone, MayAskNvml
  <2>2. opened # NoDev
    BY <1>16, <2>1 DEF ReadNvml, Progress, Unopened, Global, Indexed, Battery, Hwmon
  <2>3. At(target) # NoDev /\ kind[At(target)] \in {"nvidia", "bare"}
    BY <1>16, <2>2 DEF ReadNvml, HwmonGone, MayAskNvml, gpu_is_nvidia, StillThere
  <2> QED BY <1>2, <1>16, <2>1, <2>3 DEF ReadNvml
<1> QED BY <1>1, <1>4, <1>5, <1>6, <1>7, <1>8, <1>9, <1>11, <1>12, <1>13, <1>14, <1>15, <1>16,
           FailingSteps DEF Next

-----------------------------------------------------------------------------
(* A number leads to the device that has it. *)
LEMMA OwnerOfNumber ==
  ASSUME TypeOK, Carried, NEW n \in Name, at[n] # NoDev
  PROVE  at[n] \in Dev /\ number[at[n]] # -1 /\ Owner(number[at[n]]) = at[n]
<1>1. at[n] \in Dev /\ number[at[n]] # -1
  BY DEF TypeOK
<1>2. \A d \in Dev : number[d] = number[at[n]] => d = at[n]
  BY <1>1 DEF Carried
<1> QED BY <1>1, <1>2 DEF Owner

(* What the user means by a name is the device that has it. *)
LEMMA MeantByName ==
  ASSUME TypeOK, attr \notin Battery, At(target) # NoDev
  PROVE  Meant(target) = At(target)
<1>1. Present \cap {target} = {target}
  BY AtType DEF Present
<1> QED BY <1>1, AtType DEF Meant

(* What the user means by the index of a battery is the one with as many    *)
(* smaller names.                                                           *)
LEMMA MeantByIndex ==
  ASSUME attr \in Battery, nth_battery_name(target) # NotFound
  PROVE  Meant(target) = at[Sorted(Present)[target + 1]]
<1> DEFINE i == target + 1
<1>1. i \in 1..Cardinality(Present)
  BY BatteryName
<1>2. {m \in Present : Cardinality({k \in Present : k < m}) = i - 1} = {Sorted(Present)[i]}
  BY <1>1, PresentFinite, SortedRank
<1>3. i - 1 = target
  <2>1. target \in 0..(Cardinality(Present) - 1)
    BY DEF nth_battery_name
  <2> QED BY <2>1, PresentFinite
<1>4. {m \in Present : Cardinality({k \in Present : k < m}) = target} = {Sorted(Present)[i]}
  BY <1>2, <1>3
<1> QED BY <1>4 DEF Meant

(* Where NVML counts as DRM does, an index reaches the card that has it. *)
LEMMA NvmlIsDrm ==
  ASSUME DrmIsNvml, NEW i, get_handle(i) # NoDev
  PROVE  get_handle(i) = At(i)
BY DEF DrmIsNvml, get_handle, At

(* While nothing moves, the straight path ends at the device that is meant. *)
LEMMA SiteIsMeant ==
  ASSUME TypeOK, Carried, Site # NoDev,
         Straight[1] = "nvml" =>
           At(target) # NoDev /\ DrmIsNvml
  PROVE  Site = Meant(target) /\ (attr \notin Battery => At(target) # NoDev)
<1> USE DEF NotFound
<1>1. CASE attr \in Battery
  <2>1. Straight = nth_battery_name(target)
    BY <1>1 DEF Straight, Battery, Numbered, Hwmon
  <2>2. nth_battery_name(target) # NotFound
    BY <2>1 DEF Site, Reached
  <2>3. Straight = <<"name", Sorted(Present)[target + 1]>>
    BY <2>1, <2>2, BatteryName
  <2>4. Site = at[Sorted(Present)[target + 1]]
    BY <2>1, <2>2, <2>3, BatteryName DEF Site, Reached, At, Present
  <2> QED BY <1>1, <2>2, <2>4, MeantByIndex
<1>2. CASE attr \in Numbered \cup {"usb_reset"}
  <2>1. Straight = NumberAt(target) /\ attr \notin Battery
    BY <1>2 DEF Straight, Battery, Numbered, Hwmon
  <2>2. At(target) # NoDev /\ Straight = <<"number", number[At(target)]>>
    BY <2>1 DEF Site, Reached, NumberAt
  <2>3. Site = Owner(number[At(target)])
    BY <2>2 DEF Site, Reached
  <2>4. target \in Name /\ At(target) = at[target]
    BY <2>2, AtType
  <2> QED BY <2>1, <2>2, <2>3, <2>4, OwnerOfNumber, MeantByName
<1>3. CASE Straight = gpu_find_hwmon(target) /\ attr \in Hwmon
  <2>1. At(target) # NoDev /\ Straight = <<"hwmon", target, number[At(target)]>> /\ attr \notin Battery
    BY <1>3 DEF Site, Reached, gpu_find_hwmon, Battery, Hwmon
  <2>2. Site = At(target)
    BY <2>1 DEF Site, Reached
  <2> QED BY <2>1, <2>2, MeantByName
<1>4. CASE Straight = <<"nvml", target>> /\ attr \in Hwmon \cup {"power_limit"}
  <2>1. Site = get_handle(target) /\ attr \notin Battery
    BY <1>4 DEF Site, Reached, Battery, Hwmon
  <2>2. At(target) # NoDev /\ DrmIsNvml
    BY <1>4
  <2> QED BY <2>1, <2>2, NvmlIsDrm, MeantByName
<1>5. CASE attr \notin Battery \cup Numbered \cup Hwmon \cup {"power_limit", "usb_reset"}
  <2>1. Straight = <<"name", target>>
    BY <1>5 DEF Straight
  <2>2. Site = At(target)
    BY <2>1 DEF Site, Reached
  <2> QED BY <1>5, <2>2, MeantByName
<1>6. attr \in Hwmon => Straight \in {gpu_find_hwmon(target), <<"nvml", target>>}
  BY DEF Straight, Battery, Numbered, Hwmon
<1>7. attr = "power_limit" => Straight = <<"nvml", target>>
  BY DEF Straight, Battery, Numbered, Hwmon
<1> QED BY <1>1, <1>2, <1>3, <1>4, <1>5, <1>6, <1>7

(* A call that reaches a device while nothing moves reaches the one meant.  *)
LEMMA ReachesMeant ==
  ASSUME TypeOK, Carried, Progress, FoundOK, StillThere, moves = 0, target = asked,
         meant # NoDev => kind[meant] \notin {"nvidia", "bare"} \/ DrmIsNvml,
         pc \in {"check", "write", "write2", "read"}, Reached(found) # NoDev
  PROVE  Reached(found) = meant
<1>1. meant = Meant(target)
  BY DEF StillThere, Progress
<1>2. found[1] = "nvml" => attr \notin Battery /\ At(target) # NoDev /\ DrmIsNvml
  <2> SUFFICES ASSUME found[1] = "nvml" PROVE attr \notin Battery /\ At(target) # NoDev /\ DrmIsNvml
    OBVIOUS
  <2>1. At(target) # NoDev /\ kind[At(target)] \in {"nvidia", "bare"}
    BY DEF StillThere
  <2>2. attr \notin Battery
    <3>1. attr \in Battery => Straight = nth_battery_name(target) /\ attr \notin Hwmon
      BY DEF Straight, Battery, Numbered, Hwmon
    <3>2. attr \in Battery => found = nth_battery_name(target)
      BY <3>1, FoundIsSite
    <3> QED BY <3>2 DEF nth_battery_name, NotFound
  <2>3. meant = At(target)
    BY <1>1, <2>1, <2>2, MeantByName
  <2>4. meant # NoDev /\ kind[meant] \in {"nvidia", "bare"}
    BY <2>1, <2>3
  <2> QED BY <2>1, <2>2, <2>4
<1>3. CASE found = Straight /\ Reached(found) = Site
  BY <1>1, <1>2, <1>3, SiteIsMeant
<1>4. CASE found = <<"nvml", target>>
  <2>1. Reached(found) = get_handle(target)
    BY <1>4 DEF Reached
  <2> QED BY <1>1, <1>2, <1>4, <2>1, NvmlIsDrm, MeantByName
<1> QED BY <1>3, <1>4, FoundIsSite

(* Every step reaches the device that is meant, or none. *)
LEMMA RightDeviceStep ==
  ASSUME TypeOK, Carried, Progress, FoundOK, StillThere, RightDevice, [Next]_vars
  PROVE  RightDevice'
<1> USE DEF machine, devices, args
<1>1. ASSUME NEW s \in Typed(attr), NEW n \in Asked(attr), Start(s, n) PROVE RightDevice'
  BY <1>1 DEF Start, Progress, RightDevice
<1>2. ASSUME UNCHANGED <<attr, kind, at, number, target, asked, meant, moves>>, touched' = touched
      PROVE  RightDevice'
  BY <1>2, SameDevices DEF RightDevice
<1>3. ASSUME UNCHANGED <<attr, kind, at, number, target, asked, meant, moves>>,
             pc \in {"check", "write", "write2", "read"},
             Reached(found) # NoDev, touched' = touched \cup {Reached(found)}
      PROVE  RightDevice'
  <2> SUFFICES ASSUME moves = 0, target = asked,
                      meant # NoDev => kind[meant] \notin {"nvidia", "bare"} \/ DrmIsNvml
               PROVE  touched' \subseteq {meant}
    BY <1>3, SameDevices DEF RightDevice
  <2>1. Reached(found) = meant
    BY <1>3, ReachesMeant
  <2>2. touched \subseteq {meant}
    BY DEF RightDevice
  <2> QED BY <1>3, <2>1, <2>2
<1>4. CASE Write \/ Write2 \/ Read
  BY <1>3, <1>4 DEF Write, Write2, Read, KernelTakes
<1>5. CASE Open \/ Lookup \/ Check \/ FallBack \/ ReadNvml \/ (Fail /\ UNCHANGED args) \/ UNCHANGED vars
  BY <1>2, <1>5 DEF Open, Lookup, Check, FallBack, ReadNvml, Fail, vars
<1>6. ASSUME NEW same \in BOOLEAN, Again(same) PROVE RightDevice'
  BY <1>2, <1>6 DEF Again
<1>7. ASSUME NEW d \in Dev, OtherWrites(d) PROVE RightDevice'
  BY <1>2, <1>7 DEF OtherWrites
<1>8. ASSUME NEW n \in Name, Unplug(n) PROVE RightDevice'
  BY <1>8 DEF Unplug, TypeOK, RightDevice
<1>9. ASSUME NEW d \in Dev, NEW n \in Name, NEW k \in 0..MaxNumber, Plug(d, n, k) PROVE RightDevice'
  BY <1>9 DEF Plug, TypeOK, RightDevice
<1> QED BY <1>1, <1>4, <1>5, <1>6, <1>7, <1>8, <1>9, FailingSteps DEF Next

-----------------------------------------------------------------------------
(* What the command line can give the setter of attribute a. *)
Switch == {Flag(TRUE), Flag(FALSE)}
IntNum(v) == IsNum(v, (-IntMax - 1)..IntMax)

Given(a, v) ==
  CASE a \in {"nr_hugepages", "read_ahead"} -> IsNum(v, 0..LongMax)
    [] a = "hugepages_size" -> IsNum(v, Int)
    [] a \in {"vfs_cache_pressure", "cooling", "autosuspend", "queue_depth", "rps_min", "rps_max",
              "rps_boost", "power_limit", "swappiness", "overcommit", "mtu", "fan_pwm",
              "gpu_fan_pwm"} \cup Battery -> IntNum(v)
    [] a \in {"smt", "online", "cstate", "authorized", "usb_wakeup", "zone_mode", "offload",
              "fan_auto", "d3cold", "rc6", "gpu_fan_auto"} -> v \in Switch
    [] a \in {"thp", "cache_type"} -> v \in {Num(1), Num(2), Num(3)}
    [] OTHER -> v = Word(v[2])

(* A number within the bounds passes a check of its range, a reading and,   *)
(* when an int holds it, a cast.                                            *)
LEMMA WithinPasses ==
  ASSUME NEW v, IsNum(v, Int), NEW lo \in Int, NEW hi \in Int
  PROVE  /\ Within(v, lo, hi) # Refused => Within(v, lo, hi) = v /\ IsNum(v, lo..hi)
         /\ IsNum(v, lo..hi) => Within(v, lo, hi) = v
BY DEF IsNum, Num, Within, Refused

(* A number is read as it is. *)
LEMMA ReadTakes ==
  ASSUME NEW t, IsNum(t, Int)
  PROVE  read_i64(t) = t /\ t # Refused
BY DEF IsNum, Num, read_i64, Refused

(* An int is not changed by a cast. *)
LEMMA CastTakes ==
  ASSUME NEW t, IntNum(t)
  PROVE  Cast(t) = t /\ IsNum(t, Int)
<1>1. t[2] \in Int /\ Wrapped(t[2]) = t[2]
  BY WrappedFits DEF IsNum, IntNum
<1> QED BY <1>1 DEF IsNum, IntNum, Num, Cast

(* Ranges within ranges. *)
LEMMA NumRanges ==
  ASSUME NEW v
  PROVE  /\ IsNum(v, 0..LongMax) => IsNum(v, Int)
         /\ IntNum(v) => IsNum(v, Int)
         /\ IsNum(v, 0..IntMax) => IntNum(v)
         /\ IsNum(v, 1..IntMax) => IntNum(v) /\ IsNum(v, 0..IntMax)
         /\ IsNum(v, 0..200) => IntNum(v)
         /\ IsNum(v, 0..255) => IntNum(v)
         /\ IsNum(v, 0..100) => IntNum(v)
         /\ IsNum(v, 0..2) => IntNum(v)
BY IntRange DEF IsNum, IntNum

(* A switch is written and read as it was given. *)
LEMMA TextOfFlag ==
  ASSUME NEW yes, NEW no
  PROVE  Text(Flag(TRUE), yes, no) = yes /\ Text(Flag(FALSE), yes, no) = no
BY DEF Text, Flag

(* The texts of switches differ. *)
LEMMA NumsDiffer ==
  /\ Num(0)[1] = "num" /\ Num(1)[1] = "num" /\ Num(2)[1] = "num" /\ Num(3)[1] = "num"
  /\ Num(0)[2] = 0 /\ Num(1)[2] = 1 /\ Num(2)[2] = 2 /\ Num(3)[2] = 3
  /\ Num(0) # Num(1) /\ Word("enabled") # Word("disabled") /\ Word("on") # Word("off")
  /\ \A n : Num(n) # Refused
BY DEF Num, Word, Refused

(* A flag says whether its condition holds. *)
LEMMA FlagOf ==
  ASSUME NEW p \in BOOLEAN
  PROVE  (p => Flag(p) = Flag(TRUE)) /\ (~p => Flag(p) = Flag(FALSE))
BY DEF Flag

(* Each getter of a switch tells its two texts apart. *)
LEMMA SwitchGets ==
  /\ zenctl_cpu_get_smt_active(Num(1)) = Flag(TRUE) /\ zenctl_cpu_get_smt_active(Num(0)) = Flag(FALSE)
  /\ zenctl_cpu_get_online(Num(1)) = Flag(TRUE) /\ zenctl_cpu_get_online(Num(0)) = Flag(FALSE)
  /\ zenctl_cpu_get_cstate_disable(Num(1)) = Flag(TRUE) /\ zenctl_cpu_get_cstate_disable(Num(0)) = Flag(FALSE)
  /\ zenctl_usb_get_authorized(Num(1)) = Flag(TRUE) /\ zenctl_usb_get_authorized(Num(0)) = Flag(FALSE)
  /\ net_get_flag(Num(1)) = Flag(TRUE) /\ net_get_flag(Num(0)) = Flag(FALSE)
  /\ zenctl_usb_get_wakeup(Word("enabled")) = Flag(TRUE) /\ zenctl_usb_get_wakeup(Word("disabled")) = Flag(FALSE)
  /\ zenctl_thermal_get_mode(Word("enabled")) = Flag(TRUE) /\ zenctl_thermal_get_mode(Word("disabled")) = Flag(FALSE)
  /\ zenctl_pcie_get_d3cold_allowed(Num(1)) = Flag(TRUE) /\ zenctl_pcie_get_d3cold_allowed(Num(0)) = Flag(FALSE)
  /\ zenctl_thermal_hwmon_get_fan_auto(Num(2)) = Flag(TRUE) /\ zenctl_thermal_hwmon_get_fan_auto(Num(1)) = Flag(FALSE)
  /\ zenctl_gpu_get_fan_auto(Num(2)) = Flag(TRUE) /\ zenctl_gpu_get_fan_auto(Num(1)) = Flag(FALSE)
  /\ zenctl_gpu_i915_get_rc6(Num(1)) = Flag(TRUE) /\ zenctl_gpu_i915_get_rc6(Num(0)) = Flag(FALSE)
<1>1. Flag(Num(1) = Num(1)) = Flag(TRUE) /\ Flag(Num(0) = Num(1)) = Flag(FALSE)
  BY NumsDiffer, FlagOf
<1>2. Flag(Num(1)[2] # 0) = Flag(TRUE) /\ Flag(Num(0)[2] # 0) = Flag(FALSE)
  BY NumsDiffer, FlagOf
<1>3. Flag(Word("enabled") = Word("enabled")) = Flag(TRUE) /\ Flag(Word("disabled") = Word("enabled")) = Flag(FALSE)
  BY NumsDiffer, FlagOf
<1>4. Flag(Num(2)[2] >= 2) = Flag(TRUE) /\ Flag(Num(1)[2] >= 2) = Flag(FALSE)
  <2>1. Num(2)[2] >= 2 /\ ~(Num(1)[2] >= 2)
    BY NumsDiffer
  <2>2. (Num(2)[2] >= 2) = TRUE /\ (Num(1)[2] >= 2) = FALSE
    BY <2>1
  <2> QED BY <2>2
<1>5. Flag(Num(1)[2] % 2 = 1) = Flag(TRUE) /\ Flag(Num(0)[2] % 2 = 1) = Flag(FALSE)
  <2>1. Num(1)[2] % 2 = 1 /\ ~(Num(0)[2] % 2 = 1)
    BY NumsDiffer
  <2> QED BY <2>1, Zenon DEF Flag
<1>6. \A n : read_i64(Num(n)) = Num(n)
  BY DEF read_i64, Num
<1>7. zenctl_cpu_get_smt_active(Num(1)) = Flag(TRUE) /\ zenctl_cpu_get_smt_active(Num(0)) = Flag(FALSE)
  BY <1>1 DEF zenctl_cpu_get_smt_active
<1>8. zenctl_cpu_get_online(Num(1)) = Flag(TRUE) /\ zenctl_cpu_get_online(Num(0)) = Flag(FALSE)
  BY <1>1 DEF zenctl_cpu_get_online
<1>9. zenctl_cpu_get_cstate_disable(Num(1)) = Flag(TRUE) /\ zenctl_cpu_get_cstate_disable(Num(0)) = Flag(FALSE)
  BY <1>1 DEF zenctl_cpu_get_cstate_disable
<1>10. zenctl_usb_get_authorized(Num(1)) = Flag(TRUE) /\ zenctl_usb_get_authorized(Num(0)) = Flag(FALSE)
  BY <1>2 DEF zenctl_usb_get_authorized
<1>11. net_get_flag(Num(1)) = Flag(TRUE) /\ net_get_flag(Num(0)) = Flag(FALSE)
  BY <1>2 DEF net_get_flag
<1>12. zenctl_usb_get_wakeup(Word("enabled")) = Flag(TRUE) /\ zenctl_usb_get_wakeup(Word("disabled")) = Flag(FALSE)
  BY <1>3 DEF zenctl_usb_get_wakeup
<1>13. zenctl_thermal_get_mode(Word("enabled")) = Flag(TRUE) /\ zenctl_thermal_get_mode(Word("disabled")) = Flag(FALSE)
  BY <1>3 DEF zenctl_thermal_get_mode
<1>14. zenctl_pcie_get_d3cold_allowed(Num(1)) = Flag(TRUE) /\ zenctl_pcie_get_d3cold_allowed(Num(0)) = Flag(FALSE)
  BY <1>2, <1>6, NumsDiffer DEF zenctl_pcie_get_d3cold_allowed
<1>15. zenctl_thermal_hwmon_get_fan_auto(Num(2)) = Flag(TRUE) /\ zenctl_thermal_hwmon_get_fan_auto(Num(1)) = Flag(FALSE)
  BY <1>4, <1>6, NumsDiffer DEF zenctl_thermal_hwmon_get_fan_auto
<1>16. zenctl_gpu_get_fan_auto(Num(2)) = Flag(TRUE) /\ zenctl_gpu_get_fan_auto(Num(1)) = Flag(FALSE)
  BY <1>4, <1>6, NumsDiffer DEF zenctl_gpu_get_fan_auto
<1>17. zenctl_gpu_i915_get_rc6(Num(1)) = Flag(TRUE) /\ zenctl_gpu_i915_get_rc6(Num(0)) = Flag(FALSE)
  BY <1>5, <1>6, NumsDiffer DEF zenctl_gpu_i915_get_rc6
<1> QED BY <1>7, <1>8, <1>9, <1>10, <1>11, <1>12, <1>13, <1>14, <1>15, <1>16, <1>17

(* An enumeration and the names of its members lead to each other. *)
LEMMA ThpNames ==
  /\ EnumOf("always", ThpName) = Num(1) /\ NameOf(Num(1), ThpName) = Word("always")
  /\ EnumOf("madvise", ThpName) = Num(2) /\ NameOf(Num(2), ThpName) = Word("madvise")
  /\ EnumOf("never", ThpName) = Num(3) /\ NameOf(Num(3), ThpName) = Word("never")
<1>1. DOMAIN ThpName = 1..3 /\ ThpName[1] = "always" /\ ThpName[2] = "madvise" /\ ThpName[3] = "never"
  BY DEF ThpName
<1>2. EnumOf("always", ThpName) = Num(1) /\ NameOf(Num(1), ThpName) = Word("always")
  <2>1. \A j \in DOMAIN ThpName : ThpName[j] = "always" <=> j = 1
    BY <1>1
  <2>2. 1 \in DOMAIN ThpName /\ (CHOOSE j \in DOMAIN ThpName : ThpName[j] = "always") = 1
    BY <1>1, <2>1
  <2>3. EnumOf("always", ThpName) = Num(1)
    BY <2>1, <2>2 DEF EnumOf
  <2>4. NameOf(Num(1), ThpName) = Word("always")
    BY <1>1, <2>2 DEF NameOf, Num
  <2> QED BY <2>3, <2>4
<1>3. EnumOf("madvise", ThpName) = Num(2) /\ NameOf(Num(2), ThpName) = Word("madvise")
  <2>1. \A j \in DOMAIN ThpName : ThpName[j] = "madvise" <=> j = 2
    BY <1>1
  <2>2. 2 \in DOMAIN ThpName /\ (CHOOSE j \in DOMAIN ThpName : ThpName[j] = "madvise") = 2
    BY <1>1, <2>1
  <2>3. EnumOf("madvise", ThpName) = Num(2)
    BY <2>1, <2>2 DEF EnumOf
  <2>4. NameOf(Num(2), ThpName) = Word("madvise")
    BY <1>1, <2>2 DEF NameOf, Num
  <2> QED BY <2>3, <2>4
<1>4. EnumOf("never", ThpName) = Num(3) /\ NameOf(Num(3), ThpName) = Word("never")
  <2>1. \A j \in DOMAIN ThpName : ThpName[j] = "never" <=> j = 3
    BY <1>1
  <2>2. 3 \in DOMAIN ThpName /\ (CHOOSE j \in DOMAIN ThpName : ThpName[j] = "never") = 3
    BY <1>1, <2>1
  <2>3. EnumOf("never", ThpName) = Num(3)
    BY <2>1, <2>2 DEF EnumOf
  <2>4. NameOf(Num(3), ThpName) = Word("never")
    BY <1>1, <2>2 DEF NameOf, Num
  <2> QED BY <2>3, <2>4
<1> QED BY <1>2, <1>3, <1>4

(* The same for the cache modes of a disk. *)
LEMMA CacheNames ==
  /\ EnumOf("write_back", CacheName) = Num(1) /\ NameOf(Num(1), CacheName) = Word("write_back")
  /\ EnumOf("write_through", CacheName) = Num(2) /\ NameOf(Num(2), CacheName) = Word("write_through")
  /\ EnumOf("none", CacheName) = Num(3) /\ NameOf(Num(3), CacheName) = Word("none")
<1>1. DOMAIN CacheName = 1..3 /\ CacheName[1] = "write_back" /\ CacheName[2] = "write_through" /\ CacheName[3] = "none"
  BY DEF CacheName
<1>2. EnumOf("write_back", CacheName) = Num(1) /\ NameOf(Num(1), CacheName) = Word("write_back")
  <2>1. \A j \in DOMAIN CacheName : CacheName[j] = "write_back" <=> j = 1
    BY <1>1
  <2>2. 1 \in DOMAIN CacheName /\ (CHOOSE j \in DOMAIN CacheName : CacheName[j] = "write_back") = 1
    BY <1>1, <2>1
  <2>3. EnumOf("write_back", CacheName) = Num(1)
    BY <2>1, <2>2 DEF EnumOf
  <2>4. NameOf(Num(1), CacheName) = Word("write_back")
    BY <1>1, <2>2 DEF NameOf, Num
  <2> QED BY <2>3, <2>4
<1>3. EnumOf("write_through", CacheName) = Num(2) /\ NameOf(Num(2), CacheName) = Word("write_through")
  <2>1. \A j \in DOMAIN CacheName : CacheName[j] = "write_through" <=> j = 2
    BY <1>1
  <2>2. 2 \in DOMAIN CacheName /\ (CHOOSE j \in DOMAIN CacheName : CacheName[j] = "write_through") = 2
    BY <1>1, <2>1
  <2>3. EnumOf("write_through", CacheName) = Num(2)
    BY <2>1, <2>2 DEF EnumOf
  <2>4. NameOf(Num(2), CacheName) = Word("write_through")
    BY <1>1, <2>2 DEF NameOf, Num
  <2> QED BY <2>3, <2>4
<1>4. EnumOf("none", CacheName) = Num(3) /\ NameOf(Num(3), CacheName) = Word("none")
  <2>1. \A j \in DOMAIN CacheName : CacheName[j] = "none" <=> j = 3
    BY <1>1
  <2>2. 3 \in DOMAIN CacheName /\ (CHOOSE j \in DOMAIN CacheName : CacheName[j] = "none") = 3
    BY <1>1, <2>1
  <2>3. EnumOf("none", CacheName) = Num(3)
    BY <2>1, <2>2 DEF EnumOf
  <2>4. NameOf(Num(3), CacheName) = Word("none")
    BY <1>1, <2>2 DEF NameOf, Num
  <2> QED BY <2>3, <2>4
<1> QED BY <1>2, <1>3, <1>4

(* The attributes that hold a number: the setter checks its range, the      *)
(* kernel may keep the old one on a device that rounds, and the getter      *)
(* returns what is there.                                                   *)
LEMMA CountedRow ==
  ASSUME NEW a \in Counted, NEW k, NEW v, NEW d, NEW t, NEW old
  PROVE  /\ Top(a) \in Nat /\ (Given(a, v) => IsNum(v, Int))
         /\ Encode(a, v, d) = Within(v, 0, Top(a))
         /\ Held(a, k, t) <=> IsNum(t, 0..Top(a))
         /\ IsNum(t, 0..Top(a)) => Decode(a, t) = t
         /\ Kernel(a, k, t, old) \subseteq {t, old} /\ (k # "loose" => Kernel(a, k, t, old) \subseteq {t})
         /\ t \in Kernel(a, k, t, old)
<1>1. CASE a = "nr_hugepages"
  <2>1. Top(a) = LongMax /\ (Given(a, v) <=> IsNum(v, 0..LongMax)) /\ (Held(a, k, t) <=> IsNum(t, 0..Top(a)))
    BY <1>1 DEF Top, Given, Held, Counted, Long, Battery
  <2>2. Encode(a, v, d) = Within(v, 0, LongMax) /\ Decode(a, t) = zenctl_mem_get_nr_hugepages(t)
    BY <1>1 DEF Encode, Decode, zenctl_mem_set_nr_hugepages
  <2>3. Kernel(a, k, t, old) = (IF k = "loose" THEN {t, old} ELSE {t})
    BY <1>1 DEF Kernel, Lists, Battery, WriteOnly, Rounded
  <2>4. IsNum(t, 0..LongMax) => Decode(a, t) = t
    BY <2>2, IntRange, NumRanges, CastTakes, ReadTakes DEF zenctl_mem_get_nr_hugepages
  <2>5. Given(a, v) => IsNum(v, Int)
    BY <2>1, NumRanges
  <2> QED BY <1>1, <2>1, <2>2, <2>3, <2>4, <2>5, IntRange
<1>2. CASE a = "hugepages_size"
  <2>1. Top(a) = LongMax /\ (Given(a, v) <=> IsNum(v, Int)) /\ (Held(a, k, t) <=> IsNum(t, 0..Top(a)))
    BY <1>2 DEF Top, Given, Held, Counted, Long, Battery
  <2>2. Encode(a, v, d) = Within(v, 0, LongMax) /\ Decode(a, t) = zenctl_mem_get_nr_hugepages_size(t)
    BY <1>2 DEF Encode, Decode, zenctl_mem_set_nr_hugepages_size
  <2>3. Kernel(a, k, t, old) = (IF k = "loose" THEN {t, old} ELSE {t})
    BY <1>2 DEF Kernel, Lists, Battery, WriteOnly, Rounded
  <2>4. IsNum(t, 0..LongMax) => Decode(a, t) = t
    BY <2>2, IntRange, NumRanges, CastTakes, ReadTakes DEF zenctl_mem_get_nr_hugepages_size
  <2>5. Given(a, v) => IsNum(v, Int)
    BY <2>1, NumRanges
  <2> QED BY <1>2, <2>1, <2>2, <2>3, <2>4, <2>5, IntRange
<1>3. CASE a = "read_ahead"
  <2>1. Top(a) = LongMax /\ (Given(a, v) <=> IsNum(v, 0..LongMax)) /\ (Held(a, k, t) <=> IsNum(t, 0..Top(a)))
    BY <1>3 DEF Top, Given, Held, Counted, Long, Battery
  <2>2. Encode(a, v, d) = Within(v, 0, LongMax) /\ Decode(a, t) = zenctl_storage_get_read_ahead(t)
    BY <1>3 DEF Encode, Decode, zenctl_storage_set_read_ahead
  <2>3. Kernel(a, k, t, old) = (IF k = "loose" THEN {t, old} ELSE {t})
    BY <1>3 DEF Kernel, Lists, Battery, WriteOnly, Rounded
  <2>4. IsNum(t, 0..LongMax) => Decode(a, t) = t
    BY <2>2, IntRange, NumRanges, CastTakes, ReadTakes DEF zenctl_storage_get_read_ahead
  <2>5. Given(a, v) => IsNum(v, Int)
    BY <2>1, NumRanges
  <2> QED BY <1>3, <2>1, <2>2, <2>3, <2>4, <2>5, IntRange
<1>4. CASE a = "charge_start"
  <2>1. Top(a) = 100 /\ (Given(a, v) <=> IntNum(v)) /\ (Held(a, k, t) <=> IsNum(t, 0..Top(a)))
    BY <1>4 DEF Top, Given, Held, Counted, Long, Battery
  <2>2. Encode(a, v, d) = Within(v, 0, 100) /\ Decode(a, t) = zenctl_power_battery_get_charge_start(t)
    BY <1>4 DEF Encode, Decode, zenctl_power_battery_set_charge_start
  <2>3. Kernel(a, k, t, old) = (IF k = "loose" THEN {t, old} ELSE {t})
    BY <1>4 DEF Kernel, Lists, Battery, WriteOnly, Rounded
  <2>4. IsNum(t, 0..100) => Decode(a, t) = t
    BY <2>2, IntRange DEF zenctl_power_battery_get_charge_start, Within, read_i64, IsNum, Num
  <2>5. Given(a, v) => IsNum(v, Int)
    BY <2>1, NumRanges
  <2>6. Encode(a, v, d) = Within(v, 0, Top(a)) /\ (IsNum(t, 0..Top(a)) => Decode(a, t) = t)
    BY <2>1, <2>2, <2>4, Zenon
  <2>7. Top(a) \in Nat
    BY <2>1
  <2> QED BY <1>4, <2>1, <2>3, <2>5, <2>6, <2>7
<1>5. CASE a = "charge_end"
  <2>1. Top(a) = 100 /\ (Given(a, v) <=> IntNum(v)) /\ (Held(a, k, t) <=> IsNum(t, 0..Top(a)))
    BY <1>5 DEF Top, Given, Held, Counted, Long, Battery
  <2>2. Encode(a, v, d) = Within(v, 0, 100) /\ Decode(a, t) = zenctl_power_battery_get_charge_end(t)
    BY <1>5 DEF Encode, Decode, zenctl_power_battery_set_charge_end
  <2>3. Kernel(a, k, t, old) = (IF k = "loose" THEN {t, old} ELSE {t})
    BY <1>5 DEF Kernel, Lists, Battery, WriteOnly, Rounded
  <2>4. IsNum(t, 0..100) => Decode(a, t) = t
    BY <2>2, IntRange DEF zenctl_power_battery_get_charge_end, Within, read_i64, IsNum, Num
  <2>5. Given(a, v) => IsNum(v, Int)
    BY <2>1, NumRanges
  <2>6. Encode(a, v, d) = Within(v, 0, Top(a)) /\ (IsNum(t, 0..Top(a)) => Decode(a, t) = t)
    BY <2>1, <2>2, <2>4, Zenon
  <2>7. Top(a) \in Nat
    BY <2>1
  <2> QED BY <1>5, <2>1, <2>3, <2>5, <2>6, <2>7
<1>6. CASE a = "vfs_cache_pressure"
  <2>1. Top(a) = IntMax /\ (Given(a, v) <=> IntNum(v)) /\ (Held(a, k, t) <=> IsNum(t, 0..Top(a)))
    BY <1>6 DEF Top, Given, Held, Counted, Long, Battery
  <2>2. Encode(a, v, d) = Within(v, 0, IntMax) /\ Decode(a, t) = zenctl_mem_get_vfs_cache_pressure(t)
    BY <1>6 DEF Encode, Decode, zenctl_mem_set_vfs_cache_pressure
  <2>3. Kernel(a, k, t, old) = {t}
    BY <1>6 DEF Kernel, Lists, Battery, WriteOnly, Rounded
  <2>4. IsNum(t, 0..IntMax) => Decode(a, t) = t
    BY <2>2, IntRange, NumRanges, CastTakes, ReadTakes DEF zenctl_mem_get_vfs_cache_pressure
  <2>5. Given(a, v) => IsNum(v, Int)
    BY <2>1, NumRanges
  <2> QED BY <1>6, <2>1, <2>2, <2>3, <2>4, <2>5, IntRange
<1>7. CASE a = "mtu"
  <2>1. Top(a) = IntMax /\ (Given(a, v) <=> IntNum(v)) /\ (Held(a, k, t) <=> IsNum(t, 0..Top(a)))
    BY <1>7 DEF Top, Given, Held, Counted, Long, Battery
  <2>2. Encode(a, v, d) = Within(v, 0, IntMax) /\ Decode(a, t) = zenctl_net_get_mtu(t)
    BY <1>7 DEF Encode, Decode, zenctl_net_set_mtu
  <2>3. Kernel(a, k, t, old) = {t}
    BY <1>7 DEF Kernel, Lists, Battery, WriteOnly, Rounded
  <2>4. IsNum(t, 0..IntMax) => Decode(a, t) = t
    BY <2>2, IntRange DEF zenctl_net_get_mtu, Within, read_i64, IsNum, Num
  <2>5. Given(a, v) => IsNum(v, Int)
    BY <2>1, NumRanges
  <2> QED BY <1>7, <2>1, <2>2, <2>3, <2>4, <2>5, IntRange
<1>8. CASE a = "rps_min"
  <2>1. Top(a) = IntMax /\ (Given(a, v) <=> IntNum(v)) /\ (Held(a, k, t) <=> IsNum(t, 0..Top(a)))
    BY <1>8 DEF Top, Given, Held, Counted, Long, Battery
  <2>2. Encode(a, v, d) = Within(v, 0, IntMax) /\ Decode(a, t) = zenctl_gpu_i915_get_rps_min(t)
    BY <1>8 DEF Encode, Decode, zenctl_gpu_i915_set_rps_min
  <2>3. Kernel(a, k, t, old) = (IF k = "loose" THEN {t, old} ELSE {t})
    BY <1>8 DEF Kernel, Lists, Battery, WriteOnly, Rounded
  <2>4. IsNum(t, 0..IntMax) => Decode(a, t) = t
    BY <2>2, IntRange, NumRanges, CastTakes, ReadTakes DEF zenctl_gpu_i915_get_rps_min
  <2>5. Given(a, v) => IsNum(v, Int)
    BY <2>1, NumRanges
  <2> QED BY <1>8, <2>1, <2>2, <2>3, <2>4, <2>5, IntRange
<1>9. CASE a = "rps_max"
  <2>1. Top(a) = IntMax /\ (Given(a, v) <=> IntNum(v)) /\ (Held(a, k, t) <=> IsNum(t, 0..Top(a)))
    BY <1>9 DEF Top, Given, Held, Counted, Long, Battery
  <2>2. Encode(a, v, d) = Within(v, 0, IntMax) /\ Decode(a, t) = zenctl_gpu_i915_get_rps_max(t)
    BY <1>9 DEF Encode, Decode, zenctl_gpu_i915_set_rps_max
  <2>3. Kernel(a, k, t, old) = (IF k = "loose" THEN {t, old} ELSE {t})
    BY <1>9 DEF Kernel, Lists, Battery, WriteOnly, Rounded
  <2>4. IsNum(t, 0..IntMax) => Decode(a, t) = t
    BY <2>2, IntRange, NumRanges, CastTakes, ReadTakes DEF zenctl_gpu_i915_get_rps_max
  <2>5. Given(a, v) => IsNum(v, Int)
    BY <2>1, NumRanges
  <2> QED BY <1>9, <2>1, <2>2, <2>3, <2>4, <2>5, IntRange
<1>10. CASE a = "rps_boost"
  <2>1. Top(a) = IntMax /\ (Given(a, v) <=> IntNum(v)) /\ (Held(a, k, t) <=> IsNum(t, 0..Top(a)))
    BY <1>10 DEF Top, Given, Held, Counted, Long, Battery
  <2>2. Encode(a, v, d) = Within(v, 0, IntMax) /\ Decode(a, t) = zenctl_gpu_i915_get_rps_boost(t)
    BY <1>10 DEF Encode, Decode, zenctl_gpu_i915_set_rps_boost
  <2>3. Kernel(a, k, t, old) = (IF k = "loose" THEN {t, old} ELSE {t})
    BY <1>10 DEF Kernel, Lists, Battery, WriteOnly, Rounded
  <2>4. IsNum(t, 0..IntMax) => Decode(a, t) = t
    BY <2>2, IntRange, NumRanges, CastTakes, ReadTakes DEF zenctl_gpu_i915_get_rps_boost
  <2>5. Given(a, v) => IsNum(v, Int)
    BY <2>1, NumRanges
  <2> QED BY <1>10, <2>1, <2>2, <2>3, <2>4, <2>5, IntRange
<1>11. CASE a = "swappiness"
  <2>1. Top(a) = 200 /\ (Given(a, v) <=> IntNum(v)) /\ (Held(a, k, t) <=> IsNum(t, 0..Top(a)))
    BY <1>11 DEF Top, Given, Held, Counted, Long, Battery
  <2>2. Encode(a, v, d) = Within(v, 0, 200) /\ Decode(a, t) = zenctl_mem_get_swappiness(t)
    BY <1>11 DEF Encode, Decode, zenctl_mem_set_swappiness
  <2>3. Kernel(a, k, t, old) = {t}
    BY <1>11 DEF Kernel, Lists, Battery, WriteOnly, Rounded
  <2>4. IsNum(t, 0..200) => Decode(a, t) = t
    BY <2>2, IntRange, NumRanges, CastTakes, ReadTakes DEF zenctl_mem_get_swappiness
  <2>5. Given(a, v) => IsNum(v, Int)
    BY <2>1, NumRanges
  <2>6. Encode(a, v, d) = Within(v, 0, Top(a)) /\ (IsNum(t, 0..Top(a)) => Decode(a, t) = t)
    BY <2>1, <2>2, <2>4, Zenon
  <2>7. Top(a) \in Nat
    BY <2>1
  <2> QED BY <1>11, <2>1, <2>3, <2>5, <2>6, <2>7
<1>12. CASE a = "overcommit"
  <2>1. Top(a) = 2 /\ (Given(a, v) <=> IntNum(v)) /\ (Held(a, k, t) <=> IsNum(t, 0..Top(a)))
    BY <1>12 DEF Top, Given, Held, Counted, Long, Battery
  <2>2. Encode(a, v, d) = Within(v, 0, 2) /\ Decode(a, t) = zenctl_mem_get_overcommit(t)
    BY <1>12 DEF Encode, Decode, zenctl_mem_set_overcommit
  <2>3. Kernel(a, k, t, old) = {t}
    BY <1>12 DEF Kernel, Lists, Battery, WriteOnly, Rounded
  <2>4. IsNum(t, 0..2) => Decode(a, t) = t
    BY <2>2, IntRange, NumRanges, CastTakes, ReadTakes DEF zenctl_mem_get_overcommit
  <2>5. Given(a, v) => IsNum(v, Int)
    BY <2>1, NumRanges
  <2>6. Encode(a, v, d) = Within(v, 0, Top(a)) /\ (IsNum(t, 0..Top(a)) => Decode(a, t) = t)
    BY <2>1, <2>2, <2>4, Zenon
  <2>7. Top(a) \in Nat
    BY <2>1
  <2> QED BY <1>12, <2>1, <2>3, <2>5, <2>6, <2>7
<1>13. CASE a = "fan_pwm"
  <2>1. Top(a) = 255 /\ (Given(a, v) <=> IntNum(v)) /\ (Held(a, k, t) <=> IsNum(t, 0..Top(a)))
    BY <1>13 DEF Top, Given, Held, Counted, Long, Battery
  <2>2. Encode(a, v, d) = Within(v, 0, 255) /\ Decode(a, t) = zenctl_thermal_hwmon_get_fan_pwm(t)
    BY <1>13 DEF Encode, Decode, zenctl_thermal_hwmon_set_fan_pwm
  <2>3. Kernel(a, k, t, old) = (IF k = "loose" THEN {t, old} ELSE {t})
    BY <1>13 DEF Kernel, Lists, Battery, WriteOnly, Rounded
  <2>4. IsNum(t, 0..255) => Decode(a, t) = t
    BY <2>2, IntRange, NumRanges, CastTakes, ReadTakes DEF zenctl_thermal_hwmon_get_fan_pwm
  <2>5. Given(a, v) => IsNum(v, Int)
    BY <2>1, NumRanges
  <2>6. Encode(a, v, d) = Within(v, 0, Top(a)) /\ (IsNum(t, 0..Top(a)) => Decode(a, t) = t)
    BY <2>1, <2>2, <2>4, Zenon
  <2>7. Top(a) \in Nat
    BY <2>1
  <2> QED BY <1>13, <2>1, <2>3, <2>5, <2>6, <2>7
<1> QED BY <1>1, <1>2, <1>3, <1>4, <1>5, <1>6, <1>7, <1>8, <1>9, <1>10, <1>11, <1>12, <1>13 DEF Counted, Long, Battery

(* The attributes whose text is on or auto. *)
LEMMA OnOrAutoRow ==
  ASSUME NEW a \in {"runtime_pm", "st_power", "pcie_power", "usb_power"}, NEW k, NEW v, NEW d, NEW t, NEW old
  PROVE  /\ Encode(a, v, d) = OnOrAuto(v) /\ Decode(a, t) = t /\ Kernel(a, k, t, old) = {t}
         /\ Held(a, k, t) <=> t \in {Word("on"), Word("auto")}
<1>1. Kernel(a, k, t, old) = {t} /\ (Held(a, k, t) <=> t \in {Word("on"), Word("auto")})
  BY DEF Kernel, Held, Contents, Lists, Counted, Long, Battery, WriteOnly, Rounded
<1>2. CASE a = "runtime_pm"
  BY <1>1, <1>2 DEF Encode, Decode, zenctl_power_set_runtime_pm, zenctl_power_get_runtime_pm
<1>3. CASE a = "st_power"
  BY <1>1, <1>3 DEF Encode, Decode, zenctl_storage_set_power_control, zenctl_storage_get_power_control
<1>4. CASE a = "pcie_power"
  BY <1>1, <1>4 DEF Encode, Decode, zenctl_pcie_set_power_control, zenctl_pcie_get_power_control
<1>5. CASE a = "usb_power"
  BY <1>1, <1>5 DEF Encode, Decode, zenctl_usb_set_power_control, zenctl_usb_get_power_control
<1> QED BY <1>2, <1>3, <1>4, <1>5

(* The attributes whose text the kernel alone judges. *)
LEMMA VerbatimRow ==
  ASSUME NEW a \in {"irq_affinity", "policy"}, NEW k, NEW v, NEW d, NEW t, NEW old
  PROVE  /\ Encode(a, v, d) = v /\ Decode(a, t) = t
         /\ Kernel(a, k, t, old) = (IF t \in Contents(a, k) THEN {t} ELSE {})
         /\ Held(a, k, t) <=> t \in Contents(a, k)
         /\ Refused \notin Contents(a, k)
<1>1. Kernel(a, k, t, old) = (IF t \in Contents(a, k) THEN {t} ELSE {}) /\ (Held(a, k, t) <=> t \in Contents(a, k))
  BY DEF Kernel, Held, Lists, Counted, Long, Battery, WriteOnly, Rounded
<1>2. Refused \notin Contents(a, k)
  BY DEF Contents, Lists, Word, Refused
<1>3. CASE a = "irq_affinity"
  BY <1>1, <1>2, <1>3 DEF Encode, Decode, zenctl_net_set_irq_affinity, zenctl_net_get_irq_affinity
<1>4. CASE a = "policy"
  BY <1>1, <1>2, <1>4 DEF Encode, Decode, zenctl_thermal_set_policy, zenctl_thermal_get_policy
<1> QED BY <1>3, <1>4

(* The files that list the choices and mark the active one. *)
LEMMA ListRow ==
  ASSUME NEW a \in {"aspm", "mem_sleep", "scheduler"}, NEW k, NEW v, NEW d, NEW w, NEW t, NEW old
  PROVE  /\ Given(a, v) => v = Word(v[2])
         /\ Encode(a, v, d) \in {v, Refused}
         /\ Decode(a, Marked(w)) = IF a = "aspm" THEN Marked(w) ELSE Word(w)
         /\ a # "aspm" /\ w \in Lists[a] => Encode(a, Word(w), d) = Word(w)
         /\ Kernel(a, k, t, old) = IF t[2] \in Lists[a] THEN {Marked(t[2])} ELSE {}
         /\ Held(a, k, t) <=> \E x \in Lists[a] : t = Marked(x)
<1>1. Kernel(a, k, t, old) = IF t[2] \in Lists[a] THEN {Marked(t[2])} ELSE {}
  BY DEF Kernel, Lists, Battery, WriteOnly, Rounded
<1>2. Held(a, k, t) <=> \E x \in Lists[a] : t = Marked(x)
  BY DEF Held, Contents, Lists, Counted, Long, Battery
<1>3. Given(a, v) => v = Word(v[2])
  BY DEF Given, Battery
<1>4. CASE a = "aspm"
  <2>1. Encode(a, v, d) \in {v, Refused} /\ Decode(a, Marked(w)) = Marked(w)
    BY <1>4 DEF Encode, Decode, Marked, zenctl_pcie_set_aspm_policy, zenctl_pcie_get_aspm_policy, OneOf
  <2>2. a # "aspm" /\ w \in Lists[a] => Encode(a, Word(w), d) = Word(w)
    BY <1>4 DEF Encode, Lists, Word, zenctl_pcie_set_aspm_policy
  <2> QED BY <1>1, <1>2, <1>3, <1>4, <2>1, <2>2
<1>5. CASE a = "mem_sleep"
  <2>1. Encode(a, v, d) \in {v, Refused} /\ Decode(a, Marked(w)) = Word(w)
    BY <1>5 DEF Encode, Decode, Marked, zenctl_power_set_mem_sleep_mode, zenctl_power_get_mem_sleep_mode
  <2>2. a # "aspm" /\ w \in Lists[a] => Encode(a, Word(w), d) = Word(w)
    BY <1>5 DEF Encode, Lists, Word, zenctl_power_set_mem_sleep_mode
  <2> QED BY <1>1, <1>2, <1>3, <1>5, <2>1, <2>2
<1>6. CASE a = "scheduler"
  <2>1. Encode(a, v, d) \in {v, Refused} /\ Decode(a, Marked(w)) = Word(w)
    BY <1>6 DEF Encode, Decode, Marked, zenctl_storage_set_scheduler, zenctl_storage_get_scheduler, Active
  <2>2. a # "aspm" /\ w \in Lists[a] => Encode(a, Word(w), d) = Word(w)
    BY <1>6 DEF Encode, Lists, Word, zenctl_storage_set_scheduler
  <2> QED BY <1>1, <1>2, <1>3, <1>6, <2>1, <2>2
<1> QED BY <1>4, <1>5, <1>6

(* The text a switch is written as, and what the file shows then. *)
Switches == {"smt", "online", "cstate", "authorized", "usb_wakeup", "zone_mode", "offload",
             "fan_auto", "d3cold", "rc6", "gpu_fan_auto"}
OnText(a) ==
  CASE a = "smt" -> Word("on")
    [] a \in {"usb_wakeup", "zone_mode"} -> Word("enabled")
    [] a \in {"fan_auto", "gpu_fan_auto"} -> Num(2)
    [] OTHER -> Num(1)
OffText(a) ==
  CASE a = "smt" -> Word("off")
    [] a \in {"usb_wakeup", "zone_mode"} -> Word("disabled")
    [] a \in {"fan_auto", "gpu_fan_auto"} -> Num(1)
    [] OTHER -> Num(0)
OnFile(a) == IF a = "smt" THEN Num(1) ELSE OnText(a)
OffFile(a) == IF a = "smt" THEN Num(0) ELSE OffText(a)

(* A switch has a text and a file content for each of its positions. *)
LEMMA SwitchRow ==
  ASSUME NEW a \in Switches, NEW k, NEW v, NEW d, NEW t, NEW old
  PROVE  /\ Given(a, v) <=> v \in Switch
         /\ a # "rc6" \/ (d # NoDev /\ kind[d] = "rw") =>
              Encode(a, Flag(TRUE), d) = OnText(a) /\ Encode(a, Flag(FALSE), d) = OffText(a)
         /\ Decode(a, OnFile(a)) = Flag(TRUE) /\ Decode(a, OffFile(a)) = Flag(FALSE)
         /\ Kernel(a, k, OnText(a), old) = {OnFile(a)} /\ Kernel(a, k, OffText(a), old) = {OffFile(a)}
         /\ Held(a, k, t) =>
              \/ t \in {OnFile(a), OffFile(a)}
              \/ a \in {"fan_auto", "gpu_fan_auto"} /\ t \in {Num(0), Num(3)}
              \/ a = "rc6" /\ t = Num(3)
         /\ Held(a, k, OnFile(a)) /\ Held(a, k, OffFile(a))
<1>1. CASE a = "smt"
  <2>1. OnText(a) = Word("on") /\ OffText(a) = Word("off") /\ OnFile(a) = Num(1) /\ OffFile(a) = Num(0)
    BY <1>1 DEF OnText, OffText, OnFile, OffFile
  <2>2. (Given(a, v) <=> v \in Switch) /\ (Held(a, k, t) <=> t \in {Num(0), Num(1)})
        /\ Held(a, k, Num(1)) /\ Held(a, k, Num(0))
    BY <1>1 DEF Given, Held, Contents, Lists, Counted, Long, Battery
  <2>3. Encode(a, Flag(TRUE), d) = Word("on") /\ Encode(a, Flag(FALSE), d) = Word("off")
    BY <1>1, TextOfFlag DEF Encode, zenctl_cpu_set_smt_active
  <2>4. Decode(a, Num(1)) = Flag(TRUE) /\ Decode(a, Num(0)) = Flag(FALSE)
    BY <1>1, SwitchGets DEF Decode
  <2>5. Kernel(a, k, Word("on"), old) = {Num(1)} /\ Kernel(a, k, Word("off"), old) = {Num(0)}
    BY <1>1, NumsDiffer DEF Kernel, Lists, Battery, WriteOnly, Rounded
  <2> QED BY <1>1, <2>1, <2>2, <2>3, <2>4, <2>5
<1>2. CASE a = "online"
  <2>1. OnText(a) = Num(1) /\ OffText(a) = Num(0) /\ OnFile(a) = Num(1) /\ OffFile(a) = Num(0)
    BY <1>2 DEF OnText, OffText, OnFile, OffFile
  <2>2. (Given(a, v) <=> v \in Switch) /\ (Held(a, k, t) <=> t \in {Num(0), Num(1)})
        /\ Held(a, k, Num(1)) /\ Held(a, k, Num(0))
    BY <1>2 DEF Given, Held, Contents, Lists, Counted, Long, Battery
  <2>3. Encode(a, Flag(TRUE), d) = Num(1) /\ Encode(a, Flag(FALSE), d) = Num(0)
    BY <1>2, TextOfFlag DEF Encode, zenctl_cpu_set_online
  <2>4. Decode(a, Num(1)) = Flag(TRUE) /\ Decode(a, Num(0)) = Flag(FALSE)
    BY <1>2, SwitchGets DEF Decode
  <2>5. Kernel(a, k, Num(1), old) = {Num(1)} /\ Kernel(a, k, Num(0), old) = {Num(0)}
    BY <1>2 DEF Kernel, Lists, Battery, WriteOnly, Rounded
  <2> QED BY <1>2, <2>1, <2>2, <2>3, <2>4, <2>5
<1>3. CASE a = "cstate"
  <2>1. OnText(a) = Num(1) /\ OffText(a) = Num(0) /\ OnFile(a) = Num(1) /\ OffFile(a) = Num(0)
    BY <1>3 DEF OnText, OffText, OnFile, OffFile
  <2>2. (Given(a, v) <=> v \in Switch) /\ (Held(a, k, t) <=> t \in {Num(0), Num(1)})
        /\ Held(a, k, Num(1)) /\ Held(a, k, Num(0))
    BY <1>3 DEF Given, Held, Contents, Lists, Counted, Long, Battery
  <2>3. Encode(a, Flag(TRUE), d) = Num(1) /\ Encode(a, Flag(FALSE), d) = Num(0)
    BY <1>3, TextOfFlag DEF Encode, zenctl_cpu_set_cstate_disable
  <2>4. Decode(a, Num(1)) = Flag(TRUE) /\ Decode(a, Num(0)) = Flag(FALSE)
    BY <1>3, SwitchGets DEF Decode
  <2>5. Kernel(a, k, Num(1), old) = {Num(1)} /\ Kernel(a, k, Num(0), old) = {Num(0)}
    BY <1>3 DEF Kernel, Lists, Battery, WriteOnly, Rounded
  <2> QED BY <1>3, <2>1, <2>2, <2>3, <2>4, <2>5
<1>4. CASE a = "authorized"
  <2>1. OnText(a) = Num(1) /\ OffText(a) = Num(0) /\ OnFile(a) = Num(1) /\ OffFile(a) = Num(0)
    BY <1>4 DEF OnText, OffText, OnFile, OffFile
  <2>2. (Given(a, v) <=> v \in Switch) /\ (Held(a, k, t) <=> t \in {Num(0), Num(1)})
        /\ Held(a, k, Num(1)) /\ Held(a, k, Num(0))
    BY <1>4 DEF Given, Held, Contents, Lists, Counted, Long, Battery
  <2>3. Encode(a, Flag(TRUE), d) = Num(1) /\ Encode(a, Flag(FALSE), d) = Num(0)
    BY <1>4, TextOfFlag DEF Encode, zenctl_usb_set_authorized
  <2>4. Decode(a, Num(1)) = Flag(TRUE) /\ Decode(a, Num(0)) = Flag(FALSE)
    BY <1>4, SwitchGets DEF Decode
  <2>5. Kernel(a, k, Num(1), old) = {Num(1)} /\ Kernel(a, k, Num(0), old) = {Num(0)}
    BY <1>4 DEF Kernel, Lists, Battery, WriteOnly, Rounded
  <2> QED BY <1>4, <2>1, <2>2, <2>3, <2>4, <2>5
<1>5. CASE a = "usb_wakeup"
  <2>1. OnText(a) = Word("enabled") /\ OffText(a) = Word("disabled") /\ OnFile(a) = Word("enabled") /\ OffFile(a) = Word("disabled")
    BY <1>5 DEF OnText, OffText, OnFile, OffFile
  <2>2. (Given(a, v) <=> v \in Switch) /\ (Held(a, k, t) <=> t \in {Word("enabled"), Word("disabled")})
        /\ Held(a, k, Word("enabled")) /\ Held(a, k, Word("disabled"))
    BY <1>5 DEF Given, Held, Contents, Lists, Counted, Long, Battery
  <2>3. Encode(a, Flag(TRUE), d) = Word("enabled") /\ Encode(a, Flag(FALSE), d) = Word("disabled")
    BY <1>5, TextOfFlag DEF Encode, zenctl_usb_set_wakeup
  <2>4. Decode(a, Word("enabled")) = Flag(TRUE) /\ Decode(a, Word("disabled")) = Flag(FALSE)
    BY <1>5, SwitchGets DEF Decode
  <2>5. Kernel(a, k, Word("enabled"), old) = {Word("enabled")} /\ Kernel(a, k, Word("disabled"), old) = {Word("disabled")}
    BY <1>5 DEF Kernel, Lists, Battery, WriteOnly, Rounded
  <2> QED BY <1>5, <2>1, <2>2, <2>3, <2>4, <2>5
<1>6. CASE a = "zone_mode"
  <2>1. OnText(a) = Word("enabled") /\ OffText(a) = Word("disabled") /\ OnFile(a) = Word("enabled") /\ OffFile(a) = Word("disabled")
    BY <1>6 DEF OnText, OffText, OnFile, OffFile
  <2>2. (Given(a, v) <=> v \in Switch) /\ (Held(a, k, t) <=> t \in {Word("enabled"), Word("disabled")})
        /\ Held(a, k, Word("enabled")) /\ Held(a, k, Word("disabled"))
    BY <1>6 DEF Given, Held, Contents, Lists, Counted, Long, Battery
  <2>3. Encode(a, Flag(TRUE), d) = Word("enabled") /\ Encode(a, Flag(FALSE), d) = Word("disabled")
    BY <1>6, TextOfFlag DEF Encode, zenctl_thermal_set_mode
  <2>4. Decode(a, Word("enabled")) = Flag(TRUE) /\ Decode(a, Word("disabled")) = Flag(FALSE)
    BY <1>6, SwitchGets DEF Decode
  <2>5. Kernel(a, k, Word("enabled"), old) = {Word("enabled")} /\ Kernel(a, k, Word("disabled"), old) = {Word("disabled")}
    BY <1>6 DEF Kernel, Lists, Battery, WriteOnly, Rounded
  <2> QED BY <1>6, <2>1, <2>2, <2>3, <2>4, <2>5
<1>7. CASE a = "offload"
  <2>1. OnText(a) = Num(1) /\ OffText(a) = Num(0) /\ OnFile(a) = Num(1) /\ OffFile(a) = Num(0)
    BY <1>7 DEF OnText, OffText, OnFile, OffFile
  <2>2. (Given(a, v) <=> v \in Switch) /\ (Held(a, k, t) <=> t \in {Num(0), Num(1)})
        /\ Held(a, k, Num(1)) /\ Held(a, k, Num(0))
    BY <1>7 DEF Given, Held, Contents, Lists, Counted, Long, Battery
  <2>3. Encode(a, Flag(TRUE), d) = Num(1) /\ Encode(a, Flag(FALSE), d) = Num(0)
    BY <1>7, TextOfFlag DEF Encode, net_set_flag
  <2>4. Decode(a, Num(1)) = Flag(TRUE) /\ Decode(a, Num(0)) = Flag(FALSE)
    BY <1>7, SwitchGets DEF Decode
  <2>5. Kernel(a, k, Num(1), old) = {Num(1)} /\ Kernel(a, k, Num(0), old) = {Num(0)}
    BY <1>7 DEF Kernel, Lists, Battery, WriteOnly, Rounded
  <2> QED BY <1>7, <2>1, <2>2, <2>3, <2>4, <2>5
<1>8. CASE a = "fan_auto"
  <2>1. OnText(a) = Num(2) /\ OffText(a) = Num(1) /\ OnFile(a) = Num(2) /\ OffFile(a) = Num(1)
    BY <1>8 DEF OnText, OffText, OnFile, OffFile
  <2>2. (Given(a, v) <=> v \in Switch) /\ (Held(a, k, t) <=> t \in {Num(0), Num(1), Num(2), Num(3)})
        /\ Held(a, k, Num(2)) /\ Held(a, k, Num(1))
    BY <1>8 DEF Given, Held, Contents, Lists, Counted, Long, Battery
  <2>3. Encode(a, Flag(TRUE), d) = Num(2) /\ Encode(a, Flag(FALSE), d) = Num(1)
    BY <1>8, TextOfFlag DEF Encode, zenctl_thermal_hwmon_set_fan_auto
  <2>4. Decode(a, Num(2)) = Flag(TRUE) /\ Decode(a, Num(1)) = Flag(FALSE)
    BY <1>8, SwitchGets DEF Decode
  <2>5. Kernel(a, k, Num(2), old) = {Num(2)} /\ Kernel(a, k, Num(1), old) = {Num(1)}
    BY <1>8 DEF Kernel, Lists, Battery, WriteOnly, Rounded
  <2> QED BY <1>8, <2>1, <2>2, <2>3, <2>4, <2>5
<1>9. CASE a = "d3cold"
  <2>1. OnText(a) = Num(1) /\ OffText(a) = Num(0) /\ OnFile(a) = Num(1) /\ OffFile(a) = Num(0)
    BY <1>9 DEF OnText, OffText, OnFile, OffFile
  <2>2. (Given(a, v) <=> v \in Switch) /\ (Held(a, k, t) <=> t \in {Num(0), Num(1)})
        /\ Held(a, k, Num(1)) /\ Held(a, k, Num(0))
    BY <1>9 DEF Given, Held, Contents, Lists, Counted, Long, Battery
  <2>3. Encode(a, Flag(TRUE), d) = Num(1) /\ Encode(a, Flag(FALSE), d) = Num(0)
    BY <1>9, TextOfFlag DEF Encode, zenctl_pcie_set_d3cold_allowed
  <2>4. Decode(a, Num(1)) = Flag(TRUE) /\ Decode(a, Num(0)) = Flag(FALSE)
    BY <1>9, SwitchGets DEF Decode
  <2>5. Kernel(a, k, Num(1), old) = {Num(1)} /\ Kernel(a, k, Num(0), old) = {Num(0)}
    BY <1>9 DEF Kernel, Lists, Battery, WriteOnly, Rounded
  <2> QED BY <1>9, <2>1, <2>2, <2>3, <2>4, <2>5
<1>10. CASE a = "rc6"
  <2>1. OnText(a) = Num(1) /\ OffText(a) = Num(0) /\ OnFile(a) = Num(1) /\ OffFile(a) = Num(0)
    BY <1>10 DEF OnText, OffText, OnFile, OffFile
  <2>2. (Given(a, v) <=> v \in Switch) /\ (Held(a, k, t) <=> t \in {Num(0), Num(1), Num(3)})
        /\ Held(a, k, Num(1)) /\ Held(a, k, Num(0))
    BY <1>10 DEF Given, Held, Contents, Lists, Counted, Long, Battery
  <2>3. (d # NoDev /\ kind[d] = "rw") => Encode(a, Flag(TRUE), d) = Num(1) /\ Encode(a, Flag(FALSE), d) = Num(0)
    BY <1>10, TextOfFlag DEF Encode, zenctl_gpu_i915_set_rc6
  <2>4. Decode(a, Num(1)) = Flag(TRUE) /\ Decode(a, Num(0)) = Flag(FALSE)
    BY <1>10, SwitchGets DEF Decode
  <2>5. Kernel(a, k, Num(1), old) = {Num(1)} /\ Kernel(a, k, Num(0), old) = {Num(0)}
    BY <1>10 DEF Kernel, Lists, Battery, WriteOnly, Rounded
  <2> QED BY <1>10, <2>1, <2>2, <2>3, <2>4, <2>5
<1>11. CASE a = "gpu_fan_auto"
  <2>1. OnText(a) = Num(2) /\ OffText(a) = Num(1) /\ OnFile(a) = Num(2) /\ OffFile(a) = Num(1)
    BY <1>11 DEF OnText, OffText, OnFile, OffFile
  <2>2. (Given(a, v) <=> v \in Switch) /\ (Held(a, k, t) <=> t \in {Num(0), Num(1), Num(2), Num(3)})
        /\ Held(a, k, Num(2)) /\ Held(a, k, Num(1))
    BY <1>11 DEF Given, Held, Contents, Lists, Counted, Long, Battery
  <2>3. Encode(a, Flag(TRUE), d) = Num(2) /\ Encode(a, Flag(FALSE), d) = Num(1)
    BY <1>11, TextOfFlag DEF Encode, zenctl_gpu_set_fan_auto
  <2>4. Decode(a, Num(2)) = Flag(TRUE) /\ Decode(a, Num(1)) = Flag(FALSE)
    BY <1>11, SwitchGets DEF Decode
  <2>5. Kernel(a, k, Num(2), old) = {Num(2)} /\ Kernel(a, k, Num(1), old) = {Num(1)}
    BY <1>11 DEF Kernel, Lists, Battery, WriteOnly, Rounded
  <2> QED BY <1>11, <2>1, <2>2, <2>3, <2>4, <2>5
<1> QED BY <1>1, <1>2, <1>3, <1>4, <1>5, <1>6, <1>7, <1>8, <1>9, <1>10, <1>11 DEF Switches

(* The attributes of a shape of their own. *)
LEMMA QueueDepthRow ==
  ASSUME NEW a, a = "queue_depth", NEW k, NEW v, NEW d, NEW t, NEW old
  PROVE  /\ Given(a, v) <=> IntNum(v)
         /\ Encode(a, v, d) = Within(v, 1, IntMax) /\ Decode(a, t) = Within(read_i64(t), 0, IntMax)
         /\ Kernel(a, k, t, old) = {t} /\ (Held(a, k, t) <=> IsNum(t, 1..IntMax))
<1>1. (Given(a, v) <=> IntNum(v)) /\ (Held(a, k, t) <=> IsNum(t, 1..IntMax))
  BY DEF Given, Held, Counted, Long, Battery
<1> QED
  BY <1>1 DEF Encode, Decode, Kernel, Lists, Battery, WriteOnly, Rounded,
     zenctl_storage_set_queue_depth, zenctl_storage_get_queue_depth

(* The delay of USB autosuspend, which no setter checks. *)
LEMMA AutosuspendRow ==
  ASSUME NEW a, a = "autosuspend", NEW k, NEW v, NEW d, NEW t, NEW old
  PROVE  /\ Given(a, v) <=> IntNum(v)
         /\ Encode(a, v, d) = v /\ Decode(a, t) = Cast(t)
         /\ Kernel(a, k, t, old) = {t} /\ (Held(a, k, t) <=> IntNum(t))
<1>1. (Given(a, v) <=> IntNum(v)) /\ (Held(a, k, t) <=> IntNum(t))
  BY DEF Given, Held, Counted, Long, Battery, IntNum
<1> QED
  BY <1>1 DEF Encode, Decode, Kernel, Lists, Battery, WriteOnly, Rounded,
     zenctl_usb_set_autosuspend_delay, zenctl_usb_get_autosuspend_delay

(* The power limit of a card, which NVML bounds. *)
LEMMA PowerLimitRow ==
  ASSUME NEW a, a = "power_limit", NEW k, NEW v, NEW d, NEW t, NEW old
  PROVE  /\ Given(a, v) <=> IntNum(v)
         /\ Encode(a, v, d) = Within(v, 0, IntMax) /\ Decode(a, t) = Cast(t)
         /\ Kernel(a, k, t, old) = (IF t[2] > 255 THEN {} ELSE {t})
         /\ (Held(a, k, t) <=> IsNum(t, 0..255))
<1>1. (Given(a, v) <=> IntNum(v)) /\ (Held(a, k, t) <=> IsNum(t, 0..255))
  BY DEF Given, Held, Counted, Long, Battery
<1> QED
  BY <1>1 DEF Encode, Decode, Kernel, Lists, Battery, WriteOnly, Rounded,
     zenctl_gpu_nvidia_set_power_limit, zenctl_gpu_nvidia_get_power_limit

(* The state of a cooling device, up to the limit it shows. *)
LEMMA CoolingRow ==
  ASSUME NEW a, a = "cooling", NEW k, NEW v, NEW d, NEW t, NEW old
  PROVE  /\ Given(a, v) <=> IntNum(v)
         /\ Encode(a, v, d) = (IF d = NoDev THEN v ELSE Within(v, 0, MaxState(kind[d])))
         /\ Decode(a, t) = Cast(read_i64(t))
         /\ Kernel(a, k, t, old) = (IF t[2] \in 0..MaxState(k) THEN {t} ELSE {})
         /\ (Held(a, k, t) <=> IsNum(t, 0..MaxState(k)))
<1>1. (Given(a, v) <=> IntNum(v)) /\ (Held(a, k, t) <=> IsNum(t, 0..MaxState(k)))
  BY DEF Given, Held, Counted, Long, Battery
<1> QED
  BY <1>1 DEF Encode, Decode, Kernel, Lists, Battery, WriteOnly, Rounded,
     zenctl_thermal_set_cooling_state, zenctl_thermal_get_cooling

(* The fan of a graphics card with a hwmon directory. *)
LEMMA GpuFanRow ==
  ASSUME NEW a, a = "gpu_fan_pwm", NEW v, NEW d, NEW t, NEW old
  PROVE  /\ Given(a, v) <=> IntNum(v)
         /\ Encode(a, v, d) = Within(v, 0, 255) /\ (t[1] = "num" => Decode(a, t) = Cast(read_i64(t)))
         /\ Kernel(a, "hwmon", t, old) = {t, old} /\ (Held(a, "hwmon", t) <=> IsNum(t, 0..255))
<1>1. (Given(a, v) <=> IntNum(v)) /\ (Held(a, "hwmon", t) <=> IsNum(t, 0..255))
  BY DEF Given, Held, Counted, Long, Battery
<1> QED
  BY <1>1 DEF Encode, Decode, Kernel, Lists, Battery, WriteOnly, Rounded,
     zenctl_gpu_set_fan_pwm, zenctl_gpu_get_fan_pwm

(* The governor, one of those the CPU shows. *)
LEMMA GovernorRow ==
  ASSUME NEW a, a = "governor", NEW k, NEW v, NEW d, NEW t, NEW old
  PROVE  /\ Given(a, v) => v = Word(v[2])
         /\ Encode(a, v, d) = (IF d # NoDev /\ Folded(v) \in Available(kind[d]) THEN v ELSE Refused)
         /\ Decode(a, t) = t /\ Kernel(a, k, t, old) = {Folded(t)} \cap Available(k)
         /\ (Held(a, k, t) <=> t \in Available(k))
<1>1. (Given(a, v) => v = Word(v[2])) /\ (Held(a, k, t) <=> t \in Available(k))
  BY DEF Given, Held, Counted, Long, Battery
<1> QED
  BY <1>1 DEF Encode, Decode, Kernel, Lists, Battery, WriteOnly, Rounded,
     zenctl_cpu_set_governor, zenctl_cpu_get_governor

(* The power profile of a card, written as an index and read as a name. *)
LEMMA ProfileRow ==
  ASSUME NEW a, a = "profile", NEW k, NEW v, NEW d, NEW t, NEW old
  PROVE  /\ Given(a, v) => v = Word(v[2])
         /\ Encode(a, v, d) = (IF d # NoDev /\ kind[d] = "manual" THEN EnumOf(v[2], Profiles) ELSE Refused)
         /\ Decode(a, t) = Active(t) /\ Kernel(a, k, t, old) = {Marked(Profiles[t[2]])}
         /\ (Held(a, k, t) <=> t \in {Marked("BOOTUP"), Marked("VIDEO")})
<1>1. (Given(a, v) => v = Word(v[2])) /\ (Held(a, k, t) <=> t \in {Marked("BOOTUP"), Marked("VIDEO")})
  BY DEF Given, Held, Contents, Lists, Counted, Long, Battery
<1> QED
  BY <1>1 DEF Encode, Decode, Kernel, Lists, Battery, WriteOnly, Rounded,
     zenctl_gpu_amdgpu_set_power_profile, zenctl_gpu_amdgpu_get_power_profile

(* Transparent huge pages, an enumeration in a marked list. *)
LEMMA ThpRow ==
  ASSUME NEW a, a = "thp", NEW k, NEW v, NEW d, NEW t, NEW old
  PROVE  /\ Given(a, v) => v \in {Num(1), Num(2), Num(3)}
         /\ Encode(a, v, d) = NameOf(v, ThpName)
         /\ (t[1] = "marked" => Decode(a, t) = EnumOf(t[2], ThpName))
         /\ Kernel(a, k, t, old) = (IF t[2] \in {"always", "madvise", "never"} THEN {Marked(t[2])} ELSE {})
         /\ (Held(a, k, t) <=> t \in {Marked("always"), Marked("madvise"), Marked("never")})
<1>1. (Given(a, v) => v \in {Num(1), Num(2), Num(3)})
      /\ (Held(a, k, t) <=> t \in {Marked("always"), Marked("madvise"), Marked("never")})
  BY DEF Given, Held, Contents, Lists, Counted, Long, Battery
<1>2. Encode(a, v, d) = NameOf(v, ThpName) /\ (t[1] = "marked" => Decode(a, t) = EnumOf(t[2], ThpName))
  BY DEF Encode, Decode, zenctl_mem_set_thp, zenctl_mem_get_thp, Active, Word, Refused
<1>3. Kernel(a, k, t, old) = (IF t[2] \in {"always", "madvise", "never"} THEN {Marked(t[2])} ELSE {})
  BY DEF Kernel, Lists, Battery, WriteOnly, Rounded
<1> QED BY <1>1, <1>2, <1>3

(* The cache mode of a SCSI disk. *)
LEMMA CacheTypeRow ==
  ASSUME NEW a, a = "cache_type", NEW k, NEW v, NEW d, NEW t, NEW old
  PROVE  /\ Given(a, v) => v \in {Num(1), Num(2), Num(3)}
         /\ v # Num(4) => Encode(a, v, d) = NameOf(v, CacheName)
         /\ t # Word("daft") => Decode(a, t) = EnumOf(t[2], CacheName)
         /\ Kernel(a, k, t, old) = (IF k = "scsi" THEN {t} ELSE {})
         /\ t \in {Word("write_back"), Word("write_through"), Word("none")} => Held(a, k, t)
         /\ Held(a, k, t) => t \in {Word("write_back"), Word("write_through"), Word("none"), Word("daft")}
<1>1. Given(a, v) => v \in {Num(1), Num(2), Num(3)}
  BY DEF Given, Battery
<1>2. Held(a, k, t) <=> t \in Contents(a, k)
  BY DEF Held, Counted, Long, Battery
<1>3. Contents(a, k) = {Word("write_back"), Word("write_through"), Word("none")}
                         \cup (IF k = "nvme" THEN {} ELSE {Word("daft")})
  BY DEF Contents, Lists
<1>4. (v # Num(4) => Encode(a, v, d) = NameOf(v, CacheName))
      /\ (t # Word("daft") => Decode(a, t) = EnumOf(t[2], CacheName))
  BY DEF Encode, Decode, cache_type_to_str, cache_str_to_type
<1>5. Kernel(a, k, t, old) = (IF k = "scsi" THEN {t} ELSE {})
  BY DEF Kernel, Lists, Battery, WriteOnly, Rounded
<1> QED BY <1>1, <1>2, <1>3, <1>4, <1>5

(* The names of the power profiles, by index. *)
LEMMA ProfileNames ==
  /\ EnumOf("BOOTUP", Profiles) = Num(1) /\ Profiles[1] = "BOOTUP"
  /\ EnumOf("VIDEO", Profiles) = Num(2) /\ Profiles[2] = "VIDEO"
  /\ \A w : EnumOf(w, Profiles) # Refused => w \in {"BOOTUP", "VIDEO"}
<1>1. DOMAIN Profiles = 1..2 /\ Profiles[1] = "BOOTUP" /\ Profiles[2] = "VIDEO"
  BY DEF Profiles
<1>2. \A w : EnumOf(w, Profiles) # Refused => w \in {"BOOTUP", "VIDEO"}
  BY <1>1 DEF EnumOf
<1>3. EnumOf("BOOTUP", Profiles) = Num(1)
  <2>1. \A j \in DOMAIN Profiles : Profiles[j] = "BOOTUP" <=> j = 1
    BY <1>1
  <2>2. 1 \in DOMAIN Profiles /\ (CHOOSE j \in DOMAIN Profiles : Profiles[j] = "BOOTUP") = 1
    BY <1>1, <2>1
  <2> QED BY <2>1, <2>2 DEF EnumOf
<1>4. EnumOf("VIDEO", Profiles) = Num(2)
  <2>1. \A j \in DOMAIN Profiles : Profiles[j] = "VIDEO" <=> j = 2
    BY <1>1
  <2>2. 2 \in DOMAIN Profiles /\ (CHOOSE j \in DOMAIN Profiles : Profiles[j] = "VIDEO") = 2
    BY <1>1, <2>1
  <2> QED BY <2>1, <2>2 DEF EnumOf
<1> QED BY <1>1, <1>2, <1>3, <1>4

(* Every attribute has one of these shapes. *)
LEMMA EveryShape ==
  Attr = Counted \cup Switches \cup {"runtime_pm", "st_power", "pcie_power", "usb_power"}
           \cup {"irq_affinity", "policy"} \cup {"aspm", "mem_sleep", "scheduler"}
           \cup {"queue_depth", "autosuspend", "cooling", "gpu_fan_pwm", "governor", "profile",
                 "thp", "cache_type", "power_limit"}
           \cup ReadOnly \cup WriteOnly
BY DEF Attr, Global, Indexed, Battery, Numbered, Hwmon, Named, Counted, Long, Switches, ReadOnly, WriteOnly

(* A value that the setter takes and the kernel keeps is in the file as one *)
(* of its texts, and the getter makes the same value of it.                 *)
LEMMA WriteThenRead ==
  ASSUME NEW a \in Attr, a \notin ReadOnly \cup WriteOnly, NEW k, a = "gpu_fan_pwm" => k = "hwmon",
         NEW v, Given(a, v), NEW d, Encode(a, v, d) # Refused,
         NEW old, Held(a, k, old), NEW t \in Kernel(a, k, Encode(a, v, d), old)
  PROVE  /\ Held(a, k, t)
         /\ k # "loose" /\ a # "gpu_fan_pwm" => Decode(a, t) = Shown(a, v)
<1>1. CASE a \in Counted
  <2>1. Encode(a, v, d) = Within(v, 0, Top(a)) /\ IsNum(v, Int) /\ Top(a) \in Nat
    BY <1>1, CountedRow
  <2>2. Encode(a, v, d) = v /\ IsNum(v, 0..Top(a))
    BY <2>1, WithinPasses
  <2>3. t = v \/ (t = old /\ k = "loose")
    BY <1>1, <2>2, CountedRow
  <2>4. Held(a, k, v) /\ Decode(a, v) = v
    BY <1>1, <2>2, CountedRow
  <2>5. Shown(a, v) = v
    BY <1>1 DEF Shown, Counted, Long, Battery
  <2> QED BY <2>3, <2>4, <2>5
<1>2. CASE a \in Switches
  <2>1. v \in {Flag(TRUE), Flag(FALSE)}
    BY <1>2, SwitchRow DEF Switch
  <2>2. a # "rc6" \/ (d # NoDev /\ kind[d] = "rw")
    <3>1. CASE a = "rc6" /\ (d = NoDev \/ kind[d] # "rw")
      BY <3>1 DEF Encode
    <3> QED BY <3>1
  <2>3. Shown(a, v) = v
    BY <1>2 DEF Shown, Switches
  <2>4. CASE v = Flag(TRUE)
    <3>1. Encode(a, v, d) = OnText(a)
      BY <1>2, <2>2, <2>4, SwitchRow
    <3>2. Kernel(a, k, OnText(a), old) = {OnFile(a)}
      BY <1>2, SwitchRow
    <3>3. t = OnFile(a)
      BY <3>1, <3>2
    <3> QED BY <1>2, <2>3, <2>4, <3>3, SwitchRow
  <2>5. CASE v = Flag(FALSE)
    <3>1. Encode(a, v, d) = OffText(a)
      BY <1>2, <2>2, <2>5, SwitchRow
    <3>2. Kernel(a, k, OffText(a), old) = {OffFile(a)}
      BY <1>2, SwitchRow
    <3>3. t = OffFile(a)
      BY <3>1, <3>2
    <3> QED BY <1>2, <2>3, <2>5, <3>3, SwitchRow
  <2> QED BY <2>1, <2>4, <2>5
<1>3. CASE a \in {"runtime_pm", "st_power", "pcie_power", "usb_power"}
  <2>1. t = OnOrAuto(v) /\ OnOrAuto(v) # Refused
    BY <1>3, OnOrAutoRow
  <2>2. v = Word(v[2])
    BY <1>3 DEF Given, Battery
  <2>3. t = v /\ t \in {Word("on"), Word("auto")}
    BY <2>1, <2>2 DEF OnOrAuto, OneOf, Word
  <2> QED BY <1>3, <2>3, OnOrAutoRow DEF Shown
<1>4. CASE a \in {"irq_affinity", "policy"}
  <2>1. t = v /\ v \in Contents(a, k)
    BY <1>4, VerbatimRow
  <2> QED BY <1>4, <2>1, VerbatimRow DEF Shown
<1>5. CASE a \in {"aspm", "mem_sleep", "scheduler"}
  <2>1. Encode(a, v, d) = v /\ v = Word(v[2])
    BY <1>5, ListRow
  <2>2. t = Marked(v[2]) /\ v[2] \in Lists[a]
    BY <1>5, <2>1, ListRow
  <2>3. Held(a, k, t)
    BY <1>5, <2>2, ListRow
  <2>4. Decode(a, t) = IF a = "aspm" THEN Marked(v[2]) ELSE v
    BY <1>5, <2>1, <2>2, ListRow
  <2> QED BY <1>5, <2>3, <2>4 DEF Shown
<1>6. CASE a = "queue_depth"
  <2>1. IntNum(v) /\ Within(v, 1, IntMax) # Refused /\ t = Within(v, 1, IntMax)
    BY <1>6, QueueDepthRow
  <2>2. t = v /\ IsNum(v, 1..IntMax)
    BY <2>1, NumRanges, IntRange, WithinPasses
  <2>3. Decode(a, v) = v
    BY <1>6, <2>2, QueueDepthRow, NumRanges, IntRange, WithinPasses, ReadTakes
  <2> QED BY <1>6, <2>2, <2>3, QueueDepthRow DEF Shown
<1>7. CASE a = "autosuspend"
  <2>1. IntNum(v) /\ t = v
    BY <1>7, AutosuspendRow
  <2> QED BY <1>7, <2>1, AutosuspendRow, CastTakes DEF Shown
<1>8. CASE a = "cooling"
  <2>1. IntNum(v) /\ Encode(a, v, d) = v
    BY <1>8, CoolingRow DEF Within
  <2>2. t = v /\ v[2] \in 0..MaxState(k)
    BY <1>8, <2>1, CoolingRow
  <2>3. Held(a, k, v)
    BY <1>8, <2>1, <2>2, CoolingRow DEF IsNum, IntNum
  <2>4. Decode(a, v) = v
    BY <1>8, <2>1, CoolingRow, NumRanges, CastTakes, ReadTakes
  <2> QED BY <1>8, <2>2, <2>3, <2>4 DEF Shown
<1>9. CASE a = "gpu_fan_pwm"
  <2>1. IntNum(v) /\ Encode(a, v, d) = Within(v, 0, 255) /\ t \in {Encode(a, v, d), old}
    BY <1>9, GpuFanRow
  <2>2. Encode(a, v, d) = v /\ IsNum(v, 0..255)
    BY <2>1 DEF Within, IsNum, IntNum, Num, Refused
  <2> QED BY <1>9, <2>1, <2>2, GpuFanRow
<1>10. CASE a = "governor"
  <2>1. Encode(a, v, d) = v /\ t = Folded(v) /\ t \in Available(k)
    BY <1>10, GovernorRow
  <2> QED BY <1>10, <2>1, GovernorRow DEF Shown
<1>11. CASE a = "profile"
  <2>1. v = Word(v[2]) /\ Encode(a, v, d) = EnumOf(v[2], Profiles) /\ EnumOf(v[2], Profiles) # Refused
    BY <1>11, ProfileRow
  <2>2. t = Marked(Profiles[EnumOf(v[2], Profiles)[2]])
    BY <1>11, <2>1, ProfileRow
  <2>3. t = Marked(v[2]) /\ v[2] \in {"BOOTUP", "VIDEO"}
    BY <2>1, <2>2, ProfileNames DEF Num
  <2>4. Held(a, k, t)
    BY <1>11, <2>3, ProfileRow
  <2>5. Decode(a, t) = v
    BY <1>11, <2>1, <2>3, ProfileRow DEF Active, Marked
  <2> QED BY <1>11, <2>4, <2>5 DEF Shown
<1>12. CASE a = "thp"
  <2>1. v \in {Num(1), Num(2), Num(3)} /\ Encode(a, v, d) = NameOf(v, ThpName)
    BY <1>12, ThpRow
  <2>2. \/ v = Num(1) /\ Encode(a, v, d) = Word("always")
        \/ v = Num(2) /\ Encode(a, v, d) = Word("madvise")
        \/ v = Num(3) /\ Encode(a, v, d) = Word("never")
    BY <2>1, ThpNames
  <2>3. \/ v = Num(1) /\ t = Marked("always")
        \/ v = Num(2) /\ t = Marked("madvise")
        \/ v = Num(3) /\ t = Marked("never")
    BY <1>12, <2>2, ThpRow DEF Word
  <2>4. Decode(a, t) = v
    BY <1>12, <2>3, ThpRow, ThpNames DEF Marked
  <2> QED BY <1>12, <2>3, <2>4, ThpRow DEF Shown
<1>13. CASE a = "cache_type"
  <2>1. v \in {Num(1), Num(2), Num(3)} /\ v # Num(4)
    BY <1>13, CacheTypeRow DEF Num
  <2>2. \/ v = Num(1) /\ Encode(a, v, d) = Word("write_back")
        \/ v = Num(2) /\ Encode(a, v, d) = Word("write_through")
        \/ v = Num(3) /\ Encode(a, v, d) = Word("none")
    BY <1>13, <2>1, CacheTypeRow, CacheNames
  <2>3. t = Encode(a, v, d) /\ t # Word("daft")
    BY <1>13, <2>2, CacheTypeRow DEF Word
  <2>4. Decode(a, t) = v
    BY <1>13, <2>2, <2>3, CacheTypeRow, CacheNames DEF Word
  <2> QED BY <1>13, <2>2, <2>3, <2>4, CacheTypeRow DEF Shown
<1>14. CASE a = "power_limit"
  <2>1. IntNum(v) /\ Within(v, 0, IntMax) # Refused /\ Encode(a, v, d) = Within(v, 0, IntMax)
    BY <1>14, PowerLimitRow
  <2>2. Encode(a, v, d) = v /\ IsNum(v, 0..IntMax)
    BY <2>1, NumRanges, IntRange, WithinPasses
  <2>3. t = v /\ ~(v[2] > 255)
    BY <1>14, <2>2, PowerLimitRow
  <2>4. IsNum(v, 0..255)
    BY <2>2, <2>3, IntRange DEF IsNum
  <2> QED BY <1>14, <2>1, <2>3, <2>4, PowerLimitRow, CastTakes DEF Shown
<1> QED BY <1>1, <1>2, <1>3, <1>4, <1>5, <1>6, <1>7, <1>8, <1>9, <1>10, <1>11, <1>12, <1>13, <1>14, EveryShape

(* The sorts of device on which a saved setting can be set again. *)
LEMMA Settable ==
  ASSUME NEW a \in Attr, NEW k \in Kinds(a), a \in Hwmon => k = "hwmon",
         k \notin {"auto", "ro", "other", "scsi_fixed", "nvme"}
  PROVE  /\ a = "gpu_fan_pwm" => k = "hwmon"
         /\ a = "profile" => k = "manual"
         /\ a = "rc6" => k = "rw"
         /\ a = "cache_type" => k = "scsi"
<1>1. a = "gpu_fan_pwm" => k = "hwmon"
  BY DEF Hwmon
<1>2. a = "profile" => k = "manual"
  BY DEF Kinds, Rounded, Battery
<1>3. a = "rc6" => k = "rw"
  BY DEF Kinds, Rounded, Battery
<1>4. a = "cache_type" => k = "scsi"
  BY DEF Kinds, Rounded, Battery
<1> QED BY <1>1, <1>2, <1>3, <1>4

(* The setter takes what the getter returns and leaves the file as it is.   *)
LEMMA ReadThenWrite ==
  ASSUME NEW a \in Attr, a \notin ReadOnly \cup WriteOnly \cup {"aspm"},
         NEW d \in Dev, NEW k \in Kinds(a), kind[d] = k,
         a \in Hwmon => k = "hwmon", k \notin {"auto", "ro", "other", "scsi_fixed", "nvme"},
         NEW t, Held(a, k, t),
         ~(a \in {"fan_auto", "gpu_fan_auto"} /\ t \in {Num(0), Num(3)}),
         ~(a = "rc6" /\ t = Num(3)), t # Word("daft")
  PROVE  /\ Decode(a, t) # Refused /\ Encode(a, Decode(a, t), d) # Refused
         /\ t \in Kernel(a, k, Encode(a, Decode(a, t), d), t)
<1>0. d # NoDev
  BY AttributesAssumption
<1>1. CASE a \in Counted
  <2>1. IsNum(t, 0..Top(a)) /\ Top(a) \in Nat
    BY <1>1, CountedRow
  <2>2. Decode(a, t) = t /\ t # Refused /\ IsNum(t, Int)
    <3>1. Decode(a, t) = t
      BY <1>1, <2>1, CountedRow
    <3> QED BY <2>1, <3>1 DEF IsNum, Num, Refused
  <2>3. Encode(a, t, d) = t
    <3>1. Encode(a, t, d) = Within(t, 0, Top(a))
      BY <1>1, CountedRow
    <3> QED BY <2>1, <2>2, <3>1, WithinPasses
  <2>4. t \in Kernel(a, k, t, t)
    BY <1>1, CountedRow
  <2> QED BY <2>2, <2>3, <2>4
<1>2. CASE a \in Switches
  <2>1. a # "rc6" \/ (d # NoDev /\ kind[d] = "rw")
    BY <1>0, Settable
  <2>2. Flag(TRUE) # Refused /\ Flag(FALSE) # Refused /\ OnText(a) # Refused /\ OffText(a) # Refused
    BY DEF Flag, OnText, OffText, Num, Word, Refused
  <2>3. t = OnFile(a) \/ t = OffFile(a)
    BY <1>2, SwitchRow
  <2>4. CASE t = OnFile(a)
    <3>1. Decode(a, t) = Flag(TRUE) /\ Encode(a, Flag(TRUE), d) = OnText(a)
          /\ Kernel(a, k, OnText(a), t) = {OnFile(a)}
      BY <1>2, <2>1, <2>4, SwitchRow
    <3> QED BY <2>2, <2>4, <3>1
  <2>5. CASE t = OffFile(a)
    <3>1. Decode(a, t) = Flag(FALSE) /\ Encode(a, Flag(FALSE), d) = OffText(a)
          /\ Kernel(a, k, OffText(a), t) = {OffFile(a)}
      BY <1>2, <2>1, <2>5, SwitchRow
    <3> QED BY <2>2, <2>5, <3>1
  <2> QED BY <2>3, <2>4, <2>5
<1>3. CASE a \in {"runtime_pm", "st_power", "pcie_power", "usb_power"}
  <2>1. t \in {Word("on"), Word("auto")} /\ Decode(a, t) = t /\ Encode(a, t, d) = OnOrAuto(t)
        /\ Kernel(a, k, t, t) = {t}
    BY <1>3, OnOrAutoRow
  <2>2. OnOrAuto(t) = t /\ t # Refused
    BY <2>1 DEF OnOrAuto, OneOf, Word, Refused
  <2> QED BY <2>1, <2>2
<1>4. CASE a \in {"irq_affinity", "policy"}
  <2>0. t \in Contents(a, k)
    BY <1>4 DEF Held, Counted, Long, Battery
  <2>1. t \in Contents(a, k) /\ t # Refused
    <3>1. Refused \notin Contents(a, k)
      BY <1>4 DEF Contents, Lists, Word, Refused
    <3> QED BY <2>0, <3>1
  <2>2. Decode(a, t) = t
    BY <1>4, VerbatimRow
  <2>3. Encode(a, t, d) = t
    BY <1>4, VerbatimRow
  <2>4. Kernel(a, k, t, t) = {t}
    BY <1>4, <2>1, VerbatimRow
  <2> QED BY <2>1, <2>2, <2>3, <2>4
<1>5. CASE a \in {"mem_sleep", "scheduler"}
  <2>0. Held(a, k, t) <=> \E x \in Lists[a] : t = Marked(x)
    BY <1>5 DEF Held, Contents, Lists, Counted, Long, Battery
  <2>1. PICK w \in Lists[a] : t = Marked(w)
    BY <2>0
  <2>2. Decode(a, t) = Word(w)
    BY <1>5, <2>1, ListRow
  <2>3. Encode(a, Word(w), d) = Word(w)
    BY <1>5, <2>1, ListRow
  <2>4. Kernel(a, k, Word(w), t) = {Marked(w)} /\ Word(w) # Refused
    <3>1. Kernel(a, k, Word(w), t) = IF Word(w)[2] \in Lists[a] THEN {Marked(Word(w)[2])} ELSE {}
      BY <1>5 DEF Kernel, Lists, Battery, WriteOnly, Rounded
    <3>2. Word(w)[2] = w /\ Word(w) # Refused
      BY DEF Word, Refused
    <3> QED BY <2>1, <3>1, <3>2
  <2> QED BY <2>1, <2>2, <2>3, <2>4
<1>6. CASE a = "queue_depth"
  <2>1. IsNum(t, 1..IntMax)
    BY <1>6, QueueDepthRow
  <2>2. IsNum(t, Int) /\ IsNum(t, 0..IntMax) /\ t # Refused
    BY <2>1, IntRange DEF IsNum, Num, Refused
  <2>3. Within(t, 1, IntMax) = t /\ Within(t, 0, IntMax) = t /\ read_i64(t) = t
    BY <2>1, <2>2, IntRange, WithinPasses, ReadTakes
  <2>4. Decode(a, t) = t
    BY <1>6, <2>3, QueueDepthRow
  <2>5. Encode(a, t, d) = t
    BY <1>6, <2>3, QueueDepthRow
  <2>6. Kernel(a, k, t, t) = {t}
    BY <1>6, QueueDepthRow
  <2> QED BY <2>2, <2>4, <2>5, <2>6
<1>7. CASE a = "autosuspend"
  <2>1. IntNum(t)
    BY <1>7, AutosuspendRow
  <2>2. Decode(a, t) = t /\ Encode(a, t, d) = t /\ t # Refused
    BY <1>7, <2>1, AutosuspendRow, NumRanges, CastTakes, ReadTakes
  <2> QED BY <1>7, <2>2, AutosuspendRow
<1>8. CASE a = "cooling"
  <2>0. MaxState(k) \in Nat /\ MaxState(k) <= IntMax
    BY IntRange DEF MaxState
  <2>1. IsNum(t, 0..MaxState(k))
    BY <1>8, CoolingRow
  <2>2. IntNum(t)
    BY <2>0, <2>1, IntRange DEF IntNum, IsNum
  <2>3. Decode(a, t) = t /\ t # Refused
    <3>1. Cast(t) = t /\ read_i64(t) = t /\ t # Refused
      BY <2>2, CastTakes, ReadTakes
    <3>2. Decode(a, t) = Cast(read_i64(t))
      BY <1>8, CoolingRow
    <3> QED BY <3>1, <3>2
  <2>4. Encode(a, t, d) = t
    <3>1. Encode(a, t, d) = Within(t, 0, MaxState(k))
      BY <1>0, <1>8, CoolingRow
    <3> QED BY <2>0, <2>1, <2>2, <3>1, NumRanges, WithinPasses
  <2>5. t \in Kernel(a, k, t, t)
    BY <1>8, <2>1, CoolingRow DEF IsNum
  <2> QED BY <2>3, <2>4, <2>5
<1>9. CASE a = "gpu_fan_pwm"
  <2>1. k = "hwmon"
    BY <1>9, Settable
  <2>2. IsNum(t, 0..255)
    BY <1>9, <2>1, GpuFanRow
  <2>3. t[1] = "num" /\ t # Refused
    BY <2>2 DEF IsNum, Num, Refused
  <2>4. Decode(a, t) = t
    <3>1. IntNum(t)
      BY <2>2, IntRange DEF IsNum, IntNum
    <3>2. Cast(t) = t /\ read_i64(t) = t
      BY <3>1, CastTakes, ReadTakes
    <3>3. Decode(a, t) = Cast(read_i64(t))
      BY <1>9, <2>3, GpuFanRow
    <3> QED BY <3>2, <3>3
  <2>5. t \in Kernel(a, k, Encode(a, t, d), t)
    BY <1>9, <2>1, GpuFanRow
  <2>6. Encode(a, t, d) = Within(t, 0, 255)
    BY <1>9, GpuFanRow
  <2>7. Encode(a, t, d) # Refused
    BY <2>2, <2>3, <2>6 DEF Within, IsNum
  <2> QED BY <2>3, <2>4, <2>5, <2>7
<1>10. CASE a = "governor"
  <2>1. t \in Available(k)
    BY <1>10, GovernorRow
  <2>2. Folded(t) = t /\ t # Refused
    BY <2>1 DEF Available, Folded, Word, Refused
  <2>3. Decode(a, t) = t /\ Encode(a, t, d) = t
    BY <1>0, <1>10, <2>1, <2>2, GovernorRow
  <2> QED BY <1>10, <2>1, <2>2, <2>3, GovernorRow
<1>11. CASE a = "profile"
  <2>1. PICK w \in {"BOOTUP", "VIDEO"} : t = Marked(w)
    BY <1>11, ProfileRow
  <2>2. Decode(a, t) = Word(w) /\ Word(w) # Refused /\ Word(w)[2] = w
    <3>1. Decode(a, t) = Active(t)
      BY <1>11, ProfileRow
    <3> QED BY <2>1, <3>1 DEF Active, Marked, Word, Refused
  <2>3. Encode(a, Word(w), d) = EnumOf(w, Profiles)
    BY <1>0, <1>11, <2>2, Settable, ProfileRow
  <2>4. Profiles[EnumOf(w, Profiles)[2]] = w /\ EnumOf(w, Profiles) # Refused
    BY ProfileNames DEF Num, Refused
  <2> QED BY <1>11, <2>1, <2>2, <2>3, <2>4, ProfileRow
<1>12. CASE a = "thp"
  <2>1. PICK i \in {1, 2, 3}, w \in {"always", "madvise", "never"} :
          t = Marked(w) /\ EnumOf(w, ThpName) = Num(i) /\ NameOf(Num(i), ThpName) = Word(w)
    BY <1>12, ThpRow, ThpNames
  <2>2. Decode(a, t) = Num(i) /\ Num(i) # Refused
    BY <1>12, <2>1, ThpRow DEF Marked, Num, Refused
  <2>3. Encode(a, Num(i), d) = Word(w)
    BY <1>12, <2>1, ThpRow
  <2>4. Kernel(a, k, Word(w), t) = {Marked(w)} /\ Word(w) # Refused
    BY <1>12, ThpRow DEF Word, Refused
  <2> QED BY <2>1, <2>2, <2>3, <2>4
<1>13. CASE a = "cache_type"
  <2>0. t \in {Word("write_back"), Word("write_through"), Word("none")}
    BY <1>13, CacheTypeRow
  <2>1. PICK i \in {1, 2, 3}, w \in {"write_back", "write_through", "none"} :
          t = Word(w) /\ EnumOf(w, CacheName) = Num(i) /\ NameOf(Num(i), CacheName) = Word(w)
    BY <2>0, CacheNames
  <2>2. Decode(a, t) = Num(i) /\ Num(i) # Refused /\ Num(i) # Num(4)
    <3>1. Decode(a, t) = EnumOf(t[2], CacheName)
      BY <1>13, CacheTypeRow
    <3>2. t[2] = w /\ Num(i) # Refused /\ Num(i) # Num(4)
      BY <2>1 DEF Word, Num, Refused
    <3> QED BY <2>1, <3>1, <3>2
  <2>3. Encode(a, Num(i), d) = t
    BY <1>13, <2>1, <2>2, CacheTypeRow
  <2>4. Kernel(a, k, t, t) = {t} /\ t # Refused
    BY <1>13, <2>1, Settable, CacheTypeRow DEF Word, Refused
  <2> QED BY <2>2, <2>3, <2>4
<1>14. CASE a = "power_limit"
  <2>1. IsNum(t, 0..255)
    BY <1>14, PowerLimitRow
  <2>2. IntNum(t) /\ IsNum(t, Int) /\ IsNum(t, 0..IntMax) /\ t # Refused /\ ~(t[2] > 255)
    BY <2>1, IntRange DEF IntNum, IsNum, Num, Refused
  <2>3. Decode(a, t) = t
    BY <1>14, <2>2, PowerLimitRow, CastTakes
  <2>4. Encode(a, t, d) = t
    <3>1. Encode(a, t, d) = Within(t, 0, IntMax)
      BY <1>14, PowerLimitRow
    <3> QED BY <2>2, <3>1, IntRange, WithinPasses
  <2>5. Kernel(a, k, t, t) = {t}
    BY <1>14, <2>2, PowerLimitRow
  <2> QED BY <2>2, <2>3, <2>4, <2>5
<1> QED BY <1>1, <1>2, <1>3, <1>4, <1>5, <1>6, <1>7, <1>8, <1>9, <1>10, <1>11, <1>12, <1>13, <1>14, EveryShape

-----------------------------------------------------------------------------
(* What a set that reports success owes to the user who typed s. *)
AsTyped(a, s, v) ==
  /\ (s[1] = "num" /\ v[1] = "num") =>
       \/ v = s
       \/ a \in CastValue /\ s[2] \notin (-IntMax - 1)..IntMax
       \/ a \in Unbounded /\ s[2] > LongMax
  /\ s \in {Word("on"), Word("enabled"), Word("disable")} /\ v[1] = "flag" => v = Flag(TRUE)
  /\ s \in {Word("off"), Word("enable")} => v = Flag(FALSE)

TypedNumbers == {Num(n) : n \in Numbers} \cup {Word("x")}

(* A number that was checked before the cast is passed on as it was typed;  *)
(* strtol's result and an unchecked cast differ where the number does not   *)
(* fit.                                                                     *)
LEMMA CheckedNumber ==
  ASSUME NEW s \in TypedNumbers, NEW lo \in (-IntMax - 1)..IntMax, NEW hi \in (-IntMax - 1)..IntMax
  PROVE  /\ Cast(Within(strtol(s), lo, hi)) # Refused => Cast(Within(strtol(s), lo, hi)) = s /\ IntNum(s)
         /\ Cast(Within(cli_parse_int(s), lo, hi)) # Refused =>
              Cast(Within(cli_parse_int(s), lo, hi)) = s /\ IntNum(s)
<1>1. CASE s = Word("x")
  BY <1>1 DEF Word, Refused, Cast, Within, strtol, cli_parse_int
<1>2. ASSUME NEW n \in Numbers, s = Num(n)
      PROVE  /\ Within(strtol(s), lo, hi) = Refused \/ (Within(strtol(s), lo, hi) = s /\ IntNum(s))
             /\ Within(cli_parse_int(s), lo, hi) = Refused \/ (Within(cli_parse_int(s), lo, hi) = s /\ IntNum(s))
  <2>1. n \in Int /\ s[1] = "num" /\ s[2] = n
    BY <1>2, AttributesAssumption DEF Num
  <2>2. strtol(s) = Num(Saturated(n)) /\ (cli_parse_int(s) = s \/ cli_parse_int(s) = Refused)
    BY <2>1 DEF strtol, cli_parse_int
  <2>3. Within(strtol(s), lo, hi) = Refused \/ (Within(strtol(s), lo, hi) = s /\ IntNum(s))
    <3>1. Saturated(n) = n \/ ~(Saturated(n) >= lo /\ Saturated(n) <= hi)
      BY <2>1, IntRange DEF Saturated
    <3>2. Within(strtol(s), lo, hi) = IF Saturated(n) >= lo /\ Saturated(n) <= hi THEN Num(Saturated(n)) ELSE Refused
      BY <2>2 DEF Within, Num
    <3>3. n >= lo /\ n <= hi => IntNum(s)
      BY <1>2, <2>1, IntRange DEF IntNum, IsNum, Num
    <3> QED BY <1>2, <3>1, <3>2, <3>3
  <2>4. Within(cli_parse_int(s), lo, hi) = Refused \/ (Within(cli_parse_int(s), lo, hi) = s /\ IntNum(s))
    BY <1>2, <2>1, <2>2, IntRange DEF Within, Num, Refused, IntNum, IsNum
  <2> QED BY <2>3, <2>4
<1>3. Cast(Refused) = Refused /\ (IntNum(s) => Cast(s) = s)
  BY CastTakes DEF Cast
<1> QED BY <1>1, <1>2, <1>3 DEF TypedNumbers

(* A saturated or an unchecked number has the type, and is the one typed if *)
(* that fits.                                                               *)
LEMMA UncheckedNumber ==
  ASSUME NEW s \in TypedNumbers
  PROVE  /\ Within(strtol(s), 0, LongMax) # Refused =>
              /\ IsNum(Within(strtol(s), 0, LongMax), 0..LongMax)
              /\ Within(strtol(s), 0, LongMax) = s \/ s[2] > LongMax
         /\ Cast(cli_parse_int(s)) # Refused =>
              /\ IntNum(Cast(cli_parse_int(s)))
              /\ Cast(cli_parse_int(s)) = s \/ s[2] \notin (-IntMax - 1)..IntMax
<1>1. CASE s = Word("x")
  BY <1>1 DEF Word, Refused, Cast, Within, strtol, cli_parse_int
<1>2. ASSUME NEW n \in Numbers, s = Num(n)
      PROVE  /\ Within(strtol(s), 0, LongMax) # Refused =>
                  /\ IsNum(Within(strtol(s), 0, LongMax), 0..LongMax)
                  /\ Within(strtol(s), 0, LongMax) = s \/ s[2] > LongMax
             /\ Cast(cli_parse_int(s)) # Refused =>
                  /\ IntNum(Cast(cli_parse_int(s)))
                  /\ Cast(cli_parse_int(s)) = s \/ s[2] \notin (-IntMax - 1)..IntMax
  <2>1. n \in Int /\ s[1] = "num" /\ s[2] = n
    BY <1>2, AttributesAssumption DEF Num
  <2>2. strtol(s) = Num(Saturated(n)) /\ (cli_parse_int(s) = s \/ cli_parse_int(s) = Refused)
    BY <2>1 DEF strtol, cli_parse_int
  <2>3. Within(strtol(s), 0, LongMax) # Refused =>
           /\ IsNum(Within(strtol(s), 0, LongMax), 0..LongMax)
           /\ Within(strtol(s), 0, LongMax) = s \/ s[2] > LongMax
    BY <1>2, <2>1, <2>2, IntRange DEF Within, Num, Refused, Saturated, IsNum
  <2>4. Cast(s) = Num(Wrapped(n)) /\ Cast(Refused) = Refused
    BY <1>2, <2>1 DEF Cast, Num, Refused
  <2>5. IntNum(Cast(s))
    BY <2>1, <2>4, WrappedType DEF IntNum, IsNum, Num
  <2>6. Cast(s) = s \/ n \notin (-IntMax - 1)..IntMax
    BY <1>2, <2>4, WrappedFits
  <2> QED BY <2>1, <2>2, <2>3, <2>4, <2>5, <2>6
<1> QED BY <1>1, <1>2 DEF TypedNumbers

(* A switch is no number and no word. *)
LEMMA SwitchForm == Flag(TRUE)[1] = "flag" /\ Flag(FALSE)[1] = "flag"
BY DEF Flag

(* An argument that is the typed text is what was typed. *)
LEMMA PassedOn ==
  ASSUME NEW a, NEW s, s \notin {Word("off"), Word("enable")}
  PROVE  AsTyped(a, s, s)
<1>1. s \in {Word("on"), Word("enabled"), Word("disable")} => s[1] # "flag"
  BY DEF Word
<1> QED BY <1>1 DEF AsTyped

(* A number that was typed, up to the exceptions of TypedIsSet. *)
LEMMA NumberTyped ==
  ASSUME NEW a, NEW s \in TypedNumbers, NEW v, IsNum(v, Int),
         v = s \/ (a \in CastValue /\ s[2] \notin (-IntMax - 1)..IntMax) \/ (a \in Unbounded /\ s[2] > LongMax)
  PROVE  AsTyped(a, s, v)
<1>1. s \notin {Word("on"), Word("enabled"), Word("disable"), Word("off"), Word("enable")}
  BY DEF TypedNumbers, Word, Num
<1> QED BY <1>1 DEF AsTyped

(* The numbers. *)
LEMMA NumbersGiven ==
  ASSUME NEW a \in {"nr_hugepages", "swappiness", "overcommit", "vfs_cache_pressure", "cooling", "fan_pwm",
                    "gpu_fan_pwm", "read_ahead", "autosuspend", "mtu"} \cup Battery,
         NEW s \in Typed(a), Parse(a, s) # Refused
  PROVE  Given(a, Parse(a, s)) /\ AsTyped(a, s, Parse(a, s))
<1>1. s \in TypedNumbers
  BY DEF Typed, TypedNumbers, Lists, Battery
<1>2. 0 \in (-IntMax - 1)..IntMax /\ 2 \in (-IntMax - 1)..IntMax /\ 68 \in (-IntMax - 1)..IntMax
      /\ 100 \in (-IntMax - 1)..IntMax /\ 200 \in (-IntMax - 1)..IntMax
      /\ 255 \in (-IntMax - 1)..IntMax /\ 65536 \in (-IntMax - 1)..IntMax
  BY IntRange
<1>3. CASE a = "nr_hugepages"
  <2>1. Parse(a, s) = Within(strtol(s), 0, LongMax)
    BY <1>3 DEF Parse, Battery, mem_set_hugepages
  <2>2. IsNum(Parse(a, s), 0..LongMax) /\ (Parse(a, s) = s \/ s[2] > LongMax)
    BY <1>1, <2>1, UncheckedNumber
  <2>3. Given(a, Parse(a, s)) /\ a \in Unbounded
    BY <1>3, <2>2 DEF Given, Battery, Unbounded
  <2> QED BY <1>1, <2>2, <2>3, NumRanges, NumberTyped
<1>4. CASE a = "read_ahead"
  <2>1. Parse(a, s) = Within(strtol(s), 0, LongMax)
    BY <1>4 DEF Parse, Battery, st_set_read_ahead
  <2>2. IsNum(Parse(a, s), 0..LongMax) /\ (Parse(a, s) = s \/ s[2] > LongMax)
    BY <1>1, <2>1, UncheckedNumber
  <2>3. Given(a, Parse(a, s)) /\ a \in Unbounded
    BY <1>4, <2>2 DEF Given, Battery, Unbounded
  <2> QED BY <1>1, <2>2, <2>3, NumRanges, NumberTyped
<1>5. CASE a = "swappiness"
  <2>1. Parse(a, s) = Cast(Within(strtol(s), 0, 200))
    BY <1>5 DEF Parse, Battery, mem_set_swappiness
  <2>2. Parse(a, s) = s /\ IntNum(s)
    BY <1>1, <1>2, <2>1, CheckedNumber
  <2>3. Given(a, Parse(a, s))
    BY <1>5, <2>2 DEF Given, Battery
  <2> QED BY <1>1, <2>2, <2>3, NumRanges, NumberTyped
<1>6. CASE a = "overcommit"
  <2>1. Parse(a, s) = Cast(Within(strtol(s), 0, 2))
    BY <1>6 DEF Parse, Battery, mem_set_overcommit
  <2>2. Parse(a, s) = s /\ IntNum(s)
    BY <1>1, <1>2, <2>1, CheckedNumber
  <2>3. Given(a, Parse(a, s))
    BY <1>6, <2>2 DEF Given, Battery
  <2> QED BY <1>1, <2>2, <2>3, NumRanges, NumberTyped
<1>7. CASE a = "mtu"
  <2>1. Parse(a, s) = Cast(Within(strtol(s), 68, 65536))
    BY <1>7 DEF Parse, Battery, net_set_mtu
  <2>2. Parse(a, s) = s /\ IntNum(s)
    BY <1>1, <1>2, <2>1, CheckedNumber
  <2>3. Given(a, Parse(a, s))
    BY <1>7, <2>2 DEF Given, Battery
  <2> QED BY <1>1, <2>2, <2>3, NumRanges, NumberTyped
<1>8. CASE a \in Battery
  <2>1. Parse(a, s) = Cast(Within(cli_parse_int(s), 0, 100))
    BY <1>8 DEF Parse, Battery, power_set_charge
  <2>2. Parse(a, s) = s /\ IntNum(s)
    BY <1>1, <1>2, <2>1, CheckedNumber
  <2>3. Given(a, Parse(a, s))
    BY <1>8, <2>2 DEF Given, Battery
  <2> QED BY <1>1, <2>2, <2>3, NumRanges, NumberTyped
<1>9. CASE a = "fan_pwm"
  <2>1. Parse(a, s) = Cast(Within(cli_parse_int(s), 0, 255))
    BY <1>9 DEF Parse, Battery, thermal_hwmon_fan
  <2>2. Parse(a, s) = s /\ IntNum(s)
    BY <1>1, <1>2, <2>1, CheckedNumber
  <2>3. Given(a, Parse(a, s))
    BY <1>9, <2>2 DEF Given, Battery
  <2> QED BY <1>1, <2>2, <2>3, NumRanges, NumberTyped
<1>10. CASE a = "gpu_fan_pwm"
  <2>1. Parse(a, s) = Cast(Within(cli_parse_int(s), 0, 255))
    BY <1>10 DEF Parse, Battery, set_fan
  <2>2. Parse(a, s) = s /\ IntNum(s)
    BY <1>1, <1>2, <2>1, CheckedNumber
  <2>3. Given(a, Parse(a, s))
    BY <1>10, <2>2 DEF Given, Battery
  <2> QED BY <1>1, <2>2, <2>3, NumRanges, NumberTyped
<1>11. CASE a = "vfs_cache_pressure"
  <2>1. Parse(a, s) = Cast(cli_parse_int(s))
    BY <1>11 DEF Parse, Battery, load_vfs_cache_pressure
  <2>2. IntNum(Parse(a, s)) /\ (Parse(a, s) = s \/ s[2] \notin (-IntMax - 1)..IntMax)
    BY <1>1, <2>1, UncheckedNumber
  <2>3. Given(a, Parse(a, s)) /\ a \in CastValue
    BY <1>11, <2>2 DEF Given, Battery, CastValue
  <2> QED BY <1>1, <2>2, <2>3, NumRanges, NumberTyped
<1>12. CASE a = "cooling"
  <2>1. Parse(a, s) = Cast(cli_parse_int(s))
    BY <1>12 DEF Parse, Battery, set_cooling
  <2>2. IntNum(Parse(a, s)) /\ (Parse(a, s) = s \/ s[2] \notin (-IntMax - 1)..IntMax)
    BY <1>1, <2>1, UncheckedNumber
  <2>3. Given(a, Parse(a, s)) /\ a \in CastValue
    BY <1>12, <2>2 DEF Given, Battery, CastValue
  <2> QED BY <1>1, <2>2, <2>3, NumRanges, NumberTyped
<1>13. CASE a = "autosuspend"
  <2>1. Parse(a, s) = Cast(cli_parse_int(s))
    BY <1>13 DEF Parse, Battery, usb_set_autosuspend
  <2>2. IntNum(Parse(a, s)) /\ (Parse(a, s) = s \/ s[2] \notin (-IntMax - 1)..IntMax)
    BY <1>1, <2>1, UncheckedNumber
  <2>3. Given(a, Parse(a, s)) /\ a \in CastValue
    BY <1>13, <2>2 DEF Given, Battery, CastValue
  <2> QED BY <1>1, <2>2, <2>3, NumRanges, NumberTyped
<1> QED BY <1>3, <1>4, <1>5, <1>6, <1>7, <1>8, <1>9, <1>10, <1>11, <1>12, <1>13

(* The numbers a library caller gives, and the words and switches that are  *)
(* passed on.                                                               *)
LEMMA OthersGiven ==
  ASSUME NEW a, a \notin ReadOnly, NEW s \in Typed(a), Parse(a, s) # Refused,
         a \in {"hugepages_size", "queue_depth", "rps_min", "rps_max", "rps_boost", "power_limit",
                "fan_auto", "d3cold", "rc6", "aspm", "mem_sleep", "scheduler", "irq_affinity", "governor",
                "policy", "profile", "runtime_pm", "st_power", "pcie_power", "usb_power"}
  PROVE  Given(a, Parse(a, s)) /\ AsTyped(a, s, Parse(a, s))
<1>0. Parse(a, s) = s
  BY DEF Parse, Battery
<1>1. CASE a = "hugepages_size"
  <2>1. PICK m \in Numbers : s = Num(m)
    BY <1>1 DEF Typed, Lists, Battery
  <2>2. IsNum(s, Int) /\ s \notin {Word("off"), Word("enable")}
    BY <2>1, AttributesAssumption DEF IsNum, Num, Word
  <2>3. Given(a, s)
    BY <1>1, <2>2 DEF Given, Battery
  <2> QED BY <1>0, <2>2, <2>3, PassedOn
<1>2. CASE a \in {"queue_depth", "rps_min", "rps_max", "rps_boost", "power_limit"}
  <2>1. PICK m \in Numbers : Wrapped(m) = m /\ s = Num(m)
    BY <1>2 DEF Typed, Lists, Battery
  <2>2. m \in (-IntMax - 1)..IntMax
    BY <2>1, WrappedType, AttributesAssumption
  <2>3. IntNum(s) /\ s \notin {Word("off"), Word("enable")}
    BY <2>1, <2>2 DEF IntNum, IsNum, Num, Word
  <2>4. Given(a, s)
    BY <1>2, <2>3 DEF Given, Battery
  <2> QED BY <1>0, <2>3, <2>4, PassedOn
<1>3. CASE a \in {"fan_auto", "d3cold", "rc6"}
  <2>1. s \in Switch
    BY <1>3 DEF Typed, Lists, Battery, Switch
  <2>2. s \notin {Word("off"), Word("enable")}
    <3>1. s[1] = "flag"
      BY <2>1, SwitchForm DEF Switch
    <3> QED BY <3>1 DEF Word
  <2>3. Given(a, s)
    BY <1>3, <2>1 DEF Given, Battery
  <2> QED BY <1>0, <2>2, <2>3, PassedOn
<1>4. CASE a \in {"aspm", "mem_sleep", "scheduler"}
  <2>1. s \in {Word(w) : w \in Lists[a]} \cup {Word("x"), Word("two_words")}
    BY <1>4 DEF Typed, Battery, Lists
  <2>2. PICK w \in Lists[a] \cup {"x", "two_words"} : s = Word(w)
    BY <2>1
  <2>3. w \notin {"off", "enable"}
    BY <1>4, <2>2 DEF Lists
  <2>4. s = Word(s[2]) /\ s \notin {Word("off"), Word("enable")}
    BY <2>2, <2>3 DEF Word
  <2>5. Given(a, s)
    BY <1>4, <2>4 DEF Given, Battery
  <2> QED BY <1>0, <2>4, <2>5, PassedOn
<1>5. CASE a \in {"irq_affinity", "governor", "policy", "profile", "runtime_pm", "st_power", "pcie_power",
                  "usb_power"}
  <2>1. \E w \in {"f", "3", "x", "performance", "powersave", "Powersave", "step_wise", "user_space",
                  "BOOTUP", "VIDEO", "on", "auto"} : s = Word(w)
    BY <1>5 DEF Typed, Battery, Lists
  <2>2. s = Word(s[2]) /\ s \notin {Word("off"), Word("enable")}
    BY <2>1 DEF Word
  <2>3. Given(a, s)
    BY <1>5, <2>2 DEF Given, Battery
  <2> QED BY <1>0, <2>2, <2>3, PassedOn
<1> QED BY <1>1, <1>2, <1>3, <1>4, <1>5

(* A switch keeps its position if no word stands for both. *)
LEMMA SwitchTyped ==
  ASSUME NEW a, NEW s, NEW yes, NEW no, BoolOf(s, yes, no) # Refused,
         Word("off") \notin {Word(w) : w \in yes} , Word("enable") \notin {Word(w) : w \in yes},
         {"on", "enabled", "disable"} \cap no = {}
  PROVE  BoolOf(s, yes, no) \in Switch /\ AsTyped(a, s, BoolOf(s, yes, no))
<1>1. \/ OneOf(s, yes) # Refused /\ BoolOf(s, yes, no) = Flag(TRUE)
      \/ OneOf(s, no) # Refused /\ BoolOf(s, yes, no) = Flag(FALSE)
  BY DEF BoolOf
<1>2. CASE OneOf(s, yes) # Refused /\ BoolOf(s, yes, no) = Flag(TRUE)
  <2>1. s[1] = "word" /\ s[2] \in yes
    BY <1>2 DEF OneOf
  <2>2. s \notin {Word("off"), Word("enable")}
    BY <2>1 DEF Word
  <2> QED BY <1>2, <2>1, <2>2 DEF AsTyped, Switch
<1>3. CASE OneOf(s, no) # Refused /\ BoolOf(s, yes, no) = Flag(FALSE)
  <2>1. s[1] = "word" /\ s[2] \in no
    BY <1>3 DEF OneOf
  <2>2. s \notin {Word("on"), Word("enabled"), Word("disable")}
    BY <2>1 DEF Word
  <2> QED BY <1>3, <2>1, <2>2 DEF AsTyped, Switch
<1> QED BY <1>1, <1>2, <1>3

(* The switches the command line parses. *)
LEMMA SwitchesGiven ==
  ASSUME NEW a \in {"smt", "online", "cstate", "authorized", "usb_wakeup", "zone_mode", "offload",
                    "gpu_fan_auto"},
         NEW s \in Typed(a), Parse(a, s) # Refused
  PROVE  Given(a, Parse(a, s)) /\ AsTyped(a, s, Parse(a, s))
<1>0. SUFFICES Parse(a, s) \in Switch /\ AsTyped(a, s, Parse(a, s))
  BY DEF Given, Battery
<1>1. CASE a \in {"smt", "online", "offload"}
  <2>1. Parse(a, s) = BoolOf(s, {"on"}, {"off"})
    BY <1>1 DEF Parse, Battery, cpu_set_smt, cpu_set_online, parse_on_off
  <2>2. Word("off") \notin {Word(w) : w \in {"on"}} /\ Word("enable") \notin {Word(w) : w \in {"on"}}
    BY DEF Word
  <2> QED BY <2>1, <2>2, SwitchTyped
<1>2. CASE a = "cstate"
  <2>1. Parse(a, s) = BoolOf(s, {"disable"}, {"enable"})
    BY <1>2 DEF Parse, Battery, cpu_set_cstate
  <2>2. Word("off") \notin {Word(w) : w \in {"disable"}} /\ Word("enable") \notin {Word(w) : w \in {"disable"}}
    BY DEF Word
  <2> QED BY <2>1, <2>2, SwitchTyped
<1>3. CASE a \in {"authorized", "usb_wakeup", "zone_mode"}
  <2>1. Parse(a, s) = cli_parse_bool(s)
    BY <1>3 DEF Parse, Battery
  <2>2. s \in {Word("on"), Word("off"), Word("enabled"), Word("auto"), Num(1)}
    BY <1>3 DEF Typed, Lists, Battery
  <2>3. CASE s = Num(1)
    <3>1. cli_parse_bool(s) = Flag(s = Num(1))
      BY <2>3 DEF cli_parse_bool
    <3>2. cli_parse_bool(s) = Flag(TRUE)
      BY <2>3, <3>1, FlagOf
    <3>3. s \notin {Word("on"), Word("enabled"), Word("disable"), Word("off"), Word("enable")}
      BY <2>3 DEF Word, Num
    <3>4. cli_parse_bool(s)[1] # "num"
      BY <3>2, SwitchForm
    <3> QED BY <2>1, <3>2, <3>3, <3>4 DEF AsTyped, Switch
  <2>4. CASE s # Num(1)
    <3>1. s \notin {Num(0), Num(1)}
      BY <2>2, <2>4 DEF Num, Word
    <3>2. cli_parse_bool(s) = BoolOf(s, {"on", "enabled", "yes", "true"}, {"off", "disabled", "no", "false"})
      BY <3>1 DEF cli_parse_bool
    <3>3. /\ Word("off") \notin {Word(w) : w \in {"on", "enabled", "yes", "true"}}
          /\ Word("enable") \notin {Word(w) : w \in {"on", "enabled", "yes", "true"}}
      BY DEF Word
    <3> QED BY <2>1, <3>2, <3>3, SwitchTyped
  <2> QED BY <2>3, <2>4
<1>4. CASE a = "gpu_fan_auto"
  <2>1. Parse(a, s) = set_fan_auto(s)
    BY <1>4 DEF Parse, Battery
  <2>2. s = Word("auto") /\ Parse(a, s) = Flag(TRUE)
    BY <2>1 DEF set_fan_auto
  <2>3. s[1] # "num" /\ s \notin {Word("off"), Word("enable")}
    BY <2>2 DEF Word
  <2> QED BY <2>2, <2>3 DEF AsTyped, Switch
<1> QED BY <1>1, <1>2, <1>3, <1>4

(* The members of an enumeration, and what only a setter takes. *)
LEMMA NamesGiven ==
  ASSUME NEW a \in {"thp", "cache_type", "suspend", "usb_reset"}, NEW s \in Typed(a), Parse(a, s) # Refused
  PROVE  (a \notin WriteOnly => Given(a, Parse(a, s))) /\ AsTyped(a, s, Parse(a, s))
<1>1. \E w \in {"always", "madvise", "never", "x", "two_words", "write_back", "write_through", "none",
                "freeze", "mem", "disk"} : s = Word(w)
  <2>1. CASE a = "thp"
    <3>1. s \in {Word(w) : w \in {"always", "madvise", "never"}} \cup {Word("x"), Word("two_words")}
      BY <2>1 DEF Typed, Lists, Battery
    <3> QED BY <3>1
  <2>2. CASE a \in {"cache_type", "suspend", "usb_reset"}
    BY <2>2 DEF Typed, Lists, Battery
  <2> QED BY <2>1, <2>2
<1>2. s[1] = "word" /\ s \notin {Word("on"), Word("enabled"), Word("disable"), Word("off"), Word("enable")}
  BY <1>1 DEF Word
<1>3. AsTyped(a, s, Parse(a, s))
  BY <1>2 DEF AsTyped
<1>4. \A w : EnumOf(w, ThpName) \in {Num(1), Num(2), Num(3), Refused}
             /\ EnumOf(w, CacheName) \in {Num(1), Num(2), Num(3), Refused}
  <2>1. DOMAIN ThpName = 1..3 /\ DOMAIN CacheName = 1..3
    BY DEF ThpName, CacheName
  <2> QED BY <2>1 DEF EnumOf
<1>5. CASE a = "thp"
  <2>1. Parse(a, s) = EnumOf(s[2], ThpName)
    BY <1>2, <1>5 DEF Parse, Battery, mem_set_thp
  <2> QED BY <1>3, <1>4, <1>5, <2>1 DEF Given, Battery
<1>6. CASE a = "cache_type"
  <2>1. Parse(a, s) = EnumOf(s[2], CacheName)
    BY <1>2, <1>6 DEF Parse, Battery, cache_type_parse
  <2> QED BY <1>3, <1>4, <1>6, <2>1 DEF Given, Battery
<1> QED BY <1>3, <1>5, <1>6 DEF WriteOnly

(* Whatever may be typed, the setter gets an argument of its type, with the *)
(* number and the switch position that was typed.                           *)
LEMMA ArgIsGiven ==
  ASSUME NEW a \in Attr, a \notin ReadOnly, NEW s \in Typed(a), Parse(a, s) # Refused
  PROVE  (a \notin WriteOnly => Given(a, Parse(a, s))) /\ AsTyped(a, s, Parse(a, s))
<1>1. CASE a \in {"nr_hugepages", "swappiness", "overcommit", "vfs_cache_pressure", "cooling", "fan_pwm",
                  "gpu_fan_pwm", "read_ahead", "autosuspend", "mtu"} \cup Battery
  BY <1>1, NumbersGiven
<1>2. CASE a \in {"hugepages_size", "queue_depth", "rps_min", "rps_max", "rps_boost", "power_limit",
                "fan_auto", "d3cold", "rc6", "aspm", "mem_sleep", "scheduler", "irq_affinity", "governor",
                "policy", "profile", "runtime_pm", "st_power", "pcie_power", "usb_power"}
  BY <1>2, OthersGiven
<1>3. CASE a \in {"smt", "online", "cstate", "authorized", "usb_wakeup", "zone_mode", "offload", "gpu_fan_auto"}
  BY <1>3, SwitchesGiven
<1>4. CASE a \in {"thp", "cache_type", "suspend", "usb_reset"}
  BY <1>4, NamesGiven
<1> QED
  BY <1>1, <1>2, <1>3, <1>4 DEF Attr, Global, Indexed, Battery, Numbered, Hwmon, Named, ReadOnly
(* What a file has at first, or another program writes, is one of its       *)
(* texts.                                                                   *)
LEMMA ContentsHeld ==
  ASSUME NEW a \in Attr, NEW k, NEW t \in Contents(a, k)
  PROVE  Held(a, k, t)
<1>1. CASE a \in {"swappiness", "mtu"}
  <2>1. t = Num(100)
    BY <1>1 DEF Contents, Lists
  <2>2. Top(a) \in Nat /\ 100 <= Top(a)
    BY <1>1, IntRange DEF Top, Long, Battery
  <2>3. IsNum(t, 0..Top(a))
    BY <2>1, <2>2 DEF IsNum, Num
  <2> QED BY <1>1, <2>3 DEF Held, Counted
<1>2. CASE a \in Counted \ {"swappiness", "mtu"}
  <2>1. t \in {Num(0), Num(1)}
    BY <1>2 DEF Contents, Lists, Counted, Long, Battery
  <2>2. Top(a) \in Nat /\ 1 <= Top(a)
    BY <1>2, IntRange DEF Top, Long, Battery
  <2>3. IsNum(t, 0..Top(a))
    BY <2>1, <2>2 DEF IsNum, Num
  <2> QED BY <1>2, <2>3, CountedRow
<1>3. CASE a = "queue_depth"
  <2>1. t = Num(100)
    BY <1>3 DEF Contents, Lists
  <2>2. IsNum(t, 1..IntMax)
    BY <2>1, IntRange DEF IsNum, Num
  <2> QED BY <1>3, <2>2 DEF Held, Counted, Long, Battery
<1>4. CASE a \in {"autosuspend", "cooling"}
  <2>1. t \in {Num(0), Num(1)}
    BY <1>4 DEF Contents, Lists
  <2>2. IsNum(t, (-IntMax - 1)..IntMax) /\ IsNum(t, 0..MaxState(k))
    BY <2>1, IntRange DEF IsNum, Num, MaxState
  <2> QED BY <1>4, <2>2 DEF Held, Counted, Long, Battery
<1>5. CASE a = "gpu_fan_pwm"
  <2>1. CASE k = "hwmon"
    <3>1. t = Num(100)
      BY <1>5, <2>1 DEF Contents, Lists
    <3>2. IsNum(t, 0..255)
      BY <3>1 DEF IsNum, Num
    <3> QED BY <1>5, <2>1, <3>2 DEF Held, Counted, Long, Battery
  <2>2. CASE k # "hwmon"
    BY <1>5, <2>2 DEF Held, Counted, Long, Battery
  <2> QED BY <2>1, <2>2
<1>6. CASE a = "governor"
  <2>1. t = Word("performance")
    BY <1>6 DEF Contents, Lists
  <2> QED BY <1>6, <2>1 DEF Held, Counted, Long, Battery, Available
<1>7. CASE a = "power_limit"
  <2>1. t \in {Num(0), Num(1)}
    BY <1>7 DEF Contents, Lists
  <2>2. IsNum(t, 0..255)
    BY <2>1 DEF IsNum, Num
  <2> QED BY <1>7, <2>2, PowerLimitRow
<1>8. CASE a \notin Counted \cup {"queue_depth", "autosuspend", "cooling", "gpu_fan_pwm", "governor", "power_limit"}
  BY <1>8 DEF Held
<1> QED BY <1>1, <1>2, <1>3, <1>4, <1>5, <1>6, <1>7, <1>8

(* The readings of a card have their unit wherever they come from. *)
LEMMA Readings ==
  ASSUME NEW a, NEW k, NEW t, Held(a, k, t)
  PROVE  /\ a = "gpu_temp" => Decode(a, t) = Num(60000)
         /\ a = "gpu_power" => Decode(a, t) = Num(60000)
         /\ a = "gpu_freq" => Decode(a, t) = Num(300) \/ t = Num(60000)
         /\ a = "gpu_fan_pwm" => Decode(a, t)[2] \in 0..255
<1>1. CASE a \in {"gpu_temp", "gpu_power"}
  <2>1. t \in Contents(a, k)
    BY <1>1 DEF Held, Counted, Long, Battery
  <2>2. t = Num(60000) \/ t = <<IF a = "gpu_temp" THEN "celsius" ELSE "milliwatt", 60>>
    BY <1>1, <2>1 DEF Contents, Lists
  <2>3. Decode(a, t) = IF a = "gpu_temp" THEN zenctl_gpu_get_temp(t) ELSE zenctl_gpu_get_power(t)
    BY <1>1 DEF Decode
  <2>4. CASE t = Num(60000)
    BY <1>1, <2>3, <2>4 DEF zenctl_gpu_get_temp, zenctl_gpu_get_power, Num, read_i64
  <2>5. CASE t = <<IF a = "gpu_temp" THEN "celsius" ELSE "milliwatt", 60>>
    BY <1>1, <2>3, <2>5 DEF zenctl_gpu_get_temp, zenctl_gpu_get_power, nvml_get_temp, nvml_get_power, Num
  <2> QED BY <1>1, <2>2, <2>4, <2>5
<1>2. CASE a = "gpu_freq"
  <2>1. t \in Contents(a, k)
    BY <1>2 DEF Held, Counted, Long, Battery
  <2>2. t \in {Num(60000), Num(300000), <<"mhz", 300>>}
    BY <1>2, <2>1 DEF Contents, Lists
  <2>3. Decode(a, t) = zenctl_gpu_get_freq(t)
    BY <1>2 DEF Decode
  <2>4. CASE t = Num(300000)
    <3>1. t[1] = "num" /\ t[2] = 300000 /\ read_i64(t) # Refused
      BY <2>4 DEF Num, read_i64, Refused
    <3>2. 300000 > 100000 /\ 300000 \div 1000 = 300
      OBVIOUS
    <3> QED BY <1>2, <2>3, <3>1, <3>2 DEF zenctl_gpu_get_freq
  <2>5. CASE t = <<"mhz", 300>>
    BY <1>2, <2>3, <2>5 DEF zenctl_gpu_get_freq, nvml_get_clock
  <2> QED BY <1>2, <2>2, <2>4, <2>5
<1>3. CASE a = "gpu_fan_pwm"
  <2>1. Decode(a, t) = zenctl_gpu_get_fan_pwm(t)
    BY <1>3 DEF Decode
  <2>2. CASE k = "hwmon"
    <3>1. IsNum(t, 0..255)
      BY <1>3, <2>2 DEF Held, Counted, Long, Battery
    <3>2. IntNum(t) /\ t[1] = "num"
      BY <3>1, IntRange DEF IntNum, IsNum, Num
    <3>3. zenctl_gpu_get_fan_pwm(t) = t
      <4>1. Cast(t) = t /\ read_i64(t) = t
        BY <3>2, CastTakes, ReadTakes
      <4> QED BY <3>2, <4>1 DEF zenctl_gpu_get_fan_pwm
    <3> QED BY <1>3, <2>1, <3>1, <3>3 DEF IsNum
  <2>3. CASE k # "hwmon"
    <3>1. t \in {<<"percent", 40>>, <<"percent", 110>>}
      BY <1>3, <2>3 DEF Held, Contents, Lists, Counted, Long, Battery
    <3>2. zenctl_gpu_get_fan_pwm(t) \in {Num((40 * 255 + 50) \div 100), Num((100 * 255 + 50) \div 100)}
      BY <3>1 DEF zenctl_gpu_get_fan_pwm
    <3>3. (40 * 255 + 50) \div 100 \in 0..255 /\ (100 * 255 + 50) \div 100 \in 0..255
      OBVIOUS
    <3> QED BY <1>3, <2>1, <3>2, <3>3 DEF Num
  <2> QED BY <2>2, <2>3
<1> QED BY <1>1, <1>2, <1>3

(* The fall back of a disk knows the two modes with a cache. *)
LEMMA CacheFallBack ==
  ASSUME NEW v, Given("cache_type", v), NEW d, NEW t, t = Encode("cache_type", v, d)
  PROVE  /\ WriteCache(t) \in {Word("write_back"), Word("write_through")}
         /\ v # Num(3) => Decode("cache_type", WriteCache(t)) = v
<1>1. v \in {Num(1), Num(2), Num(3)} /\ v # Num(4)
  BY CacheTypeRow DEF Num
<1>2. t = NameOf(v, CacheName)
  BY <1>1, CacheTypeRow
<1>3. \/ v = Num(1) /\ t = Word("write_back")
      \/ v = Num(2) /\ t = Word("write_through")
      \/ v = Num(3) /\ t = Word("none")
  BY <1>1, <1>2, CacheNames
<1>4. /\ v = Num(1) => WriteCache(t) = Word("write_back")
      /\ v # Num(1) => WriteCache(t) = Word("write_through")
  BY <1>3 DEF WriteCache, Word, Num
<1>5. /\ Decode("cache_type", Word("write_back")) = Num(1)
      /\ Decode("cache_type", Word("write_through")) = Num(2)
  BY CacheNames DEF Decode, cache_str_to_type, Word
<1> QED BY <1>1, <1>4, <1>5

(* The text of a setter depends on the sort of the device alone. *)
LEMMA EncodeStable ==
  ASSUME UNCHANGED <<attr, kind, arg>>, attr # "suspend", NEW d
  PROVE  Encode(attr, arg, d)' = Encode(attr, arg, d)
BY DEF Encode

-----------------------------------------------------------------------------
(* The argument of a setter under way is of its type. *)
LEMMA ArgGiven ==
  ASSUME TypeOK, Progress, pc \in {"check", "write", "write2"}
  PROVE  attr \in Attr /\ attr \notin ReadOnly /\ (attr \notin WriteOnly => Given(attr, arg))
<1>1. attr \in Attr /\ attr \notin ReadOnly /\ typed \in Typed(attr) /\ arg = Parse(attr, typed) /\ arg # Refused
  BY DEF TypeOK, Progress
<1> QED BY <1>1, ArgIsGiven

(* The setters of a graphics card write to its hwmon directory alone. *)
LEMMA SetsHwmon ==
  ASSUME Progress, FoundOK, attr \in Hwmon, pc \in {"check", "write", "write2"}
  PROVE  /\ found[1] = "hwmon" /\ found[2] = target
         /\ Reached(found) # NoDev => At(target) # NoDev /\ kind[At(target)] = "hwmon"
                                      /\ Reached(found) = At(target)
<1>1. found # NotFound /\ found[1] \in {"none", "hwmon", "nvml"} /\ found[1] # "nvml"
      /\ (found[1] = "none" => found = NotFound) /\ (found[1] = "hwmon" => found[2] = target)
  BY DEF Progress, FoundOK
<1>2. found[1] = "hwmon" /\ found[2] = target
  BY <1>1
<1> QED BY <1>2 DEF Reached

(* What the kernel keeps of a write is one of the file's texts, and reads   *)
(* as the argument where the device rounds nothing.                         *)
LEMMA WriteHeld ==
  ASSUME TypeOK, Progress, FoundOK, TextOK, FilesOK, pc = "write",
         NEW t \in KernelTakes(Reached(found))
  PROVE  /\ Reached(found) \in Dev
         /\ Held(attr, kind[Reached(found)], t)
         /\ attr \notin WriteOnly /\ kind[Reached(found)] # "loose" /\ attr # "gpu_fan_pwm" =>
              Decode(attr, t) = Shown(attr, arg)
<1>1. PICK d : d = Reached(found)
  OBVIOUS
<1>2. d # NoDev /\ t \in Kernel(attr, kind[d], text, file[d])
  BY <1>1 DEF KernelTakes
<1>3. d \in Dev
  BY <1>1, <1>2, ReachedType
<1>4. Held(attr, kind[d], file[d])
  BY <1>3 DEF FilesOK
<1>5. CASE attr \in WriteOnly
  <2>1. Kernel(attr, kind[d], text, file[d]) = {file[d]}
    BY <1>5 DEF Kernel, Lists, WriteOnly, Rounded, Battery
  <2> QED BY <1>1, <1>2, <1>3, <1>4, <1>5, <2>1
<1>6. CASE attr \notin WriteOnly
  <2>1. PICK e : text = Encode(attr, arg, e) /\ text # Refused
    BY <1>6 DEF TextOK
  <2>2. attr \in Attr /\ attr \notin ReadOnly \cup WriteOnly /\ Given(attr, arg)
    BY <1>6, ArgGiven
  <2>3. attr = "gpu_fan_pwm" => kind[d] = "hwmon"
    BY <1>1, <1>2, SetsHwmon DEF Hwmon
  <2>4. Held(attr, kind[d], t) /\ (kind[d] # "loose" /\ attr # "gpu_fan_pwm" => Decode(attr, t) = Shown(attr, arg))
    BY <1>2, <1>4, <2>1, <2>2, <2>3, WriteThenRead
  <2> QED BY <1>1, <1>3, <2>4
<1> QED BY <1>5, <1>6

(* Every step keeps the text to write as the setter made it. *)
LEMMA TextStep ==
  ASSUME TypeOK, Progress, FoundOK, TextOK, [Next]_vars
  PROVE  TextOK'
<1> USE DEF machine, devices, args
<1>1. CASE Check
  <2> SUFFICES ASSUME attr \notin WriteOnly PROVE TextOK'
    BY <1>1 DEF Check, TextOK
  <2>1. PICK d \in Dev \cup {NoDev} : d = Reached(found)
    BY ReachedType
  <2>2. text' = Encode(attr, arg, d) /\ text' # Refused /\ UNCHANGED <<attr, kind, arg>>
    BY <1>1, <2>1 DEF Check
  <2>3. Encode(attr, arg, d)' = Encode(attr, arg, d)
    BY <2>2, EncodeStable DEF WriteOnly
  <2> QED BY <2>2, <2>3 DEF TextOK
<1>2. ASSUME UNCHANGED <<attr, kind, arg, text>>, pc' \in {"write", "write2"} => pc \in {"write", "write2"}
      PROVE  TextOK'
  <2> SUFFICES ASSUME pc' \in {"write", "write2"}, attr \notin WriteOnly PROVE TextOK'
    BY <1>2 DEF TextOK
  <2>1. PICK d \in Dev \cup {NoDev} : text = Encode(attr, arg, d)
    BY <1>2 DEF TextOK
  <2>2. Encode(attr, arg, d)' = Encode(attr, arg, d)
    BY <1>2, EncodeStable DEF WriteOnly
  <2> QED BY <1>2, <2>1, <2>2 DEF TextOK
<1>3. CASE pc' \notin {"write", "write2"}
  BY <1>3 DEF TextOK
<1>4. ASSUME NEW s \in Typed(attr), NEW n \in Asked(attr), Start(s, n) PROVE TextOK'
  BY <1>3, <1>4 DEF Start, FirstStep
<1>5. CASE Open \/ Lookup \/ Write \/ Write2 \/ Read \/ ReadNvml
  BY <1>3, <1>5 DEF Open, Lookup, Write, Write2, Read, ReadNvml, After
<1>6. CASE Fail /\ UNCHANGED args
  BY <1>3, <1>6 DEF Fail, After
<1>7. CASE FallBack \/ UNCHANGED vars
  BY <1>2, <1>7 DEF FallBack, vars
<1>8. ASSUME NEW same \in BOOLEAN, Again(same) PROVE TextOK'
  BY <1>3, <1>8 DEF Again, FirstStep
<1>9. ASSUME NEW d \in Dev, OtherWrites(d) PROVE TextOK'
  BY <1>2, <1>9 DEF OtherWrites
<1>10. ASSUME NEW n \in Name, Unplug(n) PROVE TextOK'
  BY <1>2, <1>10 DEF Unplug
<1>11. ASSUME NEW d \in Dev, NEW n \in Name, NEW k \in 0..MaxNumber, Plug(d, n, k) PROVE TextOK'
  BY <1>2, <1>11 DEF Plug
<1> QED BY <1>1, <1>4, <1>5, <1>6, <1>7, <1>8, <1>9, <1>10, <1>11, FailingSteps DEF Next

(* Every step leaves each file with one of its texts. *)
LEMMA FilesStep ==
  ASSUME TypeOK, Progress, FoundOK, TextOK, FilesOK, [Next]_vars
  PROVE  FilesOK'
<1> USE DEF machine, devices, args
<1>1. ASSUME UNCHANGED <<attr, kind, write_cache>>, NEW d \in Dev, NEW t, Held(attr, kind[d], t),
             file' = [file EXCEPT ![d] = t]
      PROVE  FilesOK'
  BY <1>1 DEF FilesOK
<1>2. ASSUME UNCHANGED <<attr, kind, file, write_cache>> PROVE FilesOK'
  BY <1>2 DEF FilesOK
<1>3. CASE Write
  BY <1>1, <1>3, WriteHeld DEF Write
<1>4. CASE Write2
  <2>1. attr = "cache_type" /\ attr \notin WriteOnly
    BY <1>4 DEF Write2, Progress, WriteOnly
  <2>2. PICK e : text = Encode("cache_type", arg, e)
    BY <1>4, <2>1 DEF Write2, TextOK
  <2>3. Given("cache_type", arg)
    BY <1>4, <2>1, ArgGiven DEF Write2
  <2>4. WriteCache(text) \in {Word("write_back"), Word("write_through")}
    BY <2>2, <2>3, CacheFallBack
  <2> QED BY <1>4, <2>4 DEF Write2, FilesOK
<1>5. ASSUME NEW d \in Dev, OtherWrites(d) PROVE FilesOK'
  <2>1. PICK c \in Contents(attr, kind[d]) : file' = [file EXCEPT ![d] = c]
    BY <1>5 DEF OtherWrites
  <2>2. Held(attr, kind[d], c)
    BY <2>1, ContentsHeld DEF TypeOK
  <2> QED BY <1>1, <1>5, <2>1, <2>2 DEF OtherWrites
<1>6. CASE Open \/ Lookup \/ Check \/ FallBack \/ Read \/ ReadNvml \/ (Fail /\ UNCHANGED args) \/ UNCHANGED vars
  BY <1>2, <1>6 DEF Open, Lookup, Check, FallBack, Read, ReadNvml, Fail, vars
<1>7. ASSUME NEW s \in Typed(attr), NEW n \in Asked(attr), Start(s, n) PROVE FilesOK'
  BY <1>2, <1>7 DEF Start
<1>8. ASSUME NEW same \in BOOLEAN, Again(same) PROVE FilesOK'
  BY <1>2, <1>8 DEF Again
<1>9. ASSUME NEW n \in Name, Unplug(n) PROVE FilesOK'
  BY <1>2, <1>9 DEF Unplug
<1>10. ASSUME NEW d \in Dev, NEW n \in Name, NEW k \in 0..MaxNumber, Plug(d, n, k) PROVE FilesOK'
  BY <1>2, <1>10 DEF Plug
<1> QED BY <1>3, <1>4, <1>5, <1>6, <1>7, <1>8, <1>9, <1>10, FailingSteps DEF Next

-----------------------------------------------------------------------------
(* Only NVML leads by the index of a card. *)
LEMMA NvmlPath ==
  ASSUME Straight[1] = "nvml"
  PROVE  attr \in Hwmon \cup {"power_limit"} /\ attr \notin Battery
<1>1. attr \in Battery => Straight = nth_battery_name(target)
  BY DEF Straight, Battery, Numbered, Hwmon
<1>2. attr \in Numbered \cup {"usb_reset"} => Straight = NumberAt(target)
  BY DEF Straight, Battery, Numbered, Hwmon
<1>3. attr \notin Battery \cup Numbered \cup Hwmon \cup {"power_limit", "usb_reset"} => Straight = <<"name", target>>
  BY DEF Straight
<1>4. nth_battery_name(target)[1] # "nvml" /\ NumberAt(target)[1] # "nvml"
  BY DEF nth_battery_name, NumberAt, NotFound
<1> QED BY <1>1, <1>2, <1>3, <1>4

(* A write while nothing moves gets to the device that is meant, and a      *)
(* later call finds what this one found.                                    *)
LEMMA WriteArrives ==
  ASSUME TypeOK, Carried, Progress, FoundOK, StillThere, moves = 0, target = asked,
         pc \in {"write", "write2"}, Reached(found) # NoDev
  PROVE  /\ Reached(found) = Site /\ Site # NoDev /\ meant # NoDev
         /\ attr # "power_limit" => Site = meant
         /\ attr \notin Battery => At(target) # NoDev
         /\ attr \in Hwmon => kind[At(target)] = "hwmon"
         /\ attr \in {"profile", "rc6"} => kind[At(target)] # "other"
         /\ attr = "power_limit" => kind[At(target)] \in {"nvidia", "bare"}
<1>1. found = Straight /\ Reached(found) = Site
  BY FoundIsSite DEF FoundOK
<1>2. meant = Meant(target)
  BY DEF StillThere
<1>3. attr \in {"profile", "rc6", "power_limit"} => opened # NoDev /\ opened = At(target) /\ RightDriver
  BY DEF Progress, StillThere, Unopened, Global, Indexed, Battery
<1>4. CASE Straight[1] = "nvml"
  <2>1. attr = "power_limit" /\ attr \notin Battery
    BY <1>1, <1>4, NvmlPath DEF FoundOK
  <2>2. At(target) # NoDev /\ kind[At(target)] \in {"nvidia", "bare"}
    BY <1>3, <2>1 DEF RightDriver, gpu_is_nvidia
  <2>3. meant = At(target)
    BY <1>2, <2>1, <2>2, MeantByName
  <2> QED BY <1>1, <2>1, <2>2, <2>3 DEF Hwmon
<1>5. CASE Straight[1] # "nvml"
  <2>1. Site = meant /\ (attr \notin Battery => At(target) # NoDev)
    BY <1>1, <1>2, <1>5, SiteIsMeant
  <2>2. attr \in Hwmon => kind[At(target)] = "hwmon"
    BY SetsHwmon
  <2>3. attr \in {"profile", "rc6"} => kind[At(target)] # "other"
    BY <1>3 DEF RightDriver
  <2>4. attr = "power_limit" => kind[At(target)] \in {"nvidia", "bare"}
    BY <1>3 DEF RightDriver, gpu_is_nvidia
  <2> QED BY <1>1, <2>1, <2>2, <2>3, <2>4
<1> QED BY <1>4, <1>5

(* What a successful set wrote stays while nobody disturbs it. *)
LEMMA KeptStep ==
  ASSUME TypeOK, Carried, Progress, FoundOK, StillThere, FilesOK, TextOK, Kept, [Next]_vars
  PROVE  Kept'
<1> USE DEF machine, devices, args
<1>1. CASE result' # "ok" \/ moves' # 0 \/ written_by' # {}
  BY <1>1 DEF Kept, Undisturbed
<1>2. ASSUME UNCHANGED <<attr, kind, at, number, file, write_cache, moves, written_by, arg, asked, target,
                         meant, result>>
      PROVE  Kept'
  <2>1. Site' = Site /\ (Undisturbed' <=> Undisturbed) /\ (Exact(meant)' <=> Exact(meant))
    BY <1>2, SameDevices DEF Undisturbed, Exact
  <2>3. At(target)' = At(target)
    BY <1>2 DEF At
  <2>2. FileRead(Site)' = FileRead(Site)
    BY <1>2, <2>1 DEF FileRead
  <2> QED BY <1>2, <2>1, <2>2, <2>3 DEF Kept
<1>3. ASSUME UNCHANGED <<attr, kind, at, number, moves, written_by, arg, asked, target, meant>>,
             pc \in {"write", "write2"}, Reached(found) # NoDev,
             moves = 0 /\ target = asked /\ attr \notin WriteOnly /\ Exact(meant) =>
               Decode(attr, FileRead(Site)') = Shown(attr, arg)
      PROVE  Kept'
  <2> SUFFICES ASSUME Undisturbed', attr \notin WriteOnly PROVE Kept'
    BY <1>3 DEF Kept
  <2>1. moves = 0 /\ target = asked
    BY <1>3 DEF Undisturbed
  <2>2. Site' = Site /\ (Exact(meant)' <=> Exact(meant))
    BY <1>3, SameDevices DEF Exact
  <2>3. /\ Site # NoDev /\ meant # NoDev
        /\ attr \notin Battery => At(target) # NoDev
        /\ attr \in Hwmon => kind[At(target)] = "hwmon"
        /\ attr \in {"profile", "rc6"} => kind[At(target)] # "other"
        /\ attr = "power_limit" => kind[At(target)] \in {"nvidia", "bare"}
    BY <1>3, <2>1, WriteArrives
  <2>4. At(target)' = At(target)
    BY <1>3 DEF At
  <2> QED BY <1>3, <2>1, <2>2, <2>3, <2>4 DEF Kept
<1>4. CASE Write
  <2>1. PICK t \in KernelTakes(Reached(found)) : file' = [file EXCEPT ![Reached(found)] = t]
    BY <1>4 DEF Write
  <2>2. pc = "write" /\ Reached(found) # NoDev /\ Reached(found) \in Dev
    BY <1>4, <2>1, WriteHeld DEF Write, KernelTakes
  <2>3. ASSUME moves = 0, target = asked, attr \notin WriteOnly, Exact(meant)
        PROVE  Decode(attr, FileRead(Site)') = Shown(attr, arg)
    <3>1. Reached(found) = Site /\ (attr # "power_limit" => Site = meant)
      BY <2>2, <2>3, WriteArrives
    <3>2. kind[Site] # "loose" /\ attr # "gpu_fan_pwm"
      <4>1. kind[Site] \in Kinds(attr)
        BY <2>2, <3>1 DEF TypeOK
      <4>2. attr = "power_limit" => kind[Site] # "loose"
        BY <4>1 DEF Kinds, Rounded, Battery
      <4> QED BY <2>3, <3>1, <4>2 DEF Exact
    <3>3. Decode(attr, t) = Shown(attr, arg)
      BY <2>1, <2>2, <2>3, <3>1, <3>2, WriteHeld
    <3>4. attr = "cache_type" => kind[Site] = "scsi"
      BY <2>1, <3>1 DEF KernelTakes, Kernel, Lists, WriteOnly, Rounded, Battery
    <3>5. file'[Site] = t
      BY <2>1, <2>2, <3>1 DEF FilesOK
    <3>6. Site' = Site /\ attr' = attr /\ kind' = kind
      BY <1>4, SameDevices DEF Write
    <3>7. FileRead(Site)' = t
      BY <3>4, <3>5, <3>6 DEF FileRead
    <3> QED BY <3>3, <3>7
  <2> QED BY <1>3, <1>4, <2>2, <2>3 DEF Write
<1>5. CASE Write2
  <2>1. pc = "write2" /\ Reached(found) # NoDev /\ Reached(found) \in Dev /\ attr = "cache_type"
    BY <1>5, ReachedType DEF Write2, Progress
  <2>2. ASSUME moves = 0, target = asked, Exact(meant)
        PROVE  Decode(attr, FileRead(Site)') = Shown(attr, arg)
    <3>1. Reached(found) = Site /\ Site = meant /\ Site # NoDev
      BY <2>1, <2>2, WriteArrives
    <3>2. kind[Site] # "scsi"
      BY <2>1, <2>2, <3>1 DEF StillThere
    <3>3. kind[Site] = "nvme" /\ arg # Num(3)
      BY <2>1, <2>2, <3>1, <3>2 DEF Exact
    <3>4. PICK e : text = Encode("cache_type", arg, e)
      BY <2>1 DEF TextOK, WriteOnly
    <3>5. Given("cache_type", arg)
      BY <2>1, ArgGiven DEF WriteOnly
    <3>6. Decode("cache_type", WriteCache(text)) = arg
      BY <3>3, <3>4, <3>5, CacheFallBack
    <3>7. Site' = Site /\ attr' = attr /\ kind' = kind
      BY <1>5, SameDevices DEF Write2
    <3>8. write_cache'[Site] = WriteCache(text)
      BY <1>5, <2>1, <3>1 DEF Write2, FilesOK
    <3>9. FileRead(Site)' = WriteCache(text)
      BY <2>1, <3>3, <3>7, <3>8 DEF FileRead
    <3>10. Shown(attr, arg) = arg
      BY <2>1 DEF Shown
    <3> QED BY <2>1, <3>6, <3>9, <3>10
  <2> QED BY <1>3, <1>5, <2>1, <2>2 DEF Write2
<1>6. ASSUME NEW s \in Typed(attr), NEW n \in Asked(attr), Start(s, n) PROVE Kept'
  BY <1>1, <1>6 DEF Start, Progress
<1>7. CASE Open \/ Lookup \/ Check \/ FallBack \/ Read \/ ReadNvml \/ UNCHANGED vars
  BY <1>2, <1>7 DEF Open, Lookup, Check, FallBack, Read, ReadNvml, vars
<1>8. CASE Fail /\ UNCHANGED args
  <2>1. CASE op = "set"
    BY <1>1, <1>8, <2>1 DEF Fail
  <2>2. CASE op # "set"
    BY <1>2, <1>8, <2>2 DEF Fail
  <2> QED BY <2>1, <2>2
<1>9. ASSUME NEW same \in BOOLEAN, Again(same) PROVE Kept'
  BY <1>2, <1>9 DEF Again
<1>10. ASSUME NEW d \in Dev, OtherWrites(d) PROVE Kept'
  BY <1>1, <1>10 DEF OtherWrites
<1>11. ASSUME NEW n \in Name, Unplug(n) PROVE Kept'
  BY <1>1, <1>11 DEF Unplug, TypeOK
<1>12. ASSUME NEW d \in Dev, NEW n \in Name, NEW k \in 0..MaxNumber, Plug(d, n, k) PROVE Kept'
  BY <1>1, <1>12 DEF Plug, TypeOK
<1> QED BY <1>4, <1>5, <1>6, <1>7, <1>8, <1>9, <1>10, <1>11, <1>12, FailingSteps DEF Next

(* The read of what a set reported as written does not fail. *)
LEMMA ReadGetsThere ==
  ASSUME TypeOK, Progress, FoundOK, StillThere, Kept, result = "ok", Undisturbed, op = "get"
  PROVE  ~OpenFails /\ ~LookupFails /\ ~ReadFails
<1>1. attr \notin WriteOnly /\ moves = 0 /\ target = asked
  BY DEF Progress, Undisturbed
<1>2. /\ Site # NoDev
      /\ attr \notin Battery => At(target) # NoDev
      /\ attr \in Hwmon => kind[At(target)] = "hwmon"
      /\ attr \in {"profile", "rc6"} => kind[At(target)] # "other"
      /\ attr = "power_limit" => kind[At(target)] \in {"nvidia", "bare"}
  BY <1>1 DEF Kept
<1>0. IndexOK
  <2>1. CASE attr \in Battery
    <3>1. Straight = nth_battery_name(target) /\ Straight # NotFound
      BY <1>2, <2>1 DEF Straight, Site, Reached, NotFound, Battery, Numbered, Hwmon
    <3>2. target \in 0..(Cardinality(Present) - 1)
      BY <3>1 DEF nth_battery_name
    <3> QED BY <3>2 DEF IndexOK
  <2>2. CASE attr \notin Battery
    BY <1>2, <2>2, AtType DEF IndexOK, Name
  <2> QED BY <2>1, <2>2
<1>3. ~OpenFails
  BY <1>0, <1>2 DEF OpenFails, Progress, Unopened
<1>4. ~ReadFails
  BY <1>1, <1>2, FoundIsSite DEF ReadFails
<1>5. ASSUME LookupFails PROVE FALSE
  <2>1. pc = "lookup" /\ (opened # NoDev => opened = At(target)) /\ (attr \notin Unopened => opened # NoDev)
    BY <1>1, <1>5 DEF LookupFails, StillThere, Progress
  <2>2. RightDriver
    BY <1>2, <2>1 DEF RightDriver, gpu_is_nvidia, Unopened, Global, Indexed, Battery
  <2>3. Path = NotFound
    BY <1>0, <1>5, <2>2 DEF LookupFails
  <2>4. CASE attr \in Battery
    <3>1. Path = Straight
      BY <2>4 DEF Path, Straight, Battery, Numbered, Hwmon
    <3> QED BY <1>2, <2>3, <3>1 DEF Site, Reached, NotFound
  <2>5. CASE attr \in {"cooling", "irq_affinity"}
    <3>1. Path = NumberAt(target) /\ At(target) # NoDev
      BY <1>2, <2>5 DEF Path, Battery, Numbered, Hwmon, zone_cdev_index, net_irq_path
    <3> QED BY <2>3, <3>1 DEF NumberAt, NotFound
  <2>6. CASE attr \in Hwmon
    <3>1. Path = HwmonOrNvml(target) /\ attr \notin Battery
      BY <2>6 DEF Path, Battery, Numbered, Hwmon
    <3>2. gpu_find_hwmon(target) # NotFound
      BY <1>2, <2>6, <3>1 DEF gpu_find_hwmon, NotFound
    <3>3. gpu_hwmon(target) # NotFound
      BY <3>2 DEF gpu_hwmon
    <3> QED BY <2>3, <3>1, <3>3 DEF HwmonOrNvml
  <2>7. CASE attr \notin Battery \cup Hwmon \cup {"cooling", "irq_affinity", "usb_reset"}
    <3>1. Path \in {<<"nvml", target>>, <<"name", target>>}
      BY <2>7 DEF Path
    <3> QED BY <2>3, <3>1 DEF NotFound
  <2> QED BY <1>1, <2>4, <2>5, <2>6, <2>7 DEF WriteOnly
<1> QED BY <1>3, <1>4, <1>5

(* Every get shows what the set before it wrote. *)
LEMMA ReadBackStep ==
  ASSUME TypeOK, Progress, FoundOK, StillThere, FilesOK, Kept, ReadBack, [Next]_vars
  PROVE  ReadBack'
<1> USE DEF machine, devices, args
<1>1. CASE got' = Refused /\ (pc' # "done" \/ op' # "get" \/ result' # "ok" \/ ~Undisturbed')
  BY <1>1 DEF ReadBack
<1>2. CASE UNCHANGED vars
  BY <1>2 DEF vars, ReadBack, Undisturbed, Exact
<1>3. CASE Read
  <2>1. PICK d : d = Reached(found)
    OBVIOUS
  <2>2. d \in Dev /\ pc = "read" /\ op = "get" /\ attr \notin WriteOnly
        /\ got' = Decode(attr, FileRead(d)) /\ touched' = touched \cup {d}
        /\ UNCHANGED <<attr, kind, file, moves, written_by, target, asked, meant, arg, result>>
    BY <1>3, <2>1, ReachedType DEF Read, Progress
  <2>3. ASSUME result' = "ok", Undisturbed', Exact(meant)'
        PROVE  got' = Shown(attr', arg')
    <3>1. result = "ok" /\ Undisturbed /\ Exact(meant) /\ moves = 0
      BY <2>2, <2>3 DEF Undisturbed, Exact
    <3>2. Site # NoDev /\ d = Site
      BY <2>1, <2>2, <3>1, FoundIsSite DEF Kept
    <3>3. Decode(attr, FileRead(Site)) = Shown(attr, arg)
      BY <2>2, <3>1 DEF Kept
    <3> QED BY <2>2, <3>2, <3>3
  <2>4. /\ attr = "gpu_temp" => got' = Num(60000)
        /\ attr = "gpu_power" => got' = Num(60000)
        /\ attr = "gpu_freq" => got' = Num(300) \/ Num(60000) \in {file[e] : e \in touched'}
        /\ attr = "gpu_fan_pwm" => got'[2] \in 0..255
    <3>1. Held(attr, kind[d], file[d])
      BY <2>2 DEF FilesOK
    <3>2. attr # "cache_type" => FileRead(d) = file[d]
      BY DEF FileRead
    <3>3. attr # "cache_type" => got' = Decode(attr, file[d])
      BY <2>2, <3>2
    <3> QED BY <2>2, <3>1, <3>3, Readings
  <2> QED BY <2>2, <2>3, <2>4 DEF ReadBack
<1>4. CASE OpenFails \/ LookupFails \/ CheckFails \/ WriteFails \/ Write2Fails \/ ReadFails
  <2>1. Fail /\ UNCHANGED args /\ pc \in {"open", "lookup", "check", "write", "write2", "read"}
    BY <1>4, FailingSteps
  <2>2. got' = Refused
    BY <2>1 DEF Fail, Progress
  <2>3. result' # "ok" \/ op # "get" \/ ~Undisturbed
    <3>1. op = "get" => pc \notin {"check", "write", "write2"}
      BY DEF Progress
    <3>2. op = "get" => OpenFails \/ LookupFails \/ ReadFails
      BY <1>4, <3>1 DEF CheckFails, WriteFails, Write2Fails
    <3>3. op = "get" => result' = result
      BY <2>1 DEF Fail
    <3> QED BY <3>2, <3>3, ReadGetsThere
  <2>4. op' = op /\ (Undisturbed' <=> Undisturbed)
    BY <2>1 DEF Fail, Undisturbed
  <2> QED BY <1>1, <2>2, <2>3, <2>4
<1>5. ASSUME NEW s \in Typed(attr), NEW n \in Asked(attr), Start(s, n) PROVE ReadBack'
  BY <1>1, <1>5 DEF Start, Progress, FirstStep
<1>6. CASE Open \/ Lookup \/ Check \/ FallBack \/ ReadNvml
  BY <1>1, <1>6 DEF Open, Lookup, Check, FallBack, ReadNvml, Progress
<1>7. CASE Write \/ Write2
  BY <1>1, <1>7 DEF Write, Write2, Progress
<1>8. ASSUME NEW same \in BOOLEAN, Again(same) PROVE ReadBack'
  BY <1>1, <1>8 DEF Again, Progress, FirstStep
<1>9. ASSUME NEW d \in Dev, OtherWrites(d) PROVE ReadBack'
  BY <1>1, <1>9 DEF OtherWrites, Progress
<1>10. ASSUME NEW n \in Name, Unplug(n) PROVE ReadBack'
  BY <1>1, <1>10 DEF Unplug, Progress
<1>11. ASSUME NEW d \in Dev, NEW n \in Name, NEW k \in 0..MaxNumber, Plug(d, n, k) PROVE ReadBack'
  BY <1>1, <1>11 DEF Plug, Progress
<1> QED BY <1>2, <1>3, <1>4, <1>5, <1>6, <1>7, <1>8, <1>9, <1>10, <1>11 DEF Next

-----------------------------------------------------------------------------
(* The invariant holds at first. *)
LEMMA InitIInv == Init => IInv
<1> SUFFICES ASSUME Init PROVE IInv
  OBVIOUS
<1>1. TypeOK /\ Carried
  <2>1. attr \in Attr /\ kind \in [Dev -> Kinds(attr)] /\ at \in [Name -> Dev \cup {NoDev}]
        /\ number \in [Dev -> -1..MaxNumber]
    BY DEF Init
  <2>2. \A d \in Dev : number[d] # -1 <=> d \in {at[n] : n \in Name}
    BY DEF Init
  <2>3. Carried
    BY DEF Init, Carried
  <2>4. target \in (-IntMax - 1)..IntMax /\ moves \in 0..MaxMoves
    BY AttributesAssumption, IntRange DEF Init
  <2> QED BY <2>1, <2>2, <2>3, <2>4 DEF Init, TypeOK, NotFound
<1>2. Progress
  BY DEF Init, Progress
<1>3. FoundOK
  BY DEF Init, FoundOK, NotFound
<1>4. StillThere /\ TextOK /\ Kept /\ ReadBack /\ RightDevice
  BY DEF Init, StillThere, TextOK, Kept, ReadBack, RightDevice
<1>5. FilesOK
  <2>1. PICK f : (\A d \in Dev : f[kind[d]] \in Contents(attr, kind[d])) /\ file = [d \in Dev |-> f[kind[d]]]
    BY DEF Init
  <2>2. ASSUME NEW d \in Dev PROVE Held(attr, kind[d], file[d])
    BY <2>1, ContentsHeld DEF Init
  <2>3. write_cache \in [Dev -> {Word("write_back"), Word("write_through")}]
    BY DEF Init
  <2> QED BY <2>1, <2>2, <2>3 DEF FilesOK
<1> QED BY <1>1, <1>2, <1>3, <1>4, <1>5 DEF IInv

(* Every step keeps the invariant. *)
LEMMA NextIInv == IInv /\ [Next]_vars => IInv'
<1> SUFFICES ASSUME IInv, [Next]_vars PROVE IInv'
  OBVIOUS
<1>1. TypeOK /\ Carried /\ Progress /\ FoundOK /\ StillThere /\ FilesOK /\ TextOK /\ Kept /\ ReadBack
      /\ RightDevice
  BY DEF IInv
<1>2. TypeOK' /\ Carried'
  BY <1>1, TypeStep
<1>3. Progress' /\ FoundOK' /\ StillThere'
  BY <1>1, ProgressStep, FoundStep, StillThereStep
<1>4. FilesOK' /\ TextOK'
  BY <1>1, FilesStep, TextStep
<1>5. Kept' /\ ReadBack' /\ RightDevice'
  BY <1>1, KeptStep, ReadBackStep, RightDeviceStep
<1> QED BY <1>2, <1>3, <1>4, <1>5 DEF IInv

(* The invariant always holds: the calls find their way and the files keep  *)
(* texts that the getters read as the setters were given.                   *)
THEOREM InductiveInvariant == Spec => []IInv
BY InitIInv, NextIInv, PTL DEF Spec

(* The state stays well formed: in particular every index reaches the       *)
(* library as an int, also one the command line casts, and no path is made  *)
(* of a negative one, because every call that takes an index refuses it;    *)
(* and a device has a number exactly while it has a name, whatever is       *)
(* plugged when.                                                            *)
THEOREM TypeCorrect == Spec => []TypeOK
<1>1. IInv => TypeOK
  BY DEF IInv
<1> QED BY <1>1, InductiveInvariant, PTL

(* The paths zenctl makes from a name or an index lead to the device the    *)
(* user meant: nth_battery_name through the sorted list, zone_cdev_index    *)
(* and net_irq_path through a number, gpu_find_hwmon through the hwmon      *)
(* directory kept in the handle, get_handle through the NVML index where    *)
(* the cards NVML knows are the first DRM cards.                            *)
THEOREM RightDeviceSafe == Spec => []RightDevice
<1>1. IInv => RightDevice
  BY DEF IInv
<1> QED BY <1>1, InductiveInvariant, PTL

(* A set that reports success was given what was typed: every parser of the *)
(* command line keeps the number and the position of the switch, with the   *)
(* three unchecked casts and the two uses of strtol's result as the only    *)
(* exceptions, and those only for numbers that do not fit.                  *)
THEOREM TypedIsSetSafe == Spec => []TypedIsSet
<1>1. IInv => TypedIsSet
  <2> SUFFICES ASSUME TypeOK, Progress, result = "ok" PROVE AsTyped(attr, typed, arg)
    BY DEF IInv, TypedIsSet, AsTyped
  <2>1. attr \in Attr /\ attr \notin ReadOnly /\ arg # Refused
    BY DEF TypeOK, Progress
  <2>2. pc # "start"
    BY DEF Progress
  <2>3. typed \in Typed(attr) /\ arg = Parse(attr, typed)
    BY <2>2 DEF Progress
  <2> QED BY <2>1, <2>3, ArgIsGiven
<1> QED BY <1>1, InductiveInvariant, PTL

(* What a set reported as written, the get after it shows, for every        *)
(* attribute and however it is found, as long as no device moves and nobody *)
(* else writes; and the readings of a card have their unit from either      *)
(* source.                                                                  *)
THEOREM ReadBackSafe == Spec => []ReadBack
<1>1. IInv => ReadBack
  BY DEF IInv
<1> QED BY <1>1, InductiveInvariant, PTL

(* Setting what a getter returned leaves the device as it is: on every text *)
(* a file can hold, the setter takes what the getter made of it and writes  *)
(* that text again, for the power limit of an NVIDIA card and a disk read   *)
(* from queue/write_cache too.  An amdgpu card outside manual mode and a    *)
(* read-only RC6 file refuse every value.  Left out are the texts that a    *)
(* getter maps to the value of another one (a fan mode beyond manual and    *)
(* automatic, deep RC6, the broken cache mode), the ASPM list, which no     *)
(* setter takes, cards whose setter does not exist (another driver, no      *)
(* hwmon file), and SCSI disks with a fixed cache type.                     *)
THEOREM GetThenSetSafe == Spec => []GetThenSet
<1>1. IInv => GetThenSet
  <2> SUFFICES ASSUME TypeOK, FilesOK, NEW d \in Dev, attr \notin ReadOnly \cup WriteOnly \cup {"aspm"},
                      ~NoSetter(kind[d]), ~Lossy(file[d])
               PROVE  LET v == Decode(attr, FileRead(d))
                          t == Encode(attr, v, d)
                      IN  IF kind[d] \in {"auto", "ro"} THEN t = Refused
                          ELSE /\ v # Refused /\ t # Refused
                               /\ IF kind[d] = "nvme" THEN WriteCache(t) = write_cache[d]
                                  ELSE file[d] \in Kernel(attr, kind[d], t, file[d])
    BY DEF IInv, GetThenSet
  <2>1. Held(attr, kind[d], file[d]) /\ attr \in Attr /\ kind[d] \in Kinds(attr)
    BY DEF TypeOK, FilesOK
  <2>2. /\ ~(attr \in {"fan_auto", "gpu_fan_auto"} /\ file[d] \in {Num(0), Num(3)})
        /\ ~(attr = "rc6" /\ file[d] = Num(3)) /\ file[d] # Word("daft")
        /\ kind[d] \notin {"other", "scsi_fixed"} /\ (attr \in Hwmon => kind[d] = "hwmon")
    BY DEF Lossy, NoSetter
  <2>3. CASE kind[d] \in {"auto", "ro"}
    <3>1. attr \in {"profile", "rc6"}
      BY <2>1, <2>3 DEF Kinds, Rounded, Battery
    <3>2. \A v : Encode(attr, v, d) = Refused
      BY <2>3, <3>1 DEF Encode
    <3> QED BY <2>3, <3>2
  <2>4. CASE kind[d] = "nvme"
    <3>1. attr = "cache_type"
      BY <2>1, <2>4 DEF Kinds, Rounded, Battery
    <3>2. FileRead(d) = write_cache[d] /\ write_cache[d] \in {Word("write_back"), Word("write_through")}
      BY <2>4, <3>1 DEF FileRead, FilesOK
    <3>3. /\ Decode(attr, Word("write_back")) = Num(1) /\ Encode(attr, Num(1), d) = Word("write_back")
          /\ Decode(attr, Word("write_through")) = Num(2) /\ Encode(attr, Num(2), d) = Word("write_through")
      <4>1. Word("write_back") # Word("daft") /\ Word("write_through") # Word("daft")
            /\ Word("write_back")[2] = "write_back" /\ Word("write_through")[2] = "write_through"
            /\ Num(1) # Num(4) /\ Num(2) # Num(4)
        BY DEF Word, Num
      <4> QED BY <3>1, <4>1, CacheTypeRow, CacheNames
    <3>4. /\ WriteCache(Word("write_back")) = Word("write_back") /\ Word("write_back") # Refused
          /\ WriteCache(Word("write_through")) = Word("write_through") /\ Word("write_through") # Refused
          /\ Num(1) # Refused /\ Num(2) # Refused
      BY DEF WriteCache, Word, Num, Refused
    <3> QED BY <2>4, <3>2, <3>3, <3>4
  <2>5. CASE kind[d] \notin {"auto", "ro", "nvme"}
    <3>1. FileRead(d) = file[d]
      BY <2>5 DEF FileRead
    <3> QED BY <2>1, <2>2, <2>5, <3>1, ReadThenWrite
  <2> QED BY <2>3, <2>4, <2>5
<1> QED BY <1>1, InductiveInvariant, PTL
=============================================================================
