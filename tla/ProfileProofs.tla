---------------------------- MODULE ProfileProofs ----------------------------
(***************************************************************************)
(* Proofs about Profile for any CPUs and policies, any attributes, any user *)
(* file, and any number of loads and of writes by other tools.              *)
(***************************************************************************)
EXTENDS Profile, SequenceTheorems, TLAPS

(* There is at least one CPU. *)
LEMMA NCpuPositive == NCpu \in Nat \ {0}
BY ProfileAssumption

(* The limits of the hardware are numbers, in order. *)
LEMMA HwBounds ==
  ASSUME NEW k \in Policy
  PROVE  /\ HwMin[k] \in Nat /\ HwMax[k] \in Nat /\ HwMin[k] <= HwMax[k]
         /\ HwMin[k] .. HwMax[k] \subseteq Nat
BY ProfileAssumption

(* A range that begins with a natural number has no others. *)
LEMMA RangeOfNaturals == \A a \in Nat : \A b : a .. b \subseteq Nat
OBVIOUS

(* The loop over the CPUs wraps after the last one. *)
LEMMA NextCpuWraps ==
  ASSUME lcpu \in 0..NCpu - 1
  PROVE  (lcpu + 1) % NCpu = IF lcpu = NCpu - 1 THEN 0 ELSE lcpu + 1
BY NCpuPositive

(* The keys that save writes: those of [cpu], then the attributes. *)
LEMMA KeysFacts ==
  /\ Keys \in Seq(CpuKeys \cup Attr)
  /\ Len(Keys) = 3 + Len(Attrs) /\ Len(Attrs) \in Nat
  /\ Keys[1] = "governor" /\ Keys[2] = "freq_min_hz" /\ Keys[3] = "freq_max_hz"
  /\ \A i \in 1..Len(Attrs) : Keys[3 + i] = Attrs[i]
  /\ Attr = {Attrs[i] : i \in 1..Len(Attrs)}
  /\ Attr \subseteq Key /\ Attr \cap CpuKeys = {}
<1>1. Attrs \in Seq(Key \ CpuKeys) /\ Len(Attrs) \in Nat /\ DOMAIN Attrs = 1..Len(Attrs)
  BY ProfileAssumption
<1>2. Attr = {Attrs[i] : i \in 1..Len(Attrs)}
  BY <1>1 DEF Attr, Range
<1>3. Attrs \in Seq(Attr)
  BY <1>1, <1>2
<1>4. Attr \subseteq Key /\ Attr \cap CpuKeys = {}
  BY <1>1, <1>2
<1> DEFINE K == <<"governor", "freq_min_hz", "freq_max_hz">>
<1>5. K \in Seq(CpuKeys) /\ Len(K) = 3
  BY DEF CpuKeys
<1>6. Keys \in Seq(CpuKeys \cup Attr) /\ Len(Keys) = 3 + Len(Attrs)
  BY <1>1, <1>3, <1>5 DEF Keys
<1>7. \A i \in 1..Len(Keys) : Keys[i] = IF i <= 3 THEN K[i] ELSE Attrs[i - 3]
  BY <1>1, <1>3, <1>5 DEF Keys
<1> QED BY <1>1, <1>2, <1>4, <1>6, <1>7

(* What load_cpu_kv does with one entry on one CPU: it passes over a number *)
(* that is no CPU, fails, or gives the policy a governor, a minimum or a    *)
(* maximum that it can take; and it goes on to the next.                    *)
CpuEffect ==
  LET e == kv[li]
      k == PolicyOf[lcpu]
      v == e.val \div 1000
  IN  /\ lpc = "apply" /\ li \in 1..Len(kv) /\ e \in Line /\ e.key \in CpuKeys /\ e.usable
      /\ lcpu' = IF lcpu = NCpu - 1 THEN 0 ELSE lcpu + 1
      /\ li' = IF lcpu = NCpu - 1 THEN li + 1 ELSE li
      /\ \/ lcpu \notin Cpu /\ UNCHANGED <<gov, smin, smax, sdist, failures>>
         \/ /\ lcpu \in Cpu /\ ~Applies(e, lcpu) /\ failures' = failures \cup {li}
            /\ UNCHANGED <<gov, smin, smax, sdist>>
         \/ /\ lcpu \in Cpu /\ k \in Policy
            /\ sdist' = IF spc = "read" THEN sdist \cup {e.key} ELSE sdist
            /\ UNCHANGED failures
            /\ \/ /\ e.key = "governor" /\ e.val \in Gov
                  /\ gov' = [gov EXCEPT ![k] = e.val] /\ UNCHANGED <<smin, smax>>
               \/ /\ e.key = "freq_min_hz" /\ v \in HwMin[k] .. HwMax[k] /\ v <= smax[k]
                  /\ smin' = [smin EXCEPT ![k] = v] /\ UNCHANGED <<gov, smax>>
               \/ /\ e.key = "freq_max_hz" /\ v \in HwMin[k] .. HwMax[k] /\ smin[k] <= v
                  /\ smax' = [smax EXCEPT ![k] = v] /\ UNCHANGED <<gov, smin>>

(* So it does. *)
LEMMA ApplyCpuEffect == TypeOK /\ DataOK /\ ApplyCpu => CpuEffect
<1> SUFFICES ASSUME TypeOK, DataOK, ApplyCpu PROVE CpuEffect
  OBVIOUS
<1> DEFINE e == kv[li]
           k == PolicyOf[lcpu]
           v == e.val \div 1000
<1>1. lpc = "apply" /\ li \in 1..Len(kv) /\ e \in Line /\ e.key \in CpuKeys /\ e.usable
  BY DEF ApplyCpu, Skipped, TypeOK, DataOK
<1>2. /\ lcpu' = IF lcpu = NCpu - 1 THEN 0 ELSE lcpu + 1
      /\ li' = IF lcpu = NCpu - 1 THEN li + 1 ELSE li
  BY NextCpuWraps DEF ApplyCpu, NextCpu, TypeOK
<1>3. CASE lcpu \notin Cpu
  BY <1>1, <1>2, <1>3 DEF ApplyCpu, CpuEffect
<1>4. CASE lcpu \in Cpu /\ ~Applies(e, lcpu)
  BY <1>1, <1>2, <1>4 DEF ApplyCpu, CountFailure, CpuEffect
<1>5. CASE lcpu \in Cpu /\ Applies(e, lcpu)
  <2>1. /\ SetCpu(e, k) /\ UNCHANGED failures
        /\ sdist' = IF spc = "read" THEN sdist \cup {e.key} ELSE sdist
    BY <1>5 DEF ApplyCpu
  <2>2. k \in Policy
    BY <1>5, ProfileAssumption
  <2>3. CASE e.key = "governor"
    BY <1>1, <1>2, <1>5, <2>1, <2>2, <2>3 DEF Applies, SetCpu, CpuEffect
  <2>4. CASE e.key = "freq_min_hz"
    <3>1. v \in HwMin[k] .. HwMax[k] /\ v <= smax[k]
      BY <1>5, <2>4 DEF Applies, CanTakeMin
    <3>2. smin' = [smin EXCEPT ![k] = v] /\ UNCHANGED <<gov, smax>>
      BY <2>1, <2>4 DEF SetCpu
    <3> QED BY <1>1, <1>2, <1>5, <2>1, <2>2, <2>4, <3>1, <3>2 DEF CpuEffect
  <2>5. CASE e.key = "freq_max_hz"
    <3>1. v \in HwMin[k] .. HwMax[k] /\ smin[k] <= v
      <4>1. v \in HwMin[k] .. HwMax[k] /\ v >= smin[k]
        BY <1>5, <2>5 DEF Applies, CanTakeMax
      <4> QED BY <2>2, <4>1, HwBounds DEF TypeOK
    <3>2. smax' = [smax EXCEPT ![k] = v] /\ UNCHANGED <<gov, smin>>
      BY <2>1, <2>5 DEF SetCpu
    <3> QED BY <1>1, <1>2, <1>5, <2>1, <2>2, <2>5, <3>1, <3>2 DEF CpuEffect
  <2> QED BY <1>1, <2>3, <2>4, <2>5 DEF CpuKeys
<1> QED BY <1>3, <1>4, <1>5

(* It keeps governors governors and bounds numbers. *)
LEMMA CpuEffectTyped ==
  ASSUME CpuEffect,
         gov \in [Policy -> Gov], smin \in [Policy -> Nat], smax \in [Policy -> Nat]
  PROVE  gov' \in [Policy -> Gov] /\ smin' \in [Policy -> Nat] /\ smax' \in [Policy -> Nat]
<1> DEFINE e == kv[li]
           k == PolicyOf[lcpu]
           v == e.val \div 1000
<1>1. CASE UNCHANGED <<gov, smin, smax>>
  BY <1>1
<1>2. CASE k \in Policy /\ e.val \in Gov /\ gov' = [gov EXCEPT ![k] = e.val]
           /\ UNCHANGED <<smin, smax>>
  BY <1>2
<1>3. ASSUME k \in Policy, v \in HwMin[k] .. HwMax[k] PROVE v \in Nat
  BY <1>3, HwBounds
<1> HIDE DEF k, v
<1>4. CASE k \in Policy /\ v \in HwMin[k] .. HwMax[k] /\ smin' = [smin EXCEPT ![k] = v]
           /\ UNCHANGED <<gov, smax>>
  BY <1>3, <1>4
<1>5. CASE k \in Policy /\ v \in HwMin[k] .. HwMax[k] /\ smax' = [smax EXCEPT ![k] = v]
           /\ UNCHANGED <<gov, smin>>
  BY <1>3, <1>5
<1> QED BY <1>1, <1>2, <1>4, <1>5 DEF CpuEffect, k, v

(* A [storage] key is an attribute, and no attribute is a [cpu] key. *)
LEMMA StorageFacts == Storage \subseteq Attr /\ Attr \cap CpuKeys = {} /\ Lacking \cap CpuKeys = {}
BY ProfileAssumption, KeysFacts DEF Storage

(* The value and the fate of an entry. *)
LEMMA LineFacts ==
  ASSUME NEW e \in Line
  PROVE  /\ e.usable \in BOOLEAN
         /\ e.key = "governor" => e.val \in Word
         /\ e.key \in {"freq_min_hz", "freq_max_hz"} => e.val \in Nat
         /\ e.key \notin CpuKeys => e.key \in Key /\ e.val \in Int
BY DEF Line, CpuKeys

(* What toml_parse makes of a line that is cut is an entry. *)
LEMMA TornIsLine ==
  ASSUME NEW e \in Line, NEW t \in Torn(e)
  PROVE  t \in Line
<1>1. t = Cut(e) \/ t = [e EXCEPT !.usable = FALSE]
  BY DEF Torn
<1>2. [e EXCEPT !.usable = FALSE] \in Line
  BY DEF Line
<1>3. ASSUME NEW R, NEW D, e \in [key : R, val : D, usable : BOOLEAN], NEW v \in D, NEW u \in BOOLEAN
      PROVE  [e EXCEPT !.val = v, !.usable = u] \in [key : R, val : D, usable : BOOLEAN]
  BY <1>3
<1>4. (e.val \in Int => (e.val >= 10) \in BOOLEAN) /\ (e.key \in Storage) \in BOOLEAN
  <2>1. \A x \in Int : (x >= 10) \in BOOLEAN
    BY SMT
  <2>2. \A S : (e.key \in S) \in BOOLEAN
    BY SMT
  <2> QED BY <2>1, <2>2, Zenon
<1>5. CASE e.key = "governor"
  <2>1. [e EXCEPT !.val = "cut"] \in Line
    BY <1>5, ProfileAssumption DEF Line, CpuKeys
  <2>2. Cut(e) = [e EXCEPT !.val = "cut"]
    <3>1. e.key \notin Words
      BY <1>5, StorageFacts, ProfileAssumption DEF CpuKeys
    <3> QED BY <1>5, <3>1, Zenon DEF Cut
  <2> QED BY <1>1, <1>2, <2>1, <2>2
<1>6. CASE e.key \in {"freq_min_hz", "freq_max_hz"}
  <2>1. e.key \notin Words /\ e.key # "governor"
    BY <1>6, StorageFacts, ProfileAssumption DEF CpuKeys
  <2>2. e.val \div 10 \in Nat /\ e.val \in Int
    BY <1>6, LineFacts
  <2>3. e \in [key : {"freq_min_hz", "freq_max_hz"}, val : Nat, usable : BOOLEAN]
    BY <1>6 DEF Line, CpuKeys
  <2>4. [e EXCEPT !.val = e.val \div 10, !.usable = e.val >= 10] \in Line
    BY <1>3, <1>4, <2>2, <2>3, Zenon DEF Line
  <2>5. Cut(e) = [e EXCEPT !.val = e.val \div 10, !.usable = e.val >= 10]
    BY <2>1, Zenon DEF Cut
  <2> QED BY <1>1, <1>2, <2>4, <2>5
<1>7. CASE e.key \notin CpuKeys
  <2>1. e \in [key : Key \ CpuKeys, val : Int, usable : BOOLEAN] /\ e.key # "governor"
    BY <1>7 DEF Line, CpuKeys
  <2>2. e.val \div 10 \in Int /\ -1 \in Int /\ e.val \in Int
    BY <2>1
  <2>3. [e EXCEPT !.val = -1, !.usable = e.key \in Storage] \in Line
    BY <1>3, <1>4, <2>1, <2>2, Zenon DEF Line
  <2>4. [e EXCEPT !.val = e.val \div 10, !.usable = e.val >= 10] \in Line
    BY <1>3, <1>4, <2>1, <2>2, Zenon DEF Line
  <2>5. \/ Cut(e) = [e EXCEPT !.val = -1, !.usable = e.key \in Storage]
        \/ Cut(e) = [e EXCEPT !.val = e.val \div 10, !.usable = e.val >= 10]
    BY <2>1, Zenon DEF Cut
  <2> QED BY <1>1, <1>2, <2>3, <2>4, <2>5
<1> QED BY <1>5, <1>6, <1>7 DEF Line, CpuKeys

(* What save prints is an entry. *)
LEMMA SavedIsLine ==
  ASSUME TypeOK, NEW i \in 1..Len(Keys)
  PROVE  Entry(Keys[i], SavedValue(Keys[i])) \in Line
<1> USE ProfileAssumption DEF TypeOK, Entry, Line
<1>1. Keys[i] \in CpuKeys \cup Attr /\ PolicyOf[0] \in Policy
  BY KeysFacts
<1>2. CASE Keys[i] = "governor"
  BY <1>1, <1>2 DEF SavedValue
<1>3. CASE Keys[i] = "freq_min_hz"
  <2>1. SavedValue(Keys[i]) = smin[PolicyOf[0]] * 1000
    BY <1>3 DEF SavedValue
  <2>2. smin[PolicyOf[0]] * 1000 \in Nat
    BY <1>1
  <2> QED BY <1>3, <2>1, <2>2
<1>4. CASE Keys[i] = "freq_max_hz"
  <2>1. SavedValue(Keys[i]) = smax[PolicyOf[0]] * 1000
    BY <1>4 DEF SavedValue
  <2>2. smax[PolicyOf[0]] * 1000 \in Nat
    BY <1>1
  <2> QED BY <1>4, <2>1, <2>2
<1>5. CASE Keys[i] \in Attr
  <2>1. Keys[i] \in Key \ CpuKeys
    BY <1>5, KeysFacts
  <2>2. SavedValue(Keys[i]) = attr[Keys[i]]
    BY <2>1 DEF SavedValue, CpuKeys
  <2> QED BY <1>5, <2>1, <2>2
<1> QED BY <1>1, <1>2, <1>3, <1>4, <1>5 DEF CpuKeys

(* The type of every variable is preserved by every step. *)
LEMMA NextTypeOK == TypeOK /\ DataOK /\ [Next]_vars => TypeOK' /\ DataOK'
<1> SUFFICES ASSUME TypeOK, DataOK, [Next]_vars PROVE TypeOK' /\ DataOK'
  OBVIOUS
<1>0. Len(Keys) \in Nat
  BY KeysFacts
<1>00. ApplyCpu => CpuEffect
  BY ApplyCpuEffect
<1> USE <1>0 DEF TypeOK, DataOK, live, files, saver, loader, deleter
<1>1. ASSUME SaveOpen PROVE TypeOK' /\ DataOK'
  <2>1. snap' \in [gov : [Policy -> Gov], smin : [Policy -> Nat], smax : [Policy -> Nat],
                   attr : [Attr -> Nat]]
        /\ \A a \in Attr : snap'.attr[a] \in Accepts[a]
    BY <1>1 DEF SaveOpen, LiveState
  <2>2. doc' \in [{"user", "system"} -> Seq(Line)] /\ out' \in Seq(Line)
    BY <1>1 DEF SaveOpen
  <2>3. spc' \in {"read"} /\ si' \in 1..Len(Keys) + 1 /\ exists' \subseteq {"user", "system"}
    BY <1>1 DEF SaveOpen
  <2>4. UNCHANGED <<gov, smin, smax, attr, present, loader, deleter, others>>
    BY <1>1 DEF SaveOpen
  <2> QED BY <2>1, <2>2, <2>3, <2>4
<1>2. ASSUME SaveRead PROVE TypeOK' /\ DataOK'
  <2>1. out' \in Seq(Line)
    <3>1. si \in 1..Len(Keys)
      BY <1>2, KeysFacts DEF SaveRead
    <3>2. Entry(Keys[si], SavedValue(Keys[si])) \in Line
      BY <3>1, SavedIsLine
    <3> QED BY <1>2, <3>2 DEF SaveRead
  <2>2. si' \in 1..Len(Keys) + 1
    BY <1>2, KeysFacts DEF SaveRead
  <2> QED BY <1>2, <2>1, <2>2 DEF SaveRead
<1>3. ASSUME SaveFlush PROVE TypeOK' /\ DataOK'
  <2> DEFINE n == Len(out) - 1
  <2>1. /\ Len(doc["system"]) <= n
        /\ \E tail \in {<<>>} \cup {<<t>> : t \in Torn(out[n + 1])} :
             doc' = [doc EXCEPT !["system"] = SubSeq(out, 1, n) \o tail]
    BY <1>3 DEF SaveFlush
  <2>2. n \in 0..Len(out) /\ n + 1 \in 1..Len(out) /\ out[n + 1] \in Line
    <3>1. Len(doc["system"]) \in Nat /\ Len(out) \in Nat
      OBVIOUS
    <3>2. n \in 0..Len(out) /\ n + 1 \in 1..Len(out)
      BY <2>1, <3>1
    <3> QED BY <3>2
  <2>3. SubSeq(out, 1, n) \in Seq(Line)
    BY <2>2, SubSeqProperties
  <2> HIDE DEF n
  <2>4. PICK tail \in {<<>>} \cup {<<t>> : t \in Torn(out[n + 1])} :
          doc' = [doc EXCEPT !["system"] = SubSeq(out, 1, n) \o tail]
    BY <2>1
  <2>5. tail \in Seq(Line)
    <3>1. CASE tail = <<>>
      BY <3>1
    <3>2. ASSUME NEW t \in Torn(out[n + 1]), tail = <<t>> PROVE tail \in Seq(Line)
      <4>1. t \in Line
        BY <2>2, <3>2, TornIsLine
      <4> QED BY <3>2, <4>1
    <3> QED BY <2>4, <3>1, <3>2
  <2>6. SubSeq(out, 1, n) \o tail \in Seq(Line)
    BY <2>3, <2>5
  <2>7. doc' \in [{"user", "system"} -> Seq(Line)]
    BY <2>4, <2>6
  <2> QED BY <1>3, <2>7 DEF SaveFlush
<1>4. ASSUME SaveClose PROVE TypeOK' /\ DataOK'
  BY <1>4 DEF SaveClose
<1>5. ASSUME SaveCloseNoSpace PROVE TypeOK' /\ DataOK'
  BY <1>5 DEF SaveCloseNoSpace
<1>6. ASSUME SaveKilled PROVE TypeOK' /\ DataOK'
  <2>1. snap' \in [gov : [Policy -> Gov], smin : [Policy -> Nat], smax : [Policy -> Nat],
                   attr : [Attr -> Nat]]
        /\ \A a \in Attr : snap'.attr[a] \in Accepts[a]
    BY <1>6 DEF SaveKilled, LiveState
  <2>2. out' \in Seq(Line) /\ spc' = "killed" /\ si' \in 1..Len(Keys) + 1 /\ sdist' = {}
    BY <1>6 DEF SaveKilled
  <2>3. UNCHANGED <<live, files, loader, deleter, others>>
    BY <1>6 DEF SaveKilled
  <2> QED BY <2>1, <2>2, <2>3
<1>7. ASSUME LoadFind PROVE TypeOK' /\ DataOK'
  <2>1. again' \in BOOLEAN
    BY <1>7, Zenon DEF LoadFind
  <2>2. lpc' \in {"parse", "error"} /\ place' \in {"user", "system"} /\ loads' \in 0..MaxLoads
    BY <1>7, ProfileAssumption DEF LoadFind
  <2> QED BY <1>7, <2>1, <2>2 DEF LoadFind
<1>8. ASSUME LoadParse PROVE TypeOK' /\ DataOK'
  <2>1. again' \in BOOLEAN
    BY <1>8, Zenon DEF LoadParse
  <2>2. kv' \in Seq(Line) /\ lpc' \in {"apply", "error"}
    BY <1>8 DEF LoadParse
  <2>3. li' \in 1..Len(kv') + 1 /\ lcpu' \in 0..NCpu - 1 /\ failures' \subseteq 1..Len(kv')
    <3>1. CASE li' = 1 /\ lcpu' = 0 /\ failures' = {}
      BY <2>2, <3>1, NCpuPositive
    <3>2. CASE UNCHANGED <<kv, li, lcpu, failures>>
      BY <3>2
    <3> QED BY <1>8, <3>1, <3>2 DEF LoadParse
  <2> QED BY <1>8, <2>1, <2>2, <2>3 DEF LoadParse
<1>9. ASSUME ApplyCpu PROVE TypeOK' /\ DataOK'
  <2>0. /\ li \in 1..Len(kv)
        /\ lcpu' = IF lcpu = NCpu - 1 THEN 0 ELSE lcpu + 1
        /\ li' = IF lcpu = NCpu - 1 THEN li + 1 ELSE li
    BY <1>9, <1>00 DEF CpuEffect
  <2>1. lcpu' \in 0..NCpu - 1 /\ li' \in 1..Len(kv) + 1
    <3>1. lcpu \in 0..NCpu - 1 /\ NCpu \in Nat \ {0} /\ Len(kv) \in Nat
      BY NCpuPositive
    <3>2. lcpu' \in 0..NCpu - 1
      BY <2>0, <3>1
    <3> QED BY <2>0, <3>1, <3>2
  <2>2. gov' \in [Policy -> Gov] /\ smin' \in [Policy -> Nat] /\ smax' \in [Policy -> Nat]
    BY <1>9, <1>00, CpuEffectTyped
  <2>3. failures' \subseteq 1..Len(kv)
    BY <1>9, <2>0 DEF ApplyCpu, CountFailure
  <2> QED BY <1>9, <2>1, <2>2, <2>3 DEF ApplyCpu
<1>10. ASSUME ApplyOther PROVE TypeOK' /\ DataOK'
  <2>1. li \in 1..Len(kv) /\ li + 1 \in 1..Len(kv) + 1
    BY <1>10 DEF ApplyOther
  <2>2. attr' \in [Attr -> Nat] /\ \A a \in Attr : attr'[a] \in Accepts[a]
    <3> DEFINE k == kv[li].key
               v == Sent(kv[li])
    <3>1. CASE UNCHANGED attr
      BY <3>1
    <3>2. CASE k \in Attr /\ v \in Accepts[k] /\ attr' = [attr EXCEPT ![k] = v]
      <4>1. v \in Nat
        BY <3>2, ProfileAssumption
      <4> HIDE DEF k, v
      <4> QED BY <3>2, <4>1
    <3> QED BY <1>10, <3>1, <3>2 DEF ApplyOther, Taken
  <2>3. failures' \subseteq 1..Len(kv)
    BY <1>10, <2>1 DEF ApplyOther, CountFailure
  <2> QED BY <1>10, <2>1, <2>2, <2>3 DEF ApplyOther
<1>101. ASSUME ApplySkip PROVE TypeOK' /\ DataOK'
  <2>1. li + 1 \in 1..Len(kv) + 1
    BY <1>101 DEF ApplySkip
  <2> QED BY <1>101, <2>1 DEF ApplySkip
<1>11. ASSUME LoadDone PROVE TypeOK' /\ DataOK'
  BY <1>11 DEF LoadDone
<1>12. ASSUME DeleteFind PROVE TypeOK' /\ DataOK'
  BY <1>12 DEF DeleteFind
<1>13. ASSUME DeleteUnlink PROVE TypeOK' /\ DataOK'
  BY <1>13 DEF DeleteUnlink
<1>14. ASSUME NEW k \in Policy, OtherSetsCpu(k) PROVE TypeOK' /\ DataOK'
  <2>0. HwMin[k] \in Nat /\ smin[k] \in Nat
    BY HwBounds
  <2>1. HwMin[k] .. smax[k] \subseteq Nat /\ smin[k] .. HwMax[k] \subseteq Nat
    BY <2>0, RangeOfNaturals
  <2>2. gov' \in [Policy -> Gov] /\ smin' \in [Policy -> Nat] /\ smax' \in [Policy -> Nat]
    BY <1>14, <2>1 DEF OtherSetsCpu
  <2>3. again' = FALSE /\ others' \in 0..MaxOther
    BY <1>14, ProfileAssumption DEF OtherSetsCpu, Disturb
  <2> QED BY <1>14, <2>2, <2>3 DEF OtherSetsCpu
<1>15. ASSUME NEW a \in Attr, OtherSetsAttr(a) PROVE TypeOK' /\ DataOK'
  <2>1. attr' \in [Attr -> Nat] /\ \A b \in Attr : attr'[b] \in Accepts[b]
    <3>1. PICK v \in Accepts[a] : attr' = [attr EXCEPT ![a] = v]
      BY <1>15 DEF OtherSetsAttr
    <3>2. v \in Nat
      BY ProfileAssumption
    <3> QED BY <3>1, <3>2
  <2>2. again' = FALSE /\ others' \in 0..MaxOther
    BY <1>15, ProfileAssumption DEF OtherSetsAttr, Disturb
  <2> QED BY <1>15, <2>1, <2>2 DEF OtherSetsAttr
<1>151. ASSUME NEW d \in Devices, DeviceGoes(d) PROVE TypeOK' /\ DataOK'
  <2>1. present' \subseteq Attr /\ Attr \ Storage \subseteq present'
    BY <1>151 DEF DeviceGoes, Storage
  <2>2. again' = FALSE /\ others' \in 0..MaxOther
    BY <1>151, ProfileAssumption DEF DeviceGoes, Disturb
  <2> QED BY <1>151, <2>1, <2>2 DEF DeviceGoes
<1>152. ASSUME NEW d \in Devices, DeviceComes(d) PROVE TypeOK' /\ DataOK'
  <2>1. present' \subseteq Attr /\ Attr \ Storage \subseteq present'
    BY <1>152, StorageFacts DEF DeviceComes, Storage
  <2>2. attr' \in [Attr -> Nat] /\ \A b \in Attr : attr'[b] \in Accepts[b]
    <3>1. UNION {Accepts[a] : a \in Attr} \subseteq Nat
      BY ProfileAssumption
    <3> QED BY <1>152, <3>1 DEF DeviceComes
  <2>3. again' = FALSE /\ others' \in 0..MaxOther
    <3>1. again' = FALSE /\ others < MaxOther /\ others' = others + 1
      BY <1>152 DEF DeviceComes, Disturb
    <3> QED BY <3>1, ProfileAssumption
  <2> QED BY <1>152, <2>1, <2>2, <2>3 DEF DeviceComes
<1>16. CASE UNCHANGED vars
  BY <1>16 DEF vars
<1> QED
  BY <1>1, <1>2, <1>3, <1>4, <1>5, <1>6, <1>7, <1>8, <1>9, <1>10, <1>101, <1>11, <1>12,
     <1>13, <1>14, <1>15, <1>151, <1>152, <1>16
  DEF Next, Save, Load, Delete, Other

(* The writes of zenctl and of others keep the bounds in order and in range. *)
LEMMA NextBounds == TypeOK /\ DataOK /\ BoundsOrdered /\ [Next]_vars => BoundsOrdered'
<1> SUFFICES ASSUME TypeOK, DataOK, BoundsOrdered, [Next]_vars, NEW q \in Policy
             PROVE  /\ HwMin[q] <= smin'[q] /\ smin'[q] <= smax'[q] /\ smax'[q] <= HwMax[q]
                    /\ snap'.smin[q] <= snap'.smax[q]
  BY DEF BoundsOrdered
<1>1. /\ HwMin[q] <= smin[q] /\ smin[q] <= smax[q] /\ smax[q] <= HwMax[q]
      /\ snap.smin[q] <= snap.smax[q]
  BY DEF BoundsOrdered
<1>2. /\ smin \in [Policy -> Nat] /\ smax \in [Policy -> Nat]
      /\ HwMin[q] \in Nat /\ HwMax[q] \in Nat
  BY HwBounds DEF TypeOK
<1>3. CASE SaveOpen
  BY <1>1, <1>3 DEF SaveOpen, LiveState, live
<1>31. CASE SaveKilled
  BY <1>1, <1>31 DEF SaveKilled, LiveState, live
<1>4. CASE ApplyCpu
  <2>1. CpuEffect /\ UNCHANGED snap
    BY <1>4, ApplyCpuEffect DEF ApplyCpu
  <2> DEFINE k == PolicyOf[lcpu]
             v == kv[li].val \div 1000
  <2>2. CASE UNCHANGED <<smin, smax>>
    BY <1>1, <2>1, <2>2
  <2>3. ASSUME k \in Policy, v \in HwMin[k] .. HwMax[k]
        PROVE  v \in Nat /\ HwMin[k] <= v /\ v <= HwMax[k]
    BY <2>3, HwBounds
  <2> HIDE DEF k, v
  <2>4. CASE k \in Policy /\ v \in HwMin[k] .. HwMax[k] /\ v <= smax[k]
             /\ smin' = [smin EXCEPT ![k] = v] /\ UNCHANGED smax
    BY <1>1, <1>2, <2>1, <2>3, <2>4
  <2>5. CASE k \in Policy /\ v \in HwMin[k] .. HwMax[k] /\ smin[k] <= v
             /\ smax' = [smax EXCEPT ![k] = v] /\ UNCHANGED smin
    BY <1>1, <1>2, <2>1, <2>3, <2>5
  <2> QED BY <2>1, <2>2, <2>4, <2>5 DEF CpuEffect, k, v
<1>5. ASSUME NEW k \in Policy, OtherSetsCpu(k)
      PROVE  /\ HwMin[q] <= smin'[q] /\ smin'[q] <= smax'[q] /\ smax'[q] <= HwMax[q]
             /\ UNCHANGED snap
  <2>1. HwMin[k] \in Nat /\ HwMax[k] \in Nat
    BY HwBounds
  <2> QED BY <1>1, <1>2, <1>5, <2>1 DEF OtherSetsCpu
<1>6. CASE UNCHANGED <<smin, smax, snap>>
  BY <1>1, <1>6
<1> QED
  BY <1>1, <1>3, <1>31, <1>4, <1>5, <1>6
  DEF Next, Save, Load, Delete, Other, SaveRead, SaveFlush, SaveClose, SaveCloseNoSpace,
      LoadFind, LoadParse, ApplySkip, ApplyOther, LoadDone, DeleteFind,
      DeleteUnlink, OtherSetsAttr, DeviceGoes, DeviceComes, live, saver, vars

(* Whoever changes what save would read while it reads is in sdist. *)
LEMMA NextLiveFromSnap ==
  ASSUME TypeOK, DataOK, SavedFromSnap, [Next]_vars, spc = "read", spc' = "read",
         NEW k \in CpuKeys \cup Attr
  PROVE  k \in sdist' \/ SavedValue(k)' = SnapValue(k)'
<1>0. k \in sdist \/ SavedValue(k) = SnapValue(k)
  BY DEF SavedFromSnap
<1>00. ApplyCpu => CpuEffect
  BY ApplyCpuEffect
<1>01. k \in CpuKeys => k \notin Attr
  BY KeysFacts
<1> USE <1>0 DEF SavedValue, SnapValue
<1>1. CASE ApplyCpu
  <2>1. UNCHANGED <<spc, snap, attr>>
    BY <1>1 DEF ApplyCpu
  <2>2. CASE UNCHANGED <<gov, smin, smax, sdist>>
    BY <2>1, <2>2
  <2>3. CASE /\ sdist' = sdist \cup {kv[li].key} /\ UNCHANGED <<smin, smax>>
             /\ kv[li].key = "governor"
    BY <2>1, <2>3
  <2>4. CASE /\ sdist' = sdist \cup {kv[li].key} /\ UNCHANGED <<gov, smax>>
             /\ kv[li].key = "freq_min_hz"
    BY <2>1, <2>4
  <2>5. CASE /\ sdist' = sdist \cup {kv[li].key} /\ UNCHANGED <<gov, smin>>
             /\ kv[li].key = "freq_max_hz"
    BY <2>1, <2>5
  <2> QED BY <1>00, <1>1, <2>2, <2>3, <2>4, <2>5 DEF CpuEffect
<1>2. CASE ApplyOther
  <2>1. UNCHANGED <<spc, snap, gov, smin, smax>>
    BY <1>2 DEF ApplyOther
  <2>2. CASE UNCHANGED <<attr, sdist>>
    BY <2>1, <2>2
  <2>3. CASE /\ attr' = [attr EXCEPT ![kv[li].key] = Sent(kv[li])]
             /\ sdist' = sdist \cup {kv[li].key}
    BY <2>1, <2>3 DEF TypeOK, CpuKeys
  <2> QED BY <1>2, <2>2, <2>3 DEF ApplyOther
<1>3. ASSUME NEW q \in Policy, OtherSetsCpu(q) PROVE k \in sdist' \/ SavedValue(k)' = SnapValue(k)'
  <2>1. UNCHANGED <<spc, snap, attr>>
    BY <1>3 DEF OtherSetsCpu
  <2>2. CASE sdist' = sdist \cup {"governor"} /\ UNCHANGED <<smin, smax>>
    BY <2>1, <2>2
  <2>3. CASE sdist' = sdist \cup {"freq_min_hz"} /\ UNCHANGED <<gov, smax>>
    BY <2>1, <2>3
  <2>4. CASE sdist' = sdist \cup {"freq_max_hz"} /\ UNCHANGED <<gov, smin>>
    BY <2>1, <2>4
  <2> QED BY <1>3, <2>2, <2>3, <2>4 DEF OtherSetsCpu, Disturb
<1>4. ASSUME NEW a \in Attr, OtherSetsAttr(a) PROVE k \in sdist' \/ SavedValue(k)' = SnapValue(k)'
  <2>1. UNCHANGED <<spc, snap, gov, smin, smax>> /\ sdist' = sdist \cup {a}
    BY <1>4 DEF OtherSetsAttr, Disturb
  <2>2. k \in Attr \ {a} => attr'[k] = attr[k]
    BY <1>4 DEF OtherSetsAttr, TypeOK
  <2> QED BY <2>1, <2>2 DEF CpuKeys
<1>41. ASSUME NEW d \in Devices, DeviceComes(d)
       PROVE  k \in sdist' \/ SavedValue(k)' = SnapValue(k)'
  <2>1. UNCHANGED <<spc, snap, gov, smin, smax>> /\ sdist' = sdist \cup d
    BY <1>41 DEF DeviceComes, Disturb
  <2>2. k \in Attr \ d => attr'[k] = attr[k]
    BY <1>41 DEF DeviceComes
  <2> QED BY <2>1, <2>2 DEF CpuKeys
<1>5. CASE UNCHANGED <<gov, smin, smax, attr, snap>> /\ sdist \subseteq sdist'
  BY <1>5
<1> QED
  BY <1>1, <1>2, <1>3, <1>4, <1>41, <1>5
  DEF Next, Save, Load, Delete, Other, SaveOpen, SaveRead, SaveFlush, SaveClose,
      SaveCloseNoSpace, SaveKilled, LoadFind, LoadParse, ApplySkip, LoadDone, DeviceGoes, Disturb, DeleteFind, DeleteUnlink,
      live, saver, vars

(* The saver's part of the invariant. *)
LEMMA NextSaved ==
  TypeOK /\ DataOK /\ SavedFromSnap /\ SavedInOrder /\ [Next]_vars
    => SavedFromSnap' /\ SavedInOrder'
<1> SUFFICES ASSUME TypeOK, DataOK, SavedFromSnap, SavedInOrder, [Next]_vars
             PROVE  SavedFromSnap' /\ SavedInOrder'
  OBVIOUS
<1>0. si \in Nat /\ Len(Keys) \in Nat /\ si \in 1..Len(Keys) + 1 /\ out \in Seq(Line)
  BY KeysFacts DEF TypeOK, DataOK
<1>1. CASE SaveOpen
  <2>1. out' = <<>> /\ si' = 1 /\ sdist' = {} /\ snap' = LiveState /\ UNCHANGED live
    BY <1>1 DEF SaveOpen
  <2>2. \A k : SavedValue(k)' = SnapValue(k)'
    BY <2>1 DEF SavedValue, SnapValue, LiveState, live
  <2> QED BY <2>1, <2>2 DEF SavedFromSnap, SavedInOrder
<1>2. CASE SaveRead
  <2> DEFINE k == Keys[si]
             e == Entry(k, SavedValue(k))
  <2>1. /\ spc = "read" /\ spc' = "read" /\ si \in 1..Len(Keys) /\ si' = si + 1
        /\ UNCHANGED <<snap, sdist>>
    BY <1>0, <1>2 DEF SaveRead
  <2>2. k \in CpuKeys \cup Attr
    BY <2>1, KeysFacts
  <2>3. k \in sdist \/ SavedValue(k) = SnapValue(k)
    BY <2>1, <2>2 DEF SavedFromSnap
  <2>4. e.key = k /\ e.val = SavedValue(k) /\ e.usable
    BY DEF Entry
  <2>5. \A x : SnapValue(x)' = SnapValue(x)
    BY <2>1 DEF SnapValue
  <2>6. out' = out \/ out' = Append(out, e)
    BY <1>2 DEF SaveRead
  <2> HIDE DEF e, k
  <2>7. SavedFromSnap'
    <3>1. \A x \in CpuKeys \cup Attr : x \in sdist' \/ SavedValue(x)' = SnapValue(x)'
      BY <2>1, NextLiveFromSnap
    <3>2. ASSUME NEW i \in DOMAIN out'
          PROVE  /\ out'[i].usable
                 /\ out'[i].key \in sdist' \/ out'[i].val = SnapValue(out'[i].key)
      <4>1. CASE i \in DOMAIN out /\ out'[i] = out[i]
        BY <2>1, <2>5, <4>1 DEF SavedFromSnap
      <4>2. CASE out'[i] = e
        BY <2>1, <2>3, <2>4, <2>5, <4>2
      <4> QED BY <1>0, <2>6, <3>2, <4>1, <4>2
    <3> QED BY <2>1, <2>5, <3>1, <3>2 DEF SavedFromSnap
  <2>8. SavedInOrder'
    <3>1. Len(out) < si /\ Len(out) \in Nat
      BY <1>0 DEF SavedInOrder
    <3>2. CASE out' = out
      BY <1>0, <2>1, <3>1, <3>2 DEF SavedInOrder
    <3>3. CASE out' = Append(out, e)
      <4>1. Len(out') = Len(out) + 1 /\ DOMAIN out' = 1..Len(out) + 1
        BY <1>0, <3>3
      <4>2. \A i \in 1..Len(out) : out'[i] = out[i]
        BY <1>0, <3>3
      <4>3. out'[Len(out) + 1] = e
        BY <1>0, <3>3
      <4>4. Len(out') < si'
        BY <2>1, <3>1, <4>1
      <4>5. ASSUME Len(out') = si' - 1, NEW i \in DOMAIN out' PROVE out'[i].key = Keys[i]
        <5>1. Len(out) = si - 1
          BY <2>1, <3>1, <4>1, <4>5, <1>0
        <5>2. CASE i \in 1..Len(out)
          BY <1>0, <4>2, <5>1, <5>2 DEF SavedInOrder
        <5>3. CASE i = Len(out) + 1
          BY <1>0, <2>4, <4>3, <5>1, <5>3 DEF k
        <5> QED BY <3>1, <4>1, <4>5, <5>2, <5>3
      <4> QED BY <4>4, <4>5 DEF SavedInOrder
    <3> QED BY <2>6, <3>2, <3>3
  <2> QED BY <2>7, <2>8
<1>3. CASE UNCHANGED <<out, si, snap>> /\ sdist \subseteq sdist' /\ (spc' = "read" => spc = "read")
  <2>1. SavedInOrder'
    BY <1>3 DEF SavedInOrder
  <2>2. \A x : SnapValue(x)' = SnapValue(x)
    BY <1>3 DEF SnapValue
  <2>3. spc' = "read" => \A x \in CpuKeys \cup Attr : x \in sdist' \/ SavedValue(x)' = SnapValue(x)'
    BY <1>3, NextLiveFromSnap
  <2>4. \A i \in DOMAIN out' :
          out'[i].usable /\ (out'[i].key \in sdist' \/ out'[i].val = SnapValue(out'[i].key))
    BY <1>3, <2>2 DEF SavedFromSnap
  <2> QED BY <2>1, <2>2, <2>3, <2>4 DEF SavedFromSnap
<1>4. CASE SaveKilled
  BY <1>4 DEF SaveKilled, SavedFromSnap, SavedInOrder
<1> QED
  BY <1>1, <1>2, <1>3, <1>4
  DEF Next, Save, Load, Delete, Other, SaveFlush, SaveClose,
      SaveCloseNoSpace, LoadFind, LoadParse, ApplySkip, ApplyCpu, ApplyOther,
      LoadDone, DeleteFind, DeleteUnlink, OtherSetsCpu, OtherSetsAttr, DeviceGoes,
      DeviceComes, Disturb, live, saver, vars

(* The step leaves alone what the entries with key k are about. *)
Untouched(k) ==
  /\ k = "governor" => UNCHANGED gov
  /\ k = "freq_min_hz" => UNCHANGED smin
  /\ k = "freq_max_hz" => UNCHANGED smax
  /\ k \notin CpuKeys => (k \in present <=> k \in present') /\ (k \in present => attr'[k] = attr[k])

(* Then an entry that holds goes on holding. *)
LEMMA HoldsKept ==
  ASSUME UNCHANGED kv, NEW i \in DOMAIN kv, Holds(kv[i]), Untouched(kv[i].key)
  PROVE  Holds(kv[i])'
<1>1. CASE kv[i].key = "governor"
  BY <1>1 DEF Holds, Untouched
<1>2. CASE kv[i].key = "freq_min_hz"
  BY <1>2 DEF Holds, Untouched
<1>3. CASE kv[i].key = "freq_max_hz"
  BY <1>3 DEF Holds, Untouched
<1>4. CASE kv[i].key \notin CpuKeys
  BY <1>4 DEF Holds, Untouched, Sent, CpuKeys
<1> QED BY <1>1, <1>2, <1>3, <1>4 DEF CpuKeys

(* An entry behind the load stays accounted for when the step leaves its    *)
(* key alone, is blamed for the change, or works on a later entry for it.   *)
LEMMA EntryKept ==
  ASSUME AppliedSoFar, lpc \in {"apply", "done"}, UNCHANGED kv,
         failures \subseteq failures', ldist \subseteq ldist',
         NEW i \in DOMAIN kv, i < li,
         Untouched(kv[i].key) \/ kv[i].key \in ldist' \/ Superseded(i)
  PROVE  Accounted(i)'
<1>1. Accounted(i)
  BY DEF AppliedSoFar
<1>2. Superseded(i) => Superseded(i)'
  BY DEF Superseded
<1> QED BY <1>1, <1>2, HoldsKept DEF Accounted

(* One turn of the loop of load_cpu_kv leaves the keys of other entries     *)
(* alone.                                                                   *)
LEMMA CpuEffectUntouched ==
  ASSUME CpuEffect, UNCHANGED <<attr, present>>, NEW x, x # kv[li].key
  PROVE  Untouched(x)
<1>1. CASE UNCHANGED <<gov, smin, smax>>
  BY <1>1 DEF Untouched
<1>2. CASE kv[li].key = "governor" /\ UNCHANGED <<smin, smax>>
  BY <1>2 DEF Untouched
<1>3. CASE kv[li].key = "freq_min_hz" /\ UNCHANGED <<gov, smax>>
  BY <1>3 DEF Untouched
<1>4. CASE kv[li].key = "freq_max_hz" /\ UNCHANGED <<gov, smin>>
  BY <1>4 DEF Untouched
<1> QED BY <1>1, <1>2, <1>3, <1>4 DEF CpuEffect

(* Its own entry e goes on holding on the CPUs behind it, whether they      *)
(* share the policy of this one or not, and holds on this one now.          *)
LEMMA CpuEffectHolds ==
  ASSUME TypeOK, CpuEffect, NEW e, e = kv[li], li \notin failures',
         NEW c \in Cpu, c = lcpu \/ HoldsOn(e, c)
  PROVE  HoldsOn(e, c)'
<1> DEFINE k == PolicyOf[lcpu]
           v == e.val \div 1000
<1>1. PolicyOf[c] \in Policy
  BY ProfileAssumption
<1>2. gov \in [Policy -> Gov] /\ smin \in [Policy -> Nat] /\ smax \in [Policy -> Nat]
  BY DEF TypeOK
<1>3. CASE lcpu \notin Cpu /\ UNCHANGED <<gov, smin, smax>>
  BY <1>3 DEF HoldsOn
<1>4. CASE e.key = "governor" /\ gov' = [gov EXCEPT ![k] = e.val]
  BY <1>1, <1>2, <1>4 DEF HoldsOn
<1> HIDE DEF v
<1>5. CASE e.key = "freq_min_hz" /\ smin' = [smin EXCEPT ![k] = v]
  <2>1. smin'[PolicyOf[c]] = v
    <3>1. CASE c = lcpu
      BY <1>1, <1>2, <1>5, <3>1
    <3>2. CASE HoldsOn(e, c)
      <4>1. smin[PolicyOf[c]] = v
        BY <1>5, <3>2 DEF HoldsOn, v
      <4> QED BY <1>1, <1>2, <1>5, <4>1
    <3> QED BY <3>1, <3>2
  <2> QED BY <1>5, <2>1 DEF HoldsOn, v
<1>6. CASE e.key = "freq_max_hz" /\ smax' = [smax EXCEPT ![k] = v]
  <2>1. smax'[PolicyOf[c]] = v
    <3>1. CASE c = lcpu
      BY <1>1, <1>2, <1>6, <3>1
    <3>2. CASE HoldsOn(e, c)
      <4>1. smax[PolicyOf[c]] = v
        BY <1>6, <3>2 DEF HoldsOn, v
      <4> QED BY <1>1, <1>2, <1>6, <4>1
    <3> QED BY <3>1, <3>2
  <2> QED BY <1>6, <2>1 DEF HoldsOn, v
<1> QED BY <1>3, <1>4, <1>5, <1>6 DEF CpuEffect, v

(* What one turn of the loop does for the load's part of the invariant. *)
LEMMA ApplyCpuApplied == TypeOK /\ DataOK /\ AppliedSoFar /\ ApplyCpu => AppliedSoFar'
<1> SUFFICES ASSUME TypeOK, DataOK, AppliedSoFar, ApplyCpu PROVE AppliedSoFar'
  OBVIOUS
<1>1. CpuEffect
  BY ApplyCpuEffect
<1>2. UNCHANGED <<kv, attr, present, ldist, lpc>>
  BY DEF ApplyCpu
<1>3. /\ lpc = "apply" /\ li \in 1..Len(kv) /\ kv[li].key \in CpuKeys /\ kv[li].usable
      /\ lcpu' = (IF lcpu = NCpu - 1 THEN 0 ELSE lcpu + 1)
      /\ li' = (IF lcpu = NCpu - 1 THEN li + 1 ELSE li)
      /\ failures \subseteq failures'
  BY <1>1 DEF CpuEffect
<1>4. lcpu \in 0..NCpu - 1 /\ NCpu \in Nat /\ DOMAIN kv = 1..Len(kv) /\ Len(kv) \in Nat
  BY NCpuPositive DEF TypeOK, DataOK
<1>5. PICK e : e = kv[li]
  OBVIOUS
<1>6. \/ li \in failures' \/ e.key \in ldist
      \/ \A c \in Reached : c <= lcpu => HoldsOn(e, c)'
  <2> SUFFICES ASSUME li \notin failures', e.key \notin ldist, NEW c \in Reached, c <= lcpu
               PROVE  HoldsOn(e, c)'
    OBVIOUS
  <2>1. c \in Cpu /\ c \in Nat
    BY ProfileAssumption DEF Reached
  <2>2. c < lcpu => HoldsOn(e, c)
    BY <1>3, <1>4, <1>5 DEF AppliedSoFar
  <2>3. c = lcpu \/ HoldsOn(e, c)
    BY <1>4, <2>1, <2>2
  <2> QED BY <1>1, <1>5, <2>1, <2>3, CpuEffectHolds
<1>7. ASSUME NEW i \in DOMAIN kv, i < li
      PROVE  Accounted(i)'
  <2>1. CASE kv[i].key = kv[li].key
    <3>1. Superseded(i)
      BY <1>3, <1>4, <1>7, <2>1 DEF Superseded
    <3> QED BY <1>2, <3>1 DEF Superseded, Accounted
  <2>2. CASE kv[i].key # kv[li].key
    <3>1. Untouched(kv[i].key)
      BY <1>1, <1>2, <2>2, CpuEffectUntouched
    <3> QED BY <1>2, <1>3, <1>7, <3>1, EntryKept
  <2> QED BY <2>1, <2>2
<1>8. CASE lcpu = NCpu - 1
  <2>1. lcpu' = 0 /\ li' = li + 1
    BY <1>3, <1>8
  <2>2. li \in failures' \/ e.key \in ldist \/ Holds(e)'
    <3> SUFFICES ASSUME \A c \in Reached : HoldsOn(e, c)' PROVE Holds(e)'
      BY <1>4, <1>6, <1>8 DEF Reached
    <3>1. e.key \in CpuKeys
      BY <1>3, <1>5
    <3>2. CASE e.key = "governor"
      BY <3>2 DEF Holds, HoldsOn
    <3>3. CASE e.key = "freq_min_hz"
      BY <3>3 DEF Holds, HoldsOn
    <3>4. CASE e.key = "freq_max_hz"
      BY <3>4 DEF Holds, HoldsOn
    <3> QED BY <3>1, <3>2, <3>3, <3>4 DEF CpuKeys
  <2>4. ASSUME NEW i \in DOMAIN kv', i < li'
        PROVE  Accounted(i)'
    <3>1. CASE i = li
      BY <1>2, <1>5, <2>2, <3>1 DEF Holds, Sent, Accounted
    <3>2. CASE i < li
      BY <1>2, <1>7, <2>4, <3>2
    <3> QED BY <1>2, <1>3, <1>4, <2>1, <2>4, <3>1, <3>2
  <2>5. \A c \in Reached : ~(c < lcpu')
    BY <1>4, <2>1 DEF Reached
  <2> QED BY <1>2, <1>3, <2>1, <2>4, <2>5 DEF AppliedSoFar
<1>9. CASE lcpu # NCpu - 1
  <2>1. lcpu' = lcpu + 1 /\ li' = li
    BY <1>3, <1>9
  <2>2. \A c \in Reached : c < lcpu' => c <= lcpu
    BY <1>4, <2>1 DEF Reached
  <2>3. li' \in failures' \/ kv'[li'].key \in ldist'
        \/ \A c \in Reached : c < lcpu' => HoldsOn(kv[li], c)'
    <3>1. kv'[li'] = e /\ e.key \in CpuKeys
      BY <1>2, <1>3, <1>5, <2>1
    <3>2. ASSUME NEW c \in Reached, HoldsOn(e, c)' PROVE HoldsOn(kv[li], c)'
      <4>1. CASE e.key = "governor"
        BY <3>1, <3>2, <4>1 DEF HoldsOn
      <4>2. CASE e.key = "freq_min_hz"
        BY <3>1, <3>2, <4>2 DEF HoldsOn
      <4>3. CASE e.key = "freq_max_hz"
        BY <3>1, <3>2, <4>3 DEF HoldsOn
      <4> QED BY <3>1, <4>1, <4>2, <4>3 DEF CpuKeys
    <3> QED BY <1>2, <1>6, <2>1, <2>2, <3>1, <3>2
  <2>4. ASSUME NEW i \in DOMAIN kv', i < li'
        PROVE  Accounted(i)'
    BY <1>2, <1>7, <2>1, <2>4
  <2>5. li' \in DOMAIN kv' /\ kv'[li'].key \in CpuKeys /\ kv'[li'].usable
    BY <1>2, <1>3, <1>4, <2>1
  <2> QED BY <1>2, <1>3, <2>3, <2>4, <2>5 DEF AppliedSoFar
<1> QED BY <1>8, <1>9

(* The load's part of the invariant, but for its loop over the CPUs. *)
LEMMA NextApplied == TypeOK /\ DataOK /\ AppliedSoFar /\ [Next]_vars => AppliedSoFar'
<1> SUFFICES ASSUME TypeOK, DataOK, AppliedSoFar, [Next]_vars PROVE AppliedSoFar'
  OBVIOUS
<1>0. /\ DOMAIN kv = 1..Len(kv) /\ Len(kv) \in Nat /\ li \in 1..Len(kv) + 1
      /\ \A c \in Reached : ~(c < 0)
  BY NCpuPositive DEF TypeOK, DataOK, Reached
<1>1. CASE LoadFind
  BY <1>1 DEF LoadFind, AppliedSoFar
<1>2. CASE LoadParse
  <2>1. CASE lpc' = "error"
    BY <2>1 DEF AppliedSoFar
  <2>2. CASE lpc' = "apply" /\ li' = 1 /\ lcpu' = 0 /\ kv' = doc[place]
    <3>1. kv' \in Seq(Line)
      BY <2>2 DEF TypeOK, DataOK
    <3>2. \A i \in DOMAIN kv' : ~(i < li')
      BY <2>2, <3>1
    <3> QED BY <1>0, <2>2, <3>2 DEF AppliedSoFar
  <2> QED BY <1>2, <2>1, <2>2 DEF LoadParse
<1>3. CASE ApplyCpu
  BY <1>3, ApplyCpuApplied
<1>4. CASE ApplyOther
  <2> DEFINE k == kv[li].key
  <2>1. /\ lpc = "apply" /\ lpc' = "apply" /\ li \in 1..Len(kv) /\ li' = li + 1
        /\ k \notin CpuKeys /\ kv[li].usable
        /\ UNCHANGED <<kv, lcpu, ldist, gov, smin, smax, present>>
    BY <1>0, <1>4 DEF ApplyOther, Skipped
  <2>2. lcpu = 0
    BY <1>0, <2>1 DEF AppliedSoFar
  <2>3. \/ k \in Attr /\ attr' = [attr EXCEPT ![k] = Sent(kv[li])] /\ failures' = failures
        \/ attr' = attr /\ failures' = failures \cup {li}
    BY <1>4 DEF ApplyOther, Taken, CountFailure
  <2>4. present \subseteq Attr /\ attr \in [Attr -> Nat]
    BY DEF TypeOK
  <2>5. ASSUME NEW x, x # k PROVE Untouched(x)
    BY <2>1, <2>3, <2>4, <2>5 DEF Untouched
  <2>6. ASSUME NEW i \in DOMAIN kv', i < li'
        PROVE  Accounted(i)'
    <3>1. CASE i = li
      <4>1. li \in failures' \/ attr'[k] = Sent(kv[li])
        BY <2>3, <2>4
      <4>2. kv'[i] = kv[li] /\ kv'[i].key \notin CpuKeys
        BY <2>1, <3>1
      <4>3. Sent(kv[i])' = Sent(kv[li])
        BY <4>2 DEF Sent
      <4>4. li \in failures' \/ Holds(kv[i])'
        BY <4>1, <4>2, <4>3 DEF Holds, CpuKeys
      <4> QED BY <3>1, <4>4 DEF Accounted
    <3>2. CASE i < li /\ kv[i].key = k
      BY <1>0, <2>1, <2>6, <3>2 DEF Superseded, Accounted
    <3>3. CASE i < li /\ kv[i].key # k
      BY <2>1, <2>3, <2>5, <2>6, <3>3, EntryKept
    <3> QED BY <1>0, <2>1, <2>6, <3>1, <3>2, <3>3
  <2> QED BY <1>0, <2>1, <2>2, <2>6 DEF AppliedSoFar
<1>41. CASE ApplySkip
  <2>1. /\ lpc = "apply" /\ lpc' = "apply" /\ li \in 1..Len(kv) /\ li' = li + 1
        /\ UNCHANGED <<kv, lcpu, failures, ldist, gov, smin, smax, attr, present>>
    BY <1>0, <1>41 DEF ApplySkip, live
  <2>2. ~kv[li].usable \/ (kv[li].key \notin CpuKeys /\ kv[li].key \notin present)
    BY <1>41, StorageFacts DEF ApplySkip, Skipped, TypeOK
  <2>3. lcpu = 0
    BY <1>0, <2>1, <2>2 DEF AppliedSoFar
  <2>4. ASSUME NEW i \in DOMAIN kv', i < li'
        PROVE  Accounted(i)'
    <3>1. CASE i = li
      BY <2>1, <2>2, <3>1 DEF Accounted, Holds, CpuKeys
    <3>2. CASE i < li
      <4>1. Untouched(kv[i].key)
        BY <2>1 DEF Untouched
      <4> QED BY <2>1, <2>4, <3>2, <4>1, EntryKept
    <3> QED BY <1>0, <2>1, <2>4, <3>1, <3>2
  <2> QED BY <1>0, <2>1, <2>3, <2>4 DEF AppliedSoFar
<1>5. ASSUME UNCHANGED <<kv, li, lcpu, failures>>, ldist \subseteq ldist',
             lpc' = lpc \/ (lpc = "apply" /\ lpc' = "done" /\ li = Len(kv) + 1),
             \A x : x \in ldist' \/ Untouched(x)
      PROVE  AppliedSoFar'
  <2> SUFFICES ASSUME lpc \in {"apply", "done"} PROVE AppliedSoFar'
    BY <1>5 DEF AppliedSoFar
  <2>1. ASSUME NEW i \in DOMAIN kv', i < li'
        PROVE  Accounted(i)'
    BY <1>5, <2>1, EntryKept
  <2>2. ASSUME li' \in DOMAIN kv', kv'[li'].key \in CpuKeys, kv'[li'].usable, li' \notin failures',
               kv'[li'].key \notin ldist', NEW c \in Reached, c < lcpu'
        PROVE  HoldsOn(kv[li], c)'
    <3>1. HoldsOn(kv[li], c) /\ Untouched(kv[li].key)
      BY <1>5, <2>2 DEF AppliedSoFar
    <3>2. kv[li].key \in CpuKeys /\ UNCHANGED <<kv, li>>
      BY <1>5, <2>2
    <3>3. CASE kv[li].key = "governor"
      BY <3>1, <3>2, <3>3 DEF HoldsOn, Untouched
    <3>4. CASE kv[li].key = "freq_min_hz"
      BY <3>1, <3>2, <3>4 DEF HoldsOn, Untouched
    <3>5. CASE kv[li].key = "freq_max_hz"
      BY <3>1, <3>2, <3>5 DEF HoldsOn, Untouched
    <3> QED BY <3>2, <3>3, <3>4, <3>5 DEF CpuKeys
  <2>3. ~(li' \in DOMAIN kv' /\ kv'[li'].key \in CpuKeys /\ kv'[li'].usable) => lcpu' = 0
    BY <1>5 DEF AppliedSoFar
  <2>4. lpc' = "done" => li' = Len(kv') + 1
    BY <1>5 DEF AppliedSoFar
  <2> QED BY <2>1, <2>2, <2>3, <2>4 DEF AppliedSoFar
<1>6. CASE LoadDone
  <2>1. /\ lpc = "apply" /\ lpc' = "done" /\ li = Len(kv) + 1
        /\ UNCHANGED <<kv, li, lcpu, failures, ldist, gov, smin, smax, attr, present>>
    BY <1>0, <1>6 DEF LoadDone, live
  <2> QED BY <1>5, <2>1 DEF Untouched
<1>7. ASSUME NEW k \in Policy, OtherSetsCpu(k) PROVE AppliedSoFar'
  <2>1. /\ UNCHANGED <<lpc, kv, li, lcpu, failures, attr, present>>
        /\ \/ UNCHANGED <<smin, smax>> /\ ldist' = ldist \cup {"governor"}
           \/ UNCHANGED <<gov, smax>> /\ ldist' = ldist \cup {"freq_min_hz"}
           \/ UNCHANGED <<gov, smin>> /\ ldist' = ldist \cup {"freq_max_hz"}
    BY <1>7 DEF OtherSetsCpu, Disturb
  <2> QED BY <1>5, <2>1 DEF Untouched
<1>8. ASSUME NEW a \in Attr, OtherSetsAttr(a) PROVE AppliedSoFar'
  <2>1. /\ UNCHANGED <<lpc, kv, li, lcpu, failures, gov, smin, smax>>
        /\ ldist' = ldist \cup {a}
    BY <1>8 DEF OtherSetsAttr, Disturb
  <2>2. \A x \in Attr : x # a => attr'[x] = attr[x]
    BY <1>8 DEF OtherSetsAttr, TypeOK
  <2>3. \A x : x # a => (x \in present <=> x \in present')
    BY <1>8 DEF OtherSetsAttr
  <2>4. \A x : x \in ldist' \/ Untouched(x)
    BY <2>1, <2>2, <2>3 DEF Untouched, TypeOK
  <2> QED BY <1>5, <2>1, <2>4
<1>81. ASSUME NEW d \in Devices, DeviceGoes(d) \/ DeviceComes(d) PROVE AppliedSoFar'
  <2>1. /\ UNCHANGED <<lpc, kv, li, lcpu, failures, gov, smin, smax>>
        /\ ldist' = ldist \cup d
    BY <1>81 DEF DeviceGoes, DeviceComes, Disturb
  <2>2. \A x \in Attr : x \notin d => attr'[x] = attr[x]
    BY <1>81 DEF DeviceGoes, DeviceComes
  <2>3. \A x : x \notin d => (x \in present <=> x \in present')
    BY <1>81 DEF DeviceGoes, DeviceComes
  <2>4. \A x : x \in ldist' \/ Untouched(x)
    BY <2>1, <2>2, <2>3 DEF Untouched, TypeOK
  <2> QED BY <1>5, <2>1, <2>4
<1>9. CASE UNCHANGED <<lpc, kv, li, lcpu, failures, ldist, gov, smin, smax, attr, present>>
  BY <1>5, <1>9 DEF Untouched
<1> QED
  BY <1>1, <1>2, <1>3, <1>4, <1>41, <1>6, <1>7, <1>8, <1>81, <1>9
  DEF Next, Save, Load, Delete, Other, SaveOpen, SaveRead, SaveFlush, SaveClose,
      SaveCloseNoSpace, SaveKilled, DeleteFind, DeleteUnlink, live, loader, vars

(* Hz to kHz keeps the order. *)
LEMMA KhzMonotone ==
  ASSUME NEW a \in Nat, NEW b \in Nat, a <= b
  PROVE  a \div 1000 \in Nat /\ b \div 1000 \in Nat /\ a \div 1000 <= b \div 1000
OBVIOUS

(* What Loadable says of an entry that is not skipped for its value. *)
LEMMA LoadableBounds ==
  ASSUME kv \in Seq(Line), Loadable(kv), NEW i \in DOMAIN kv, kv[i].usable
  PROVE  /\ kv[i].key = "governor" => kv[i].val \in Gov
         /\ kv[i].key \in {"freq_min_hz", "freq_max_hz"} =>
              /\ kv[i].val \div 1000 \in Nat
              /\ \A k \in Policy : kv[i].val \div 1000 \in HwMin[k] .. HwMax[k]
         /\ kv[i].key \in Attr \cup Lacking => Taken(kv[i])
         /\ \A j \in DOMAIN kv :
              kv[j].usable /\ kv[i].key = "freq_min_hz" /\ kv[j].key = "freq_max_hz"
                => kv[i].val \div 1000 <= kv[j].val \div 1000
<1>1. \A j \in DOMAIN kv : kv[j].key \in {"freq_min_hz", "freq_max_hz"} => kv[j].val \in Nat
  BY LineFacts
<1>2. /\ kv[i].key = "governor" => kv[i].val \in Gov
      /\ kv[i].key \in Attr \cup Lacking => Taken(kv[i])
  BY DEF Loadable
<1>3. ASSUME kv[i].key \in {"freq_min_hz", "freq_max_hz"}
      PROVE  /\ kv[i].val \div 1000 \in Nat
             /\ \A k \in Policy : kv[i].val \div 1000 \in HwMin[k] .. HwMax[k]
  <2>1. kv[i].val \in Nat
    BY <1>1, <1>3
  <2>2. kv[i].val \div 1000 \in Nat
    BY <2>1
  <2> QED BY <1>3, <2>2 DEF Loadable
<1>4. ASSUME NEW j \in DOMAIN kv, kv[j].usable,
             kv[i].key = "freq_min_hz", kv[j].key = "freq_max_hz"
      PROVE  kv[i].val \div 1000 <= kv[j].val \div 1000
  <2>1. kv[i].val <= kv[j].val
    BY <1>4 DEF Loadable
  <2>2. kv[i].val \in Nat /\ kv[j].val \in Nat
    BY <1>1, <1>4
  <2> QED BY <2>1, <2>2, KhzMonotone
<1> QED BY <1>2, <1>3, <1>4

(* One turn of load_cpu_kv with a loadable profile spoils no policy for the *)
(* entries to come: the bound that it sets is one of the profile.           *)
LEMMA AdmitsKept ==
  ASSUME TypeOK, kv \in Seq(Line), Loadable(kv), CpuEffect, UNCHANGED kv, NEW p \in Policy
  PROVE  (AdmitsMins(p) => AdmitsMins(p)') /\ (AdmitsMaxs(p) => AdmitsMaxs(p)')
<1> DEFINE k == PolicyOf[lcpu]
           v(i) == kv[i].val \div 1000
<1>1. li \in DOMAIN kv /\ kv[li].usable
  BY DEF CpuEffect
<1>2. smin \in [Policy -> Nat] /\ smax \in [Policy -> Nat]
  BY DEF TypeOK
<1>3. \A i, j \in DOMAIN kv :
        kv[i].usable /\ kv[j].usable /\ kv[i].key = "freq_min_hz" /\ kv[j].key = "freq_max_hz"
          => v(i) <= v(j)
  BY LoadableBounds
<1>4. CpuEffect =>
        \/ UNCHANGED <<smin, smax>>
        \/ kv[li].key = "freq_min_hz" /\ smin' = [smin EXCEPT ![k] = v(li)] /\ UNCHANGED smax
        \/ kv[li].key = "freq_max_hz" /\ smax' = [smax EXCEPT ![k] = v(li)] /\ UNCHANGED smin
  BY DEF CpuEffect
<1>5. AdmitsMins(p) <=> \A i \in DOMAIN kv : kv[i].usable /\ kv[i].key = "freq_min_hz" => v(i) <= smax[p]
  BY DEF AdmitsMins
<1>6. AdmitsMaxs(p) <=> \A i \in DOMAIN kv : kv[i].usable /\ kv[i].key = "freq_max_hz" => smin[p] <= v(i)
  BY DEF AdmitsMaxs
<1>7. AdmitsMins(p)' <=> \A i \in DOMAIN kv : kv[i].usable /\ kv[i].key = "freq_min_hz" => v(i) <= smax'[p]
  BY DEF AdmitsMins
<1>8. AdmitsMaxs(p)' <=> \A i \in DOMAIN kv : kv[i].usable /\ kv[i].key = "freq_max_hz" => smin'[p] <= v(i)
  BY DEF AdmitsMaxs
<1> HIDE DEF v, k
<1>9. CASE UNCHANGED <<smin, smax>>
  BY <1>5, <1>6, <1>7, <1>8, <1>9
<1>10. CASE kv[li].key = "freq_min_hz" /\ smin' = [smin EXCEPT ![k] = v(li)] /\ UNCHANGED smax
  <2>1. smin'[p] = IF p = k THEN v(li) ELSE smin[p]
    BY <1>2, <1>10
  <2> QED BY <1>1, <1>3, <1>5, <1>6, <1>7, <1>8, <1>10, <2>1
<1>11. CASE kv[li].key = "freq_max_hz" /\ smax' = [smax EXCEPT ![k] = v(li)] /\ UNCHANGED smin
  <2>1. smax'[p] = IF p = k THEN v(li) ELSE smax[p]
    BY <1>2, <1>11
  <2> QED BY <1>1, <1>3, <1>5, <1>6, <1>7, <1>8, <1>11, <2>1
<1> QED BY <1>4, <1>9, <1>10, <1>11

(* Whether it sets the bound or fails, the policy of its CPU then admits    *)
(* every entry with the other bound.                                        *)
LEMMA AdmitsGained ==
  ASSUME TypeOK, kv \in Seq(Line), BoundsOrdered, Loadable(kv), CpuEffect, UNCHANGED kv,
         lcpu \in Cpu, NEW p, p = PolicyOf[lcpu]
  PROVE  /\ kv[li].key = "freq_max_hz" => AdmitsMins(p)'
         /\ kv[li].key = "freq_min_hz" => AdmitsMaxs(p)'
<1> DEFINE v(i) == kv[i].val \div 1000
<1>1. li \in DOMAIN kv /\ kv[li].usable /\ p \in Policy
  BY ProfileAssumption DEF CpuEffect
<1>2. /\ smin \in [Policy -> Nat] /\ smax \in [Policy -> Nat]
      /\ smin[p] <= smax[p]
  BY <1>1 DEF TypeOK, BoundsOrdered
<1>3. \A i, j \in DOMAIN kv :
        kv[i].usable /\ kv[j].usable /\ kv[i].key = "freq_min_hz" /\ kv[j].key = "freq_max_hz"
          => v(i) <= v(j)
  BY LoadableBounds
<1>4. \A i \in DOMAIN kv :
        kv[i].usable /\ kv[i].key \in {"freq_min_hz", "freq_max_hz"} =>
          v(i) \in Nat /\ v(i) \in HwMin[p] .. HwMax[p]
  BY <1>1, LoadableBounds
<1>5. AdmitsMins(p)' <=> \A i \in DOMAIN kv : kv[i].usable /\ kv[i].key = "freq_min_hz" => v(i) <= smax'[p]
  BY DEF AdmitsMins
<1>6. AdmitsMaxs(p)' <=> \A i \in DOMAIN kv : kv[i].usable /\ kv[i].key = "freq_max_hz" => smin'[p] <= v(i)
  BY DEF AdmitsMaxs
<1>7. ASSUME kv[li].key = "freq_max_hz" PROVE smax'[p] = v(li) \/ smax'[p] > v(li)
  <2>1. CASE smax' = [smax EXCEPT ![p] = v(li)]
    BY <1>1, <1>2, <2>1
  <2>2. CASE ~Applies(kv[li], lcpu) /\ UNCHANGED smax
    <3>1. ~(v(li) \in HwMin[p] .. HwMax[p] /\ v(li) >= smin[p])
      BY <1>7, <2>2 DEF Applies, CanTakeMax
    <3>2. v(li) \in Nat /\ v(li) \in HwMin[p] .. HwMax[p]
      BY <1>1, <1>4, <1>7
    <3> HIDE DEF v
    <3>3. v(li) < smin[p]
      BY <1>1, <1>2, <3>1, <3>2
    <3> QED BY <1>1, <1>2, <2>2, <3>2, <3>3
  <2> QED BY <1>7, <2>1, <2>2 DEF CpuEffect
<1>8. ASSUME kv[li].key = "freq_min_hz" PROVE smin'[p] = v(li) \/ smin'[p] < v(li)
  <2>1. CASE smin' = [smin EXCEPT ![p] = v(li)]
    BY <1>1, <1>2, <2>1
  <2>2. CASE ~Applies(kv[li], lcpu) /\ UNCHANGED smin
    <3>1. ~(v(li) \in HwMin[p] .. HwMax[p] /\ v(li) <= smax[p])
      BY <1>8, <2>2 DEF Applies, CanTakeMin
    <3>2. v(li) \in Nat /\ v(li) \in HwMin[p] .. HwMax[p]
      BY <1>1, <1>4, <1>8
    <3> HIDE DEF v
    <3>3. smax[p] < v(li)
      BY <1>1, <1>2, <3>1, <3>2
    <3> QED BY <1>1, <1>2, <2>2, <3>2, <3>3
  <2> QED BY <1>8, <2>1, <2>2 DEF CpuEffect
<1>9. smin'[p] \in Nat /\ smax'[p] \in Nat
  <2>1. smin' \in [Policy -> Nat] /\ smax' \in [Policy -> Nat]
    BY CpuEffectTyped DEF TypeOK
  <2> QED BY <1>1, <2>1
<1> HIDE DEF v
<1>10. ASSUME kv[li].key = "freq_max_hz", NEW i \in DOMAIN kv, kv[i].usable,
              kv[i].key = "freq_min_hz"
       PROVE  v(i) <= smax'[p]
  BY <1>1, <1>3, <1>4, <1>7, <1>9, <1>10
<1>11. ASSUME kv[li].key = "freq_min_hz", NEW i \in DOMAIN kv, kv[i].usable,
              kv[i].key = "freq_max_hz"
       PROVE  smin'[p] <= v(i)
  BY <1>1, <1>3, <1>4, <1>8, <1>9, <1>11
<1> QED BY <1>5, <1>6, <1>10, <1>11

(* The part of the invariant about the second load. *)
LEMMA NextRetry ==
  TypeOK /\ DataOK /\ BoundsOrdered /\ AppliedSoFar /\ RetryReady /\ [Next]_vars => RetryReady'
<1> SUFFICES ASSUME TypeOK, DataOK, BoundsOrdered, AppliedSoFar, RetryReady, [Next]_vars,
                    Loadable(kv)'
             PROVE  RetryReady'
  BY DEF RetryReady
<1>0. /\ kv \in Seq(Line) /\ DOMAIN kv = 1..Len(kv) /\ Len(kv) \in Nat
      /\ li \in 1..Len(kv) + 1 /\ again \in BOOLEAN
      /\ \A c \in Reached : c \in Cpu /\ c \in 0..NCpu - 1 /\ PolicyOf[c] \in Policy
  BY ProfileAssumption DEF TypeOK, DataOK, Reached
<1>00. UNCHANGED kv => Loadable(kv)
  BY DEF Loadable, Taken, Sent
<1>1. CASE LoadFind
  <2>1. UNCHANGED <<kv, smin, smax>> /\ lpc' \in {"parse", "error"}
    BY <1>1 DEF LoadFind, live
  <2>2. ASSUME again', NEW c \in Reached
        PROVE  AdmitsMins(PolicyOf[c])' /\ AdmitsMaxs(PolicyOf[c])'
    <3>1. lpc = "done" /\ ldist = {}
      BY <1>1, <2>2 DEF LoadFind
    <3>2. li = Len(kv) + 1
      BY <3>1 DEF AppliedSoFar
    <3>3. \A i \in DOMAIN kv : Behind(i, c)
      BY <1>0, <3>2 DEF Behind
    <3>4. PICK i, j \in DOMAIN kv : /\ kv[i].usable /\ kv[i].key = "freq_min_hz"
                                   /\ kv[j].usable /\ kv[j].key = "freq_max_hz"
      BY <1>00, <2>1 DEF Loadable
    <3>5. AdmitsMins(PolicyOf[c]) /\ AdmitsMaxs(PolicyOf[c])
      BY <1>00, <2>1, <3>1, <3>3, <3>4 DEF RetryReady
    <3> QED BY <2>1, <3>5 DEF AdmitsMins, AdmitsMaxs
  <2> QED BY <2>1, <2>2 DEF RetryReady
<1>2. CASE LoadParse
  <2>1. CASE lpc' = "error"
    BY <2>1 DEF RetryReady
  <2>2. CASE /\ lpc = "parse" /\ lpc' = "apply" /\ again' = (again /\ doc[place] = kv)
             /\ kv' = doc[place]
             /\ li' = 1 /\ lcpu' = 0 /\ failures' = {} /\ UNCHANGED <<smin, smax>>
    <3>1. kv' \in Seq(Line)
      BY <2>2 DEF TypeOK, DataOK
    <3>2. \A c \in Reached, i \in DOMAIN kv' : ~Behind(i, c)'
      BY <1>0, <2>2, <3>1 DEF Behind
    <3>3. ASSUME again', NEW c \in Reached
          PROVE  AdmitsMins(PolicyOf[c])' /\ AdmitsMaxs(PolicyOf[c])'
      <4>1. again /\ UNCHANGED kv
        BY <2>2, <3>3
      <4>2. AdmitsMins(PolicyOf[c]) /\ AdmitsMaxs(PolicyOf[c])
        BY <1>00, <2>2, <4>1 DEF RetryReady
      <4> QED BY <2>2, <4>1, <4>2 DEF AdmitsMins, AdmitsMaxs
    <3> QED BY <2>2, <3>2, <3>3 DEF RetryReady
  <2> QED BY <1>2, <2>1, <2>2 DEF LoadParse, live
<1>3. CASE ApplyCpu
  <2>1. CpuEffect /\ UNCHANGED <<kv, lpc, ldist, again>>
    BY <1>3, ApplyCpuEffect DEF ApplyCpu
  <2>2. /\ lpc = "apply" /\ li \in DOMAIN kv /\ kv[li].usable /\ lcpu \in 0..NCpu - 1 /\ NCpu \in Nat
        /\ lcpu' = IF lcpu = NCpu - 1 THEN 0 ELSE lcpu + 1
        /\ li' = IF lcpu = NCpu - 1 THEN li + 1 ELSE li
    BY <1>0, <2>1, NCpuPositive DEF CpuEffect, TypeOK
  <2>3. Loadable(kv)
    BY <1>00, <2>1
  <2>4. ASSUME NEW c \in Reached, NEW i \in DOMAIN kv, Behind(i, c)'
        PROVE  Behind(i, c) \/ (i = li /\ c = lcpu)
    BY <1>0, <2>2, <2>4 DEF Behind
  <2>5. ASSUME ldist = {}, NEW c \in Reached, NEW i \in DOMAIN kv, kv[i].usable, Behind(i, c)'
        PROVE  /\ kv[i].key = "freq_max_hz" => AdmitsMins(PolicyOf[c])'
               /\ kv[i].key = "freq_min_hz" => AdmitsMaxs(PolicyOf[c])'
    <3>1. CASE Behind(i, c)
      <4>1. /\ kv[i].key = "freq_max_hz" => AdmitsMins(PolicyOf[c])
            /\ kv[i].key = "freq_min_hz" => AdmitsMaxs(PolicyOf[c])
        BY <2>2, <2>3, <2>5, <3>1 DEF RetryReady
      <4> QED BY <1>0, <2>1, <2>3, <4>1, AdmitsKept
    <3>2. CASE i = li /\ c = lcpu
      BY <1>0, <2>1, <2>3, <3>2, AdmitsGained
    <3> QED BY <2>4, <2>5, <3>1, <3>2
  <2>6. ASSUME again, NEW c \in Reached
        PROVE  AdmitsMins(PolicyOf[c])' /\ AdmitsMaxs(PolicyOf[c])'
    <3>1. AdmitsMins(PolicyOf[c]) /\ AdmitsMaxs(PolicyOf[c])
      BY <2>2, <2>3, <2>6 DEF RetryReady
    <3> QED BY <1>0, <2>1, <2>3, <3>1, AdmitsKept
  <2>7. ASSUME again PROVE failures' = {}
    <3>1. failures = {}
      BY <2>2, <2>3, <2>7 DEF RetryReady
    <3>2. ASSUME lcpu \in Cpu PROVE Applies(kv[li], lcpu)
      <4> DEFINE p == PolicyOf[lcpu]
                 v == kv[li].val \div 1000
      <4>1. lcpu \in Reached /\ p \in Policy
        BY <2>2, <3>2, ProfileAssumption DEF Reached
      <4>2. AdmitsMins(p) /\ AdmitsMaxs(p)
        BY <2>2, <2>3, <2>7, <4>1 DEF RetryReady
      <4>3. kv[li].key \in CpuKeys
        BY <2>1 DEF CpuEffect
      <4>4. CASE kv[li].key = "governor"
        <5>1. kv[li].val \in Gov
          BY <1>0, <2>2, <2>3, <4>4, LoadableBounds
        <5> QED BY <4>4, <5>1 DEF Applies
      <4>5. CASE kv[li].key = "freq_min_hz"
        <5>1. v \in HwMin[p] .. HwMax[p]
          BY <1>0, <2>2, <2>3, <4>1, <4>5, LoadableBounds
        <5>2. v <= smax[p]
          BY <2>2, <4>2, <4>5 DEF AdmitsMins
        <5> QED BY <4>5, <5>1, <5>2 DEF Applies, CanTakeMin
      <4>6. CASE kv[li].key = "freq_max_hz"
        <5>1. v \in HwMin[p] .. HwMax[p] /\ v \in Nat
          BY <1>0, <2>2, <2>3, <4>1, <4>6, LoadableBounds
        <5>2. smin[p] <= v
          BY <2>2, <4>2, <4>6 DEF AdmitsMaxs
        <5>3. smin[p] \in Nat
          BY <4>1 DEF TypeOK
        <5>4. v >= smin[p]
          BY <5>1, <5>2, <5>3
        <5> QED BY <4>6, <5>1, <5>4 DEF Applies, CanTakeMax
      <4> QED BY <4>3, <4>4, <4>5, <4>6 DEF CpuKeys
    <3> QED BY <2>1, <3>1, <3>2 DEF CpuEffect
  <2> QED BY <2>1, <2>2, <2>5, <2>6, <2>7 DEF RetryReady
<1>4. CASE ApplyOther \/ ApplySkip
  <2>1. /\ lpc = "apply" /\ li \in DOMAIN kv /\ li' = li + 1
        /\ kv[li].usable => kv[li].key \notin CpuKeys
        /\ UNCHANGED <<kv, lpc, lcpu, ldist, again, smin, smax>>
    BY <1>0, <1>4, StorageFacts DEF ApplyOther, ApplySkip, Skipped, live
  <2>2. lcpu = 0
    BY <2>1 DEF AppliedSoFar
  <2>3. ASSUME NEW c \in Reached, NEW i \in DOMAIN kv, Behind(i, c)'
        PROVE  Behind(i, c) \/ i = li
    BY <1>0, <2>1, <2>2, <2>3 DEF Behind
  <2>4. ASSUME ldist = {}, NEW c \in Reached, NEW i \in DOMAIN kv, kv[i].usable, Behind(i, c)'
        PROVE  /\ kv[i].key = "freq_max_hz" => AdmitsMins(PolicyOf[c])
               /\ kv[i].key = "freq_min_hz" => AdmitsMaxs(PolicyOf[c])
    <3>1. CASE Behind(i, c)
      BY <1>00, <2>1, <2>4, <3>1 DEF RetryReady
    <3>2. CASE i = li
      BY <2>1, <2>4, <3>2 DEF CpuKeys
    <3> QED BY <2>3, <2>4, <3>1, <3>2
  <2>5. \A p : (AdmitsMins(p) <=> AdmitsMins(p)') /\ (AdmitsMaxs(p) <=> AdmitsMaxs(p)')
    BY <2>1 DEF AdmitsMins, AdmitsMaxs
  <2>6. again => /\ failures = {}
                 /\ \A c \in Reached : AdmitsMins(PolicyOf[c]) /\ AdmitsMaxs(PolicyOf[c])
    BY <1>00, <2>1 DEF RetryReady
  <2>7. failures' = failures
    <3>1. CASE ApplySkip
      BY <3>1 DEF ApplySkip
    <3>2. CASE ApplyOther
      <4>1. kv[li].usable /\ kv[li].key \in Attr \cup Lacking
        BY <3>2 DEF ApplyOther, Skipped
      <4>2. Taken(kv[li])
        BY <1>0, <1>00, <2>1, <4>1, LoadableBounds
      <4> QED BY <3>2, <4>2 DEF ApplyOther
    <3> QED BY <1>4, <3>1, <3>2
  <2> QED BY <2>1, <2>4, <2>5, <2>6, <2>7 DEF RetryReady
<1>5. CASE ~again' /\ ldist' # {}
  BY <1>5 DEF RetryReady
<1>51. CASE ~again' /\ UNCHANGED <<kv, li, lcpu, lpc, smin, smax>> /\ ldist \subseteq ldist'
  <2>1. \A p : (AdmitsMins(p) <=> AdmitsMins(p)') /\ (AdmitsMaxs(p) <=> AdmitsMaxs(p)')
    BY <1>51 DEF AdmitsMins, AdmitsMaxs
  <2>2. \A i, c : Behind(i, c)' <=> Behind(i, c)
    BY <1>51 DEF Behind
  <2> QED BY <1>00, <1>51, <2>1, <2>2 DEF RetryReady
<1>6. CASE /\ UNCHANGED <<kv, li, lcpu, failures, ldist, again, smin, smax>>
           /\ lpc' = lpc \/ (lpc = "apply" /\ lpc' = "done")
  <2>1. \A p : (AdmitsMins(p) <=> AdmitsMins(p)') /\ (AdmitsMaxs(p) <=> AdmitsMaxs(p)')
    BY <1>6 DEF AdmitsMins, AdmitsMaxs
  <2>2. \A i, c : Behind(i, c)' <=> Behind(i, c)
    BY <1>6 DEF Behind
  <2> QED BY <1>00, <1>6, <2>1, <2>2 DEF RetryReady
<1> QED
  BY <1>1, <1>2, <1>3, <1>4, <1>5, <1>51, <1>6
  DEF Next, Save, Load, Delete, Other, SaveOpen, SaveRead, SaveFlush, SaveClose, SaveCloseNoSpace,
      SaveKilled, LoadDone, DeleteFind, DeleteUnlink, OtherSetsCpu, OtherSetsAttr, DeviceGoes,
      DeviceComes, Disturb, live, loader, vars

(* The invariant holds initially. *)
LEMMA InitIInv == Init => IInv
<1> SUFFICES ASSUME Init PROVE IInv
  OBVIOUS
<1>1. TypeOK
  <2>1. NCpu - 1 \in Nat /\ Len(Keys) \in Nat /\ MaxOther \in Nat /\ MaxLoads \in Nat
    BY NCpuPositive, KeysFacts, ProfileAssumption
  <2>2. UNION {HwMin[k] .. HwMax[k] : k \in Policy} \subseteq Nat
    BY HwBounds
  <2>3. smin \in [Policy -> Nat] /\ smax \in [Policy -> Nat]
    BY <2>2 DEF Init
  <2>4. attr \in [Attr -> Nat] /\ \A a \in Attr : attr[a] \in Accepts[a]
    <3>1. UNION {Accepts[a] : a \in Attr} \subseteq Nat
      BY ProfileAssumption
    <3> QED BY <3>1 DEF Init
  <2>5. present \subseteq Attr /\ Attr \ Storage \subseteq present
    BY DEF Init, Storage
  <2>6. exists \subseteq {"user", "system"}
    BY DEF Init
  <2> QED BY <2>1, <2>3, <2>4, <2>5, <2>6 DEF Init, TypeOK
<1>2. DataOK
  <2>1. doc \in [{"user", "system"} -> Seq(Line)]
    <3>1. PICK u \in UserDocs \cup {<<>>} :
            doc = [f \in {"user", "system"} |-> IF f = "user" THEN u ELSE <<>>]
      BY DEF Init
    <3>2. u \in UserDocs => u \in Seq(Line)
      BY ProfileAssumption, Zenon
    <3>3. u \in Seq(Line)
      <4>1. <<>> \in Seq(Line)
        OBVIOUS
      <4> QED BY <3>2, <4>1, Zenon
    <3> QED BY <3>1, <3>3
  <2>2. /\ snap \in [gov : [Policy -> Gov], smin : [Policy -> Nat], smax : [Policy -> Nat],
                     attr : [Attr -> Nat]]
        /\ \A a \in Attr : snap.attr[a] \in Accepts[a]
    BY <1>1 DEF Init, TypeOK, LiveState
  <2> QED BY <2>1, <2>2 DEF Init, DataOK
<1>3. BoundsOrdered
  BY DEF Init, BoundsOrdered, LiveState
<1>4. SavedFromSnap /\ SavedInOrder
  BY DEF Init, SavedFromSnap, SavedInOrder
<1>5. AppliedSoFar
  BY DEF Init, AppliedSoFar
<1>6. RetryReady
  BY DEF Init, RetryReady
<1> QED BY <1>1, <1>2, <1>3, <1>4, <1>5, <1>6 DEF IInv

(* Every step keeps it. *)
LEMMA NextIInv == IInv /\ [Next]_vars => IInv'
BY NextTypeOK, NextBounds, NextSaved, NextApplied, NextRetry DEF IInv

(* What the proofs about profiles rest on: the bounds of every policy are   *)
(* in order, what save printed is what it found when it began, what load    *)
(* replayed holds, and a failed load clears the way for the next one,       *)
(* always but for what others wrote.                                        *)
THEOREM InductiveInvariant == Spec => []IInv
<1>1. Init => IInv
  BY InitIInv
<1>2. IInv /\ [Next]_vars => IInv'
  BY NextIInv
<1> QED BY <1>1, <1>2, PTL DEF Spec

(* Every variable of the saver, the loader and the deleter keeps its type;  *)
(* the indices of the loops of profile_apply and load_cpu_kv stay in range. *)
THEOREM TypeCorrect == Spec => []TypeOK
<1>1. IInv => TypeOK
  BY DEF IInv
<1> QED BY <1>1, InductiveInvariant, PTL

(* No key is saved twice. *)
LEMMA KeysInjective == \A i, j \in 1..Len(Keys) : Keys[i] = Keys[j] => i = j
<1> SUFFICES ASSUME NEW i \in 1..Len(Keys), NEW j \in 1..Len(Keys), Keys[i] = Keys[j]
             PROVE  i = j
  OBVIOUS
<1>1. \A n \in 1..Len(Attrs) : Keys[3 + n] = Attrs[n] /\ Attrs[n] \notin CpuKeys
  BY KeysFacts
<1>2. \A n \in 1..Len(Keys) : n \in {1, 2, 3} \/ (n - 3 \in 1..Len(Attrs) /\ n = 3 + (n - 3))
  BY KeysFacts
<1>3. ASSUME NEW n \in 4..Len(Keys) PROVE Keys[n] = Attrs[n - 3] /\ Keys[n] \notin CpuKeys
  <2>1. n - 3 \in 1..Len(Attrs) /\ n = 3 + (n - 3)
    BY KeysFacts
  <2>2. Keys[3 + (n - 3)] = Attrs[n - 3] /\ Attrs[n - 3] \notin CpuKeys
    BY <1>1, <2>1
  <2> QED BY <2>1, <2>2
<1>4. CASE i \in {1, 2, 3} \/ j \in {1, 2, 3}
  BY <1>3, <1>4, KeysFacts DEF CpuKeys
<1>5. CASE i \in 4..Len(Keys) /\ j \in 4..Len(Keys)
  <2>1. Attrs[i - 3] = Attrs[j - 3] /\ i - 3 \in DOMAIN Attrs /\ j - 3 \in DOMAIN Attrs
    BY <1>2, <1>3, <1>5, KeysFacts, ProfileAssumption
  <2>2. i - 3 = j - 3
    BY <2>1, ProfileAssumption
  <2> QED BY <2>2
<1> QED BY <1>4, <1>5, KeysFacts

(* At the end of the load no entry is left. *)
LEMMA AppliedAtEnd == IInv => LoadSuccessMeansApplied
<1> SUFFICES ASSUME IInv, lpc = "done", failures = {}, NEW i \in DOMAIN kv
             PROVE  ~kv[i].usable \/ Superseded(i) \/ kv[i].key \in ldist \/ Holds(kv[i])
  BY DEF LoadSuccessMeansApplied
<1>1. li = Len(kv) + 1 /\ i < li
  BY DEF IInv, AppliedSoFar, DataOK
<1> QED BY <1>1 DEF IInv, AppliedSoFar, Accounted

(* profile_apply: a load that reports success leaves every key with the     *)
(* value of its last usable entry (as an int, for a memory number) on all   *)
(* CPUs of its loop and all devices there, but for keys that somebody else  *)
(* wrote, for any CPUs, policies, setters and file.                         *)
THEOREM LoadSuccessSafe == Spec => []LoadSuccessMeansApplied
BY AppliedAtEnd, InductiveInvariant, PTL

(* load_cpu_kv replays the bounds in the order of the file, whatever they   *)
(* were: the second of two loads of a loadable profile, which is one with   *)
(* no value that a setter refuses in every state, has no failures.          *)
THEOREM SecondLoadSafe == Spec => []SecondLoadSucceeds
<1>1. IInv => SecondLoadSucceeds
  BY DEF IInv, RetryReady, SecondLoadSucceeds
<1> QED BY <1>1, InductiveInvariant, PTL

(* save_cpu: a profile whose minimum is above its maximum is printed only   *)
(* if one of the bounds was written while the save was reading.             *)
THEOREM SnapshotSafe == Spec => []SnapshotOrdered
<1>1. IInv => SnapshotOrdered
  <2> SUFFICES ASSUME IInv, NEW i \in DOMAIN out, NEW j \in DOMAIN out,
                      out[i].key = "freq_min_hz", out[j].key = "freq_max_hz",
                      out[i].key \notin sdist, out[j].key \notin sdist
               PROVE  ~(out[i].val > out[j].val)
    BY DEF SnapshotOrdered
  <2>1. /\ out[i].val = snap.smin[PolicyOf[0]] * 1000
        /\ out[j].val = snap.smax[PolicyOf[0]] * 1000
    BY DEF IInv, SavedFromSnap, SnapValue
  <2>2. /\ snap.smin[PolicyOf[0]] \in Nat /\ snap.smax[PolicyOf[0]] \in Nat
        /\ snap.smin[PolicyOf[0]] <= snap.smax[PolicyOf[0]]
    BY ProfileAssumption DEF IInv, DataOK, BoundsOrdered
  <2> QED BY <2>1, <2>2
<1> QED BY <1>1, InductiveInvariant, PTL

(* Save and then load: a load of a complete, undisturbed profile that       *)
(* reports success brings back what the save saw of CPU 0 and of every      *)
(* attribute, and gives it to every CPU of its loop.                        *)
THEOREM RoundTripSafe == Spec => []RoundTrip
<1>1. IInv => RoundTrip
  <2> SUFFICES ASSUME IInv, CleanReplay, failures = {}
               PROVE  /\ attr = snap.attr
                      /\ \A c \in Reached :
                           /\ gov[PolicyOf[c]] = snap.gov[PolicyOf[0]]
                           /\ smin[PolicyOf[c]] = snap.smin[PolicyOf[0]]
                           /\ smax[PolicyOf[c]] = snap.smax[PolicyOf[0]]
    BY DEF RoundTrip
  <2>1. /\ Len(out) = Len(Keys) /\ kv = out /\ sdist = {} /\ ldist = {} /\ lpc = "done"
        /\ present = Attr /\ out \in Seq(Line) /\ DOMAIN out = 1..Len(Keys)
        /\ Len(Keys) \in Nat /\ si \in 1..Len(Keys) + 1
    BY KeysFacts DEF CleanReplay, IInv, DataOK, TypeOK
  <2>2. \A i \in DOMAIN out : out[i].key = Keys[i]
    <3>1. Len(out) < si
      BY DEF IInv, SavedInOrder
    <3>2. Len(out) = si - 1
      BY <2>1, <3>1
    <3> QED BY <3>2 DEF IInv, SavedInOrder
  <2>3. \A i \in DOMAIN out : out[i].val = SnapValue(Keys[i])
    BY <2>1, <2>2 DEF IInv, SavedFromSnap
  <2>4. \A i, j \in 1..Len(Keys) : Keys[i] = Keys[j] => i = j
    BY KeysInjective
  <2>5. \A i \in DOMAIN out : Holds(out[i])
    <3> SUFFICES ASSUME NEW i \in DOMAIN kv PROVE Holds(kv[i])
      BY <2>1
    <3>1. ~Superseded(i)
      BY <2>1, <2>2, <2>4 DEF Superseded
    <3>2. LoadSuccessMeansApplied
      BY AppliedAtEnd
    <3>3. kv[i].usable
      BY <2>1 DEF IInv, SavedFromSnap
    <3> QED BY <2>1, <3>1, <3>2, <3>3 DEF LoadSuccessMeansApplied
  <2>6. PolicyOf[0] \in Policy /\ snap \in [gov : [Policy -> Gov], smin : [Policy -> Nat],
          smax : [Policy -> Nat], attr : [Attr -> Nat]] /\ attr \in [Attr -> Nat]
    BY ProfileAssumption DEF IInv, DataOK, TypeOK
  <2>7. \A x \in Nat : (x * 1000) \div 1000 = x
    OBVIOUS
  <2>8. ASSUME NEW c \in Reached
        PROVE  /\ gov[PolicyOf[c]] = snap.gov[PolicyOf[0]]
               /\ smin[PolicyOf[c]] = snap.smin[PolicyOf[0]]
               /\ smax[PolicyOf[c]] = snap.smax[PolicyOf[0]]
    <3>1. 1 \in DOMAIN out /\ 2 \in DOMAIN out /\ 3 \in DOMAIN out
      BY <2>1, KeysFacts
    <3>2. /\ out[1].key = "governor" /\ out[1].val = snap.gov[PolicyOf[0]]
          /\ out[2].key = "freq_min_hz" /\ out[2].val = snap.smin[PolicyOf[0]] * 1000
          /\ out[3].key = "freq_max_hz" /\ out[3].val = snap.smax[PolicyOf[0]] * 1000
      BY <2>2, <2>3, <3>1, KeysFacts DEF SnapValue
    <3>3. gov[PolicyOf[c]] = out[1].val
      BY <2>5, <3>1, <3>2 DEF Holds
    <3>4. smin[PolicyOf[c]] = out[2].val \div 1000
      BY <2>5, <3>1, <3>2 DEF Holds
    <3>5. smax[PolicyOf[c]] = out[3].val \div 1000
      BY <2>5, <3>1, <3>2 DEF Holds
    <3>6. snap.smin[PolicyOf[0]] \in Nat /\ snap.smax[PolicyOf[0]] \in Nat
      BY <2>6
    <3>7. /\ out[2].val \div 1000 = snap.smin[PolicyOf[0]]
          /\ out[3].val \div 1000 = snap.smax[PolicyOf[0]]
      BY <2>7, <3>2, <3>6
    <3> QED BY <3>2, <3>3, <3>4, <3>5, <3>7
  <2>9. ASSUME NEW a \in Attr PROVE attr[a] = snap.attr[a]
    <3>1. PICK n \in 1..Len(Attrs) : a = Attrs[n]
      BY KeysFacts
    <3>2. 3 + n \in DOMAIN out /\ Keys[3 + n] = a /\ a \notin CpuKeys
      BY <2>1, <3>1, KeysFacts
    <3>3. out[3 + n].key = a /\ out[3 + n].val = snap.attr[a]
      BY <2>2, <2>3, <3>2 DEF SnapValue, CpuKeys
    <3>4. Sent(out[3 + n]) = snap.attr[a]
      <4>1. snap.attr[a] \in Accepts[a]
        BY DEF IInv, DataOK
      <4>2. a \in IntKeys => snap.attr[a] \in Ints
        BY <4>1, ProfileAssumption
      <4> QED BY <3>3, <4>2 DEF Sent
    <3>5. Holds(out[3 + n])
      BY <2>5, <3>2
    <3> QED BY <2>1, <3>2, <3>3, <3>4, <3>5 DEF Holds, CpuKeys
  <2> QED BY <2>6, <2>8, <2>9
<1> QED BY <1>1, InductiveInvariant, PTL
==============================================================================
