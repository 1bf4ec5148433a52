------------------------------ MODULE Profile ------------------------------
(***************************************************************************)
(* "zenctl profile save|load|delete NAME" (cli/profile.c) for one NAME.     *)
(* save reads the live attributes one after the other into a stdio buffer   *)
(* that reaches the file in pieces; load parses the file and replays it key *)
(* by key and CPU by CPU; delete checks and then unlinks.  Other tools      *)
(* write the same attributes at any time, and devices come and go.          *)
(*                                                                         *)
(* A set of one CPU's frequency bound is one step here: CpuFreqProofs shows *)
(* that this is all the callers of zenctl_cpu_set_freq_min/_max can see.    *)
(***************************************************************************)
EXTENDS Integers, FiniteSets, Sequences, SequencesExt

CONSTANTS
  Cpu,        \* the N of the cpuN directories; there may be gaps
  Policy,     \* the cpufreq policies
  PolicyOf,   \* the policy of each CPU
  HwMin,      \* cpuinfo_min_freq of a policy, kHz
  HwMax,      \* cpuinfo_max_freq of a policy, kHz
  NCpu,       \* sysconf(_SC_NPROCESSORS_CONF)
  Gov,        \* scaling_available_governors
  Word,       \* the words that the value of a governor entry may be
  Key,        \* the keys that a profile may have, known to load or not
  Attrs,      \* the [memory] and [storage.<dev>] keys, in the order save writes them
  Lacking,    \* [memory] keys of load whose file this kernel does not have
  Devices,    \* the block devices, each as the set of its [storage.<dev>] keys
  Words,      \* the keys in Attrs whose value is a word: its number, in the model
  Accepts,    \* the values that the setter of a key in Attrs and the kernel take
  IntMod,     \* 2^32
  MaxOther,   \* bound: attribute writes by other tools
  MaxLoads,   \* bound: loads that are run
  UserDocs    \* what may be in ~/.config/zenctl/profiles/NAME.toml

Attr == Range(Attrs)

Storage == UNION Devices

CpuKeys == {"governor", "freq_min_hz", "freq_max_hz"}

(* The [memory] numbers that load passes through a C int. *)
IntKeys == Attr \ (Storage \cup Words)

Ints == -(IntMod \div 2) .. (IntMod \div 2) - 1

(* The order in which save_cpu, save_memory and save_storage write keys. *)
Keys == <<"governor", "freq_min_hz", "freq_max_hz">> \o Attrs

(* An entry that toml_parse hands on, usable or not.  It is usable if its   *)
(* value is what its key asks for: quoted for a governor or a scheduler,    *)
(* quoted and one of the three words for thp, a bare number for any other,  *)
(* which is not negative for a frequency.                                   *)
Line == [key : {"governor"}, val : Word, usable : BOOLEAN]
   \cup [key : {"freq_min_hz", "freq_max_hz"}, val : Nat, usable : BOOLEAN]
   \cup [key : Key \ CpuKeys, val : Int, usable : BOOLEAN]

ASSUME ProfileAssumption ==
  /\ Cpu \subseteq Nat
  /\ 0 \in Cpu
  /\ NCpu \in Nat \ {0}
  /\ PolicyOf \in [Cpu -> Policy]
  /\ HwMin \in [Policy -> Nat]
  /\ HwMax \in [Policy -> Nat]
  /\ \A k \in Policy : HwMin[k] <= HwMax[k]
  /\ Gov \cup {"cut"} \subseteq Word
  /\ CpuKeys \subseteq Key
  /\ Attrs \in Seq(Key \ CpuKeys)
  /\ \A i, j \in DOMAIN Attrs : Attrs[i] = Attrs[j] => i = j
  /\ Lacking \subseteq Key \ (CpuKeys \cup Attr)
  /\ Devices \subseteq SUBSET Attr /\ Words \subseteq Attr
  /\ Accepts \in [Attr -> SUBSET Nat]
  /\ IntMod \in Nat \ {0}
  /\ \A a \in IntKeys : Accepts[a] \subseteq Ints
  /\ UserDocs \subseteq Seq(Line)
  /\ MaxOther \in Nat
  /\ MaxLoads \in Nat

VARIABLES
  gov, smin, smax,  \* governor and scaling bounds (kHz) of each policy
  attr,             \* value of each memory or storage attribute
  present,          \* attributes whose file is there: devices may go
  exists,           \* which of the "user" and "system" files exist
  doc,              \* their entries
  spc,              \* the saver: "idle", "read", "done" or "killed"
  out,              \* entries the saver has printed, flushed or not
  si,               \* index in Keys of the next attribute the saver reads
  lpc,              \* the loader: "idle", "parse", "apply", "done" or "error"
  place,            \* the file it found
  kv,               \* the entries it parsed
  li, lcpu,         \* the entry and the CPU it applies next
  failures,         \* the entries that failed; load succeeds if there are none
  dpc, dplace,      \* the deleter: "idle", "unlink", "done" or "error", and its file
  others,           \* attribute writes by others so far
  loads,            \* loads so far
  snap,             \* history: the live state when the save opened the file
  sdist,            \* history: keys others wrote while the save was reading
  ldist,            \* history: keys others wrote or unplugged since the load began
  again             \* history: this load repeats the last one, which nothing disturbed

live == <<gov, smin, smax, attr, present>>
files == <<exists, doc>>
saver == <<spc, out, si, snap, sdist>>
loader == <<lpc, place, kv, li, lcpu, failures, loads, ldist, again>>
deleter == <<dpc, dplace>>
vars == <<live, files, saver, loader, deleter, others>>

Entry(k, v) == [key |-> k, val |-> v, usable |-> TRUE]

(* The live state as one value, for the history variables. *)
LiveState == [gov |-> gov, smin |-> smin, smax |-> smax, attr |-> attr]

TypeOK ==
  /\ gov \in [Policy -> Gov]
  /\ smin \in [Policy -> Nat] /\ smax \in [Policy -> Nat]
  /\ attr \in [Attr -> Nat] /\ \A a \in Attr : attr[a] \in Accepts[a]
  /\ present \subseteq Attr /\ Attr \ Storage \subseteq present
  /\ exists \subseteq {"user", "system"}
  /\ spc \in {"idle", "read", "done", "killed"}
  /\ si \in 1 .. Len(Keys) + 1
  /\ lpc \in {"idle", "parse", "apply", "done", "error"}
  /\ place \in {"user", "system"}
  /\ li \in 1 .. Len(kv) + 1
  /\ lcpu \in 0 .. NCpu - 1
  /\ failures \subseteq 1 .. Len(kv)
  /\ dpc \in {"idle", "unlink", "done", "error"}
  /\ dplace \in {"user", "system"}
  /\ others \in 0 .. MaxOther
  /\ loads \in 0 .. MaxLoads
-----------------------------------------------------------------------------
Init ==
  /\ gov \in [Policy -> Gov]
  /\ smin \in [Policy -> UNION {HwMin[k] .. HwMax[k] : k \in Policy}]
  /\ smax \in [Policy -> UNION {HwMin[k] .. HwMax[k] : k \in Policy}]
  /\ \A k \in Policy : HwMin[k] <= smin[k] /\ smin[k] <= smax[k] /\ smax[k] <= HwMax[k]
  /\ attr \in {v \in [Attr -> UNION {Accepts[a] : a \in Attr}] : \A a \in Attr : v[a] \in Accepts[a]}
  /\ \E D \in SUBSET Devices : present = Attr \ UNION D
  /\ \E u \in UserDocs \cup {<<>>} :
       /\ doc = [f \in {"user", "system"} |-> IF f = "user" THEN u ELSE <<>>]
       /\ exists = IF u = <<>> THEN {} ELSE {"user"}
  /\ spc = "idle" /\ out = <<>> /\ si = 1
  /\ snap = LiveState /\ sdist = {}
  /\ lpc = "idle" /\ place = "user" /\ kv = <<>> /\ li = 1 /\ lcpu = 0
  /\ failures = {} /\ loads = 0 /\ ldist = {} /\ again = FALSE
  /\ dpc = "idle" /\ dplace = "user"
  /\ others = 0

(* Somebody else wrote the keys K (or took their device away): the histories. *)
Disturb(K) ==
  /\ sdist' = IF spc = "read" THEN sdist \cup K ELSE sdist
  /\ ldist' = ldist \cup K
  /\ again' = FALSE

-----------------------------------------------------------------------------
(* profile_save_cmd and profile_write up to fopen(path, "w"), which creates *)
(* or truncates the system file: save always runs as root.                  *)
SaveOpen ==
  /\ spc = "idle"
  /\ spc' = "read"
  /\ exists' = exists \cup {"system"}
  /\ doc' = [doc EXCEPT !["system"] = <<>>]
  /\ out' = <<>> /\ si' = 1
  /\ snap' = LiveState /\ sdist' = {}
  /\ UNCHANGED <<live, loader, deleter, others>>

(* save_cpu reads CPU 0 only, and the kernel's kHz become Hz. *)
SavedValue_khz(k) ==
  LET p == PolicyOf[0] IN
  CASE k = "governor"    -> gov[p]
    [] k = "freq_min_hz" -> smin[p] * 1000
    [] k = "freq_max_hz" -> smax[p]
    [] OTHER             -> attr[k]

SavedValue_maxtwice(k) ==
  LET p == PolicyOf[0] IN
  CASE k = "governor"    -> gov[p]
    [] k = "freq_min_hz" -> smax[p] * 1000
    [] k = "freq_max_hz" -> smax[p] * 1000
    [] OTHER             -> attr[k]

SavedValue(k) ==
  LET p == PolicyOf[0] IN
  CASE k = "governor"    -> gov[p]
    [] k = "freq_min_hz" -> smin[p] * 1000
    [] k = "freq_max_hz" -> smax[p] * 1000
    [] OTHER             -> attr[k]

(* Read the next attribute and print it; one that cannot be read is left out. *)
SaveRead ==
  /\ spc = "read"
  /\ si <= Len(Keys)
  /\ out' = IF Keys[si] \in Attr \ present THEN out
            ELSE Append(out, Entry(Keys[si], SavedValue(Keys[si])))
  /\ si' = si + 1
  /\ UNCHANGED <<live, files, spc, snap, sdist, loader, deleter, others>>

(* What toml_parse makes of a line that is cut in its value: the number     *)
(* that the digits so far spell, or the part of a word, as a missing quote  *)
(* does not matter.  No governor and no scheduler is named by a part of a   *)
(* word (-1 in the model), and thp skips it.                                *)
Cut(e) ==
  CASE e.key = "governor" -> [e EXCEPT !.val = "cut"]
    [] e.key \in Words    -> [e EXCEPT !.val = -1, !.usable = e.key \in Storage]
    [] OTHER              -> [e EXCEPT !.val = @ \div 10, !.usable = e.val >= 10]

(* A line may also be cut right after its "=".  One that is cut before is   *)
(* skipped, as if it had not been written.                                  *)
Torn(e) == {Cut(e), [e EXCEPT !.usable = FALSE]}

(* The stdio buffer is full while a line is printed: the file gets all      *)
(* lines before it, and perhaps a piece of it.  If the file has been        *)
(* unlinked meanwhile, nobody sees it.                                      *)
SaveFlush ==
  LET n == Len(out) - 1 IN
  /\ spc = "read"
  /\ "system" \in exists
  /\ Len(doc["system"]) <= n
  /\ \E tail \in {<<>>} \cup {<<t>> : t \in Torn(out[n + 1])} :
       doc' = [doc EXCEPT !["system"] = SubSeq(out, 1, n) \o tail]
  /\ UNCHANGED <<live, exists, saver, loader, deleter, others>>

(* fclose writes the rest.  *)
SaveClose ==
  /\ spc = "read"
  /\ si > Len(Keys)
  /\ spc' = "done"
  /\ doc' = [doc EXCEPT !["system"] = IF "system" \in exists THEN out ELSE @]
  /\ UNCHANGED <<live, exists, out, si, snap, sdist, loader, deleter, others>>

(* The disk is full: the rest is lost, but the result of fclose is not      *)
(* looked at and save reports success all the same.                         *)
SaveCloseNoSpace ==
  /\ spc = "read"
  /\ si > Len(Keys)
  /\ spc' = "done"
  /\ UNCHANGED <<live, files, out, si, snap, sdist, loader, deleter, others>>

(* The process is killed or the machine stops: the buffer is lost, and with *)
(* it what the process had read; only the file remains of it.               *)
SaveKilled ==
  /\ spc = "read"
  /\ spc' = "killed" /\ out' = <<>> /\ si' = 1
  /\ snap' = LiveState /\ sdist' = {}
  /\ UNCHANGED <<live, files, loader, deleter, others>>

-----------------------------------------------------------------------------
(* profile_load_cmd up to the choice of the file: the user's first. *)
LoadFind ==
  /\ lpc \in {"idle", "done", "error"}
  /\ loads < MaxLoads
  /\ loads' = loads + 1
  /\ \/ /\ exists # {}
        /\ place' = IF "user" \in exists THEN "user" ELSE "system"
        /\ lpc' = "parse"
     \/ /\ exists = {}
        /\ lpc' = "error"
        /\ UNCHANGED place
  /\ again' = (lpc = "done" /\ ldist = {})
  /\ ldist' = {}
  /\ UNCHANGED <<live, files, saver, deleter, others, kv, li, lcpu, failures>>

(* toml_parse: the file may be gone by now. *)
LoadParse ==
  /\ lpc = "parse"
  /\ \/ /\ place \in exists
        /\ kv' = doc[place]
        /\ again' = (again /\ doc[place] = kv)
        /\ li' = 1 /\ lcpu' = 0 /\ failures' = {}
        /\ lpc' = "apply"
     \/ /\ place \notin exists
        /\ lpc' = "error"
        /\ UNCHANGED <<kv, li, lcpu, failures, again>>
  /\ UNCHANGED <<live, files, saver, deleter, others, place, loads, ldist>>

(* zenctl_cpu_set_freq_min and _max on policy k, as CpuFreqAtomic has them. *)
CanTakeMin(k, khz) == khz \in HwMin[k] .. HwMax[k] /\ khz <= smax[k]

CanTakeMax_strict(k, khz) == khz \in HwMin[k] .. HwMax[k] /\ khz > smin[k]

CanTakeMax(k, khz) == khz \in HwMin[k] .. HwMax[k] /\ khz >= smin[k]

(* Whether the set that load makes for a [cpu] entry on CPU c succeeds now. *)
Applies(e, c) ==
  LET k == PolicyOf[c] IN
  CASE e.key = "governor"    -> e.val \in Gov
    [] e.key = "freq_min_hz" -> CanTakeMin(k, e.val \div 1000)
    [] e.key = "freq_max_hz" -> CanTakeMax(k, e.val \div 1000)

(* The effect of the set on the live state. *)
SetCpu(e, k) ==
  /\ gov'  = IF e.key = "governor"    THEN [gov EXCEPT ![k] = e.val] ELSE gov
  /\ smin' = IF e.key = "freq_min_hz" THEN [smin EXCEPT ![k] = e.val \div 1000] ELSE smin
  /\ smax' = IF e.key = "freq_max_hz" THEN [smax EXCEPT ![k] = e.val \div 1000] ELSE smax

(* The loop of load_cpu_kv goes on after a CPU that failed. *)
NextCpu_nowrap ==
  /\ lcpu' = lcpu + 1
  /\ li' = IF lcpu = NCpu - 1 THEN li + 1 ELSE li

NextCpu ==
  /\ lcpu' = (lcpu + 1) % NCpu
  /\ li' = IF lcpu = NCpu - 1 THEN li + 1 ELSE li

(* rc stays -1 once a CPU has failed, and profile_apply counts the entry. *)
CountFailure_forgotten == UNCHANGED failures

CountFailure == failures' = failures \cup {li}

(* What profile_apply passes over, with nothing to count: a key or section  *)
(* nobody knows, a value that is not what the key asks for, and a device    *)
(* that is gone.                                                            *)
Skipped(e) ==
  \/ e.key \notin CpuKeys \cup Attr \cup Lacking
  \/ ~e.usable
  \/ e.key \in Storage \ present

ApplySkip ==
  /\ lpc = "apply"
  /\ li <= Len(kv)
  /\ Skipped(kv[li])
  /\ li' = li + 1
  /\ UNCHANGED <<live, files, saver, deleter, others, lpc, place, kv, lcpu, failures,
                 loads, ldist, again>>

(* profile_apply on a [cpu] entry, and load_cpu_kv on one CPU: a number     *)
(* that zenctl_cpu_open does not find is passed over.                       *)
ApplyCpu ==
  /\ lpc = "apply"
  /\ li <= Len(kv)
  /\ ~Skipped(kv[li]) /\ kv[li].key \in CpuKeys
  /\ \/ /\ lcpu \notin Cpu
        /\ UNCHANGED <<gov, smin, smax, sdist, failures>>
     \/ /\ lcpu \in Cpu /\ Applies(kv[li], lcpu)
        /\ SetCpu(kv[li], PolicyOf[lcpu])
        /\ sdist' = IF spc = "read" THEN sdist \cup {kv[li].key} ELSE sdist
        /\ UNCHANGED failures
     \/ /\ lcpu \in Cpu /\ ~Applies(kv[li], lcpu)
        /\ CountFailure
        /\ UNCHANGED <<gov, smin, smax, sdist>>
  /\ NextCpu
  /\ UNCHANGED <<attr, present, files, spc, out, si, snap, deleter, others,
                 lpc, place, kv, loads, ldist, again>>

(* What reaches the setter of a [memory] or [storage] key: load_memory_kv   *)
(* casts its numbers to int.                                                *)
Sent(e) ==
  IF e.key \in IntKeys /\ e.val \notin Ints
  THEN ((e.val + IntMod \div 2) % IntMod) - IntMod \div 2
  ELSE e.val

(* The setter and the kernel take it: the file is there, the value is in    *)
(* range and a scheduler is one of the device.                              *)
Taken(e) == e.key \in Attr /\ Sent(e) \in Accepts[e.key]

(* profile_apply on any other entry: load_memory_kv and load_storage_kv. *)
ApplyOther ==
  /\ lpc = "apply"
  /\ li <= Len(kv)
  /\ ~Skipped(kv[li]) /\ kv[li].key \notin CpuKeys
  /\ \/ /\ Taken(kv[li])
        /\ attr' = [attr EXCEPT ![kv[li].key] = Sent(kv[li])]
        /\ sdist' = IF spc = "read" THEN sdist \cup {kv[li].key} ELSE sdist
        /\ UNCHANGED failures
     \/ /\ ~Taken(kv[li])
        /\ CountFailure
        /\ UNCHANGED <<attr, sdist>>
  /\ li' = li + 1
  /\ UNCHANGED <<gov, smin, smax, present, files, spc, out, si, snap, deleter, others,
                 lpc, place, kv, lcpu, loads, ldist, again>>

(* The end of profile_apply: exit status 0 if failures is empty. *)
LoadDone ==
  /\ lpc = "apply"
  /\ li > Len(kv)
  /\ lpc' = "done"
  /\ UNCHANGED <<live, files, saver, deleter, others, place, kv, li, lcpu, failures,
                 loads, ldist, again>>

-----------------------------------------------------------------------------
(* profile_delete_cmd up to the choice of the file. *)
DeleteFind ==
  /\ dpc = "idle"
  /\ \/ /\ exists # {}
        /\ dplace' = IF "user" \in exists THEN "user" ELSE "system"
        /\ dpc' = "unlink"
     \/ /\ exists = {}
        /\ dpc' = "error"
        /\ UNCHANGED dplace
  /\ UNCHANGED <<live, files, saver, loader, others>>

(* Unlink the file found; only this process unlinks, so it is still there. *)
DeleteUnlink ==
  /\ dpc = "unlink"
  /\ exists' = exists \ {dplace}
  /\ dpc' = "done"
  /\ UNCHANGED <<live, doc, saver, loader, dplace, others>>

-----------------------------------------------------------------------------
(* External: other tools, and zenctl's own "set" commands. *)
OtherSetsCpu(k) ==
  /\ others < MaxOther
  /\ others' = others + 1
  /\ \/ /\ \E g \in Gov : gov' = [gov EXCEPT ![k] = g]
        /\ Disturb({"governor"})
        /\ UNCHANGED <<smin, smax>>
     \/ /\ \E v \in HwMin[k] .. smax[k] : smin' = [smin EXCEPT ![k] = v]
        /\ Disturb({"freq_min_hz"})
        /\ UNCHANGED <<gov, smax>>
     \/ /\ \E v \in smin[k] .. HwMax[k] : smax' = [smax EXCEPT ![k] = v]
        /\ Disturb({"freq_max_hz"})
        /\ UNCHANGED <<gov, smin>>
  /\ UNCHANGED <<attr, present, files, spc, out, si, snap, deleter,
                 lpc, place, kv, li, lcpu, failures, loads>>

(* External: others write an attribute that is there. *)
OtherSetsAttr(a) ==
  /\ a \in present
  /\ others < MaxOther
  /\ others' = others + 1
  /\ \E v \in Accepts[a] : attr' = [attr EXCEPT ![a] = v]
  /\ Disturb({a})
  /\ UNCHANGED <<gov, smin, smax, present, files, spc, out, si, snap, deleter,
                 lpc, place, kv, li, lcpu, failures, loads>>

(* External: a block device goes, or comes back with values of its own. *)
DeviceGoes(d) ==
  /\ d \subseteq present
  /\ others < MaxOther
  /\ others' = others + 1
  /\ present' = present \ d
  /\ Disturb(d)
  /\ UNCHANGED <<gov, smin, smax, attr, files, spc, out, si, snap, deleter,
                 lpc, place, kv, li, lcpu, failures, loads>>

DeviceComes(d) ==
  /\ d \cap present = {}
  /\ others < MaxOther
  /\ others' = others + 1
  /\ present' = present \cup d
  /\ attr' \in {v \in [Attr -> UNION {Accepts[a] : a \in Attr}] :
                  \A a \in Attr : IF a \in d THEN v[a] \in Accepts[a] ELSE v[a] = attr[a]}
  /\ Disturb(d)
  /\ UNCHANGED <<gov, smin, smax, files, spc, out, si, snap, deleter,
                 lpc, place, kv, li, lcpu, failures, loads>>

Save == SaveOpen \/ SaveRead \/ SaveFlush \/ SaveClose \/ SaveCloseNoSpace \/ SaveKilled
Load == LoadFind \/ LoadParse \/ ApplySkip \/ ApplyCpu \/ ApplyOther \/ LoadDone
Delete == DeleteFind \/ DeleteUnlink
Other ==
  \/ \E k \in Policy : OtherSetsCpu(k)
  \/ \E a \in Attr : OtherSetsAttr(a)
  \/ \E d \in Devices : DeviceGoes(d) \/ DeviceComes(d)

Next == Save \/ Load \/ Delete \/ Other

Spec == Init /\ [][Next]_vars

-----------------------------------------------------------------------------
(* The CPUs that the loop of load_cpu_kv comes to: a CPU whose number is    *)
(* above the number of CPUs is out of its reach.                            *)
Reached == Cpu \cap (0 .. NCpu - 1)

(* Live state agrees with entry e on every CPU of the loop. *)
Holds(e) ==
  CASE e.key = "governor"    -> \A c \in Reached : gov[PolicyOf[c]] = e.val
    [] e.key = "freq_min_hz" -> \A c \in Reached : smin[PolicyOf[c]] = e.val \div 1000
    [] e.key = "freq_max_hz" -> \A c \in Reached : smax[PolicyOf[c]] = e.val \div 1000
    [] OTHER                 -> e.key \in present => attr[e.key] = Sent(e)

(* A later entry that is not skipped for its value has the same key. *)
Superseded(i) == \E j \in DOMAIN kv : i < j /\ kv[j].key = kv[i].key /\ kv[j].usable

(* profile_apply: "Returns 0 if every applicable key succeeded".  When load *)
(* reports success, every key it parsed has the value of its last usable    *)
(* entry on every CPU of its loop and on every device that is there, but    *)
(* for the keys somebody else has written since: no entry undoes that of    *)
(* another.  An entry whose value is not what its key asks for (a quoted    *)
(* number, an unknown thp word) is not applicable, and of a memory number   *)
(* that does not fit in an int the value is what the cast makes of it: load *)
(* reports success for both.                                                *)
LoadSuccessMeansApplied ==
  lpc = "done" /\ failures = {} =>
    \A i \in DOMAIN kv :
      ~kv[i].usable \/ Superseded(i) \/ kv[i].key \in ldist \/ Holds(kv[i])

(* The usable entries of the profile cover both bounds, in order, every     *)
(* policy can take them, and no setter of a [memory] or [storage] key       *)
(* refuses its value.                                                       *)
Loadable(d) ==
  LET at(k) == {i \in DOMAIN d : d[i].key = k /\ d[i].usable}
  IN  /\ \A i \in at("governor") : d[i].val \in Gov
      /\ at("freq_min_hz") # {} /\ at("freq_max_hz") # {}
      /\ \A i \in at("freq_min_hz"), j \in at("freq_max_hz") : d[i].val <= d[j].val
      /\ \A i \in at("freq_min_hz") \cup at("freq_max_hz"), k \in Policy :
           d[i].val \div 1000 \in HwMin[k] .. HwMax[k]
      /\ \A a \in Attr \cup Lacking : \A i \in at(a) : Taken(d[i])

(* load_cpu_kv replays freq_min_hz before freq_max_hz, so a load that       *)
(* raises the range fails on the minimum.  Loading the same profile again   *)
(* then always works: one retry is enough, whatever the bounds were, if no  *)
(* entry is one that its setter refuses in any state.                       *)
SecondLoadSucceeds ==
  lpc = "done" /\ again /\ Loadable(kv) => failures = {}

(* save_cpu reads the two bounds one after the other.  A profile whose      *)
(* minimum is above its maximum (which no load can apply) is written only   *)
(* if somebody wrote the bounds between the two reads.                      *)
SnapshotOrdered ==
  \A i, j \in DOMAIN out :
    /\ out[i].key = "freq_min_hz" /\ out[j].key = "freq_max_hz"
    /\ out[i].val > out[j].val
    => sdist \cap {"freq_min_hz", "freq_max_hz"} # {}

(* The load that just ended replayed a complete profile which the last save *)
(* captured, and nothing disturbed either of them.                          *)
CleanReplay ==
  /\ spc = "done" /\ sdist = {} /\ Len(out) = Len(Keys)
  /\ lpc = "done" /\ ldist = {} /\ kv = out /\ present = Attr

(* A load that reports success brings back what the save saw of CPU 0 and   *)
(* of the attributes, and gives every CPU it reaches the settings of CPU 0. *)
RoundTrip ==
  CleanReplay /\ failures = {} =>
    /\ attr = snap.attr
    /\ \A c \in Reached :
         /\ gov[PolicyOf[c]] = snap.gov[PolicyOf[0]]
         /\ smin[PolicyOf[c]] = snap.smin[PolicyOf[0]]
         /\ smax[PolicyOf[c]] = snap.smax[PolicyOf[0]]

-----------------------------------------------------------------------------
(* The files and what is read from them hold entries. *)
DataOK ==
  /\ doc \in [{"user", "system"} -> Seq(Line)]
  /\ out \in Seq(Line) /\ kv \in Seq(Line)
  /\ snap \in [gov : [Policy -> Gov], smin : [Policy -> Nat], smax : [Policy -> Nat],
               attr : [Attr -> Nat]]
  /\ \A a \in Attr : snap.attr[a] \in Accepts[a]
  /\ again \in BOOLEAN

(* The bounds of every policy are in order and in range, and were when the  *)
(* save began.                                                              *)
BoundsOrdered ==
  \A k \in Policy :
    /\ HwMin[k] <= smin[k] /\ smin[k] <= smax[k] /\ smax[k] <= HwMax[k]
    /\ snap.smin[k] <= snap.smax[k]

(* What save would have printed when it began. *)
SnapValue(k) ==
  CASE k = "governor"    -> snap.gov[PolicyOf[0]]
    [] k = "freq_min_hz" -> snap.smin[PolicyOf[0]] * 1000
    [] k = "freq_max_hz" -> snap.smax[PolicyOf[0]] * 1000
    [] OTHER             -> snap.attr[k]

(* What save reads and what it has read is what it would have read when it  *)
(* began, but for the keys in sdist.                                        *)
SavedFromSnap ==
  /\ spc = "read" => \A k \in CpuKeys \cup Attr : k \in sdist \/ SavedValue(k) = SnapValue(k)
  /\ \A i \in DOMAIN out :
       out[i].usable /\ (out[i].key \in sdist \/ out[i].val = SnapValue(out[i].key))

(* A save that left nothing out has printed the keys in order. *)
SavedInOrder ==
  /\ Len(out) < si
  /\ Len(out) = si - 1 => \A i \in DOMAIN out : out[i].key = Keys[i]

(* Entry e holds on CPU c. *)
HoldsOn(e, c) ==
  CASE e.key = "governor"    -> gov[PolicyOf[c]] = e.val
    [] e.key = "freq_min_hz" -> smin[PolicyOf[c]] = e.val \div 1000
    [] e.key = "freq_max_hz" -> smax[PolicyOf[c]] = e.val \div 1000

(* Entry i holds, or it is known why not. *)
Accounted(i) ==
  ~kv[i].usable \/ i \in failures \/ Superseded(i) \/ kv[i].key \in ldist \/ Holds(kv[i])

(* What the load has done so far: the entries behind it hold, and the one   *)
(* it is at holds on the CPUs behind it, but for failures and the keys that *)
(* others wrote.                                                            *)
AppliedSoFar ==
  lpc \in {"apply", "done"} =>
    /\ \A i \in DOMAIN kv : i < li => Accounted(i)
    /\ IF li \in DOMAIN kv /\ kv[li].key \in CpuKeys /\ kv[li].usable
       THEN \/ li \in failures \/ kv[li].key \in ldist
            \/ \A c \in Reached : c < lcpu => HoldsOn(kv[li], c)
       ELSE lcpu = 0
    /\ lpc = "done" => li = Len(kv) + 1

(* Entry i is behind the load on CPU c. *)
Behind(i, c) == i < li \/ (i = li /\ c < lcpu)

(* The bounds of policy k admit every minimum, every maximum of the entries. *)
AdmitsMins(k) ==
  \A i \in DOMAIN kv :
    kv[i].usable /\ kv[i].key = "freq_min_hz" => kv[i].val \div 1000 <= smax[k]

AdmitsMaxs(k) ==
  \A i \in DOMAIN kv :
    kv[i].usable /\ kv[i].key = "freq_max_hz" => smin[k] <= kv[i].val \div 1000

(* Whether an entry with a maximum succeeds or fails on a CPU, the policy   *)
(* then admits every minimum of a loadable profile, and the other way       *)
(* round: a second load finds nothing in its way.                           *)
RetryReady ==
  Loadable(kv) =>
    /\ lpc \in {"apply", "done"} /\ ldist = {} =>
         \A c \in Reached, i \in DOMAIN kv : kv[i].usable /\ Behind(i, c) =>
           /\ kv[i].key = "freq_max_hz" => AdmitsMins(PolicyOf[c])
           /\ kv[i].key = "freq_min_hz" => AdmitsMaxs(PolicyOf[c])
    /\ again /\ lpc \in {"parse", "apply", "done"} =>
         \A c \in Reached : AdmitsMins(PolicyOf[c]) /\ AdmitsMaxs(PolicyOf[c])
    /\ again /\ lpc \in {"apply", "done"} => failures = {}

(* The inductive invariant of the proofs. *)
IInv ==
  TypeOK /\ DataOK /\ BoundsOrdered /\ SavedFromSnap /\ SavedInOrder /\ AppliedSoFar /\ RetryReady
=============================================================================
