---------------------------- MODULE BiosPassword ----------------------------
(***************************************************************************)
(* zenctl_fw_bios_set_setting (lib/firmware/firmware.c) by several          *)
(* processes on one firmware-attributes vendor.  A machine with a BIOS      *)
(* password takes a new value only while the right password is staged in    *)
(* the current_password file of its admin role.  Staging outlives the call: *)
(* the driver keeps the password until another is written or it is unloaded.*)
(***************************************************************************)
EXTENDS Naturals, Sequences, SequencesExt

CONSTANTS
  Proc,        \* the calling processes
  Role,        \* the directories under authentication/
  Admin,       \* the role the vendor driver consults for current_value
  Password,    \* the passwords callers give
  Secret,      \* the right one
  None,        \* no --password; an empty current_password
  MaxUnloads   \* bound on the unloads of the vendor driver

ASSUME BiosAssumption ==
  /\ IsFiniteSet(Role) /\ Admin \in Role
  /\ Secret \in Password /\ None \notin Password \cup Proc
  /\ MaxUnloads \in Nat

VARIABLES
  protected,   \* the firmware has a password
  order,       \* the roles as list_dir returns them: readdir order, unsorted
  accepts,     \* the <<role, password>> pairs a role takes (its length limits)
  loaded,      \* the vendor directory is there
  unloads,     \* how often the driver was unloaded
  staged,      \* current_password of each role, as the driver holds it
  setting,     \* whose value current_value is: a caller's, or None's, the first
  pc,          \* where each process is
  pw,          \* the password it was given
  role,        \* index of the next role it tries
  result,      \* "ok" or the error it returns
  disturbed    \* history: since it began, another staged a password or the driver went

machine == <<protected, order, accepts>>
vars == <<machine, loaded, unloads, staged, setting, pc, pw, role, result, disturbed>>

(* The state is well formed. *)
TypeOK ==
  /\ protected \in BOOLEAN
  /\ order \in SetToSeqs(Role)
  /\ accepts \subseteq Role \X Password
  /\ loaded \in BOOLEAN
  /\ unloads \in 0..MaxUnloads
  /\ staged \in [Role -> Password \cup {None}]
  /\ setting \in Proc \cup {None}
  /\ pc \in [Proc -> {"idle", "stage", "write", "clear", "done"}]
  /\ pw \in [Proc -> Password \cup {None}]
  /\ role \in [Proc -> 1..Len(order) + 1]
  /\ result \in [Proc -> {"none", "ok", "enotsup", "enoent", "eperm", "einval", "killed"}]
  /\ disturbed \in [Proc -> BOOLEAN]

Init ==
  /\ protected \in BOOLEAN
  /\ order \in SetToSeqs(Role)
  /\ accepts \in SUBSET (Role \X Password)
  /\ loaded = TRUE
  /\ unloads = 0
  /\ staged = [r \in Role |-> None]
  /\ setting = None
  /\ pc = [p \in Proc |-> "idle"]
  /\ pw \in [Proc -> Password \cup {None}]
  /\ role = [p \in Proc |-> 1]
  /\ result = [p \in Proc |-> "none"]
  /\ disturbed = [p \in Proc |-> FALSE]

-----------------------------------------------------------------------------
Goto(p, label) == pc' = [pc EXCEPT ![p] = label] /\ UNCHANGED result

Return(p, r) ==
  /\ pc' = [pc EXCEPT ![p] = "done"]
  /\ result' = [result EXCEPT ![p] = r]

(* fwattr_find_vendor: the vendor directory has to be there. *)
Start_unstaged(p) ==
  /\ pc[p] = "idle"
  /\ IF ~loaded THEN Return(p, "enotsup")
     ELSE Goto(p, IF pw[p] # None THEN "write" ELSE "stage")
  /\ disturbed' = [disturbed EXCEPT ![p] = FALSE]
  /\ UNCHANGED <<machine, loaded, unloads, staged, setting, pw, role>>

Start(p) ==
  /\ pc[p] = "idle"
  /\ IF ~loaded THEN Return(p, "enotsup")
     ELSE Goto(p, IF pw[p] = None THEN "write" ELSE "stage")
  /\ disturbed' = [disturbed EXCEPT ![p] = FALSE]
  /\ UNCHANGED <<machine, loaded, unloads, staged, setting, pw, role>>

(* A role takes the password if its directory is there and its length fits. *)
Takes(r, x) == loaded /\ <<r, x>> \in accepts

(* What the loop does after writing a role: stop. *)
AfterStaged_continue(p) ==
  /\ role' = [role EXCEPT ![p] = @ + 1]
  /\ UNCHANGED <<pc, result>>

AfterStaged(p) == Goto(p, "write") /\ UNCHANGED role

(* The loop over the roles: the password goes to the first that takes it. *)
Stage(p) ==
  /\ pc[p] = "stage" /\ role[p] <= Len(order)
  /\ LET r == order[role[p]]
     IN  IF Takes(r, pw[p])
         THEN /\ staged' = [staged EXCEPT ![r] = pw[p]]
              /\ disturbed' = [q \in Proc |-> disturbed[q] \/ q # p]
              /\ AfterStaged(p)
         ELSE /\ role' = [role EXCEPT ![p] = @ + 1]
              /\ UNCHANGED <<staged, disturbed, pc, result>>
  /\ UNCHANGED <<machine, loaded, unloads, setting, pw>>

(* No role took it: the value is written all the same. *)
StageNone(p) ==
  /\ pc[p] = "stage" /\ role[p] > Len(order)
  /\ Goto(p, "write")
  /\ UNCHANGED <<machine, loaded, unloads, staged, setting, pw, role, disturbed>>

(* The driver passes the staged admin password on to the firmware. *)
Authorised == ~protected \/ staged[Admin] = Secret

(* The value is written; the password is cleared only if that succeeded. *)
Write(p) ==
  /\ pc[p] = "write"
  /\ \/ ~loaded /\ Return(p, "enoent") /\ UNCHANGED setting
     \/ loaded /\ ~Authorised /\ Return(p, "eperm") /\ UNCHANGED setting
     \/ loaded /\ Return(p, "einval") /\ UNCHANGED setting  \* not a value of this setting
     \/ /\ loaded /\ Authorised
        /\ setting' = p
        /\ IF pw[p] = None THEN Return(p, "ok") ELSE Goto(p, "clear")
  /\ UNCHANGED <<machine, loaded, unloads, staged, pw, role, disturbed>>

(* zenctl__write_file_string of "": fwrite of no bytes and fclose make no   *)
(* write call, and sysfs does nothing for O_TRUNC, so the driver is not told.*)
WriteEmpty(x) == x

(* "" is written to the current_password of every role, errors ignored. *)
Clear_reports(p) ==
  /\ pc[p] = "clear"
  /\ staged' = [r \in Role |-> WriteEmpty(staged[r])]
  /\ Return(p, IF loaded THEN "ok" ELSE "enotsup")
  /\ UNCHANGED <<machine, loaded, unloads, setting, pw, role, disturbed>>

Clear(p) ==
  /\ pc[p] = "clear"
  /\ staged' = [r \in Role |-> WriteEmpty(staged[r])]
  /\ Return(p, "ok")
  /\ UNCHANGED <<machine, loaded, unloads, setting, pw, role, disturbed>>

(* The process dies between two steps. *)
Kill(p) ==
  /\ pc[p] \in {"stage", "write", "clear"}
  /\ Return(p, "killed")
  /\ UNCHANGED <<machine, loaded, unloads, staged, setting, pw, role, disturbed>>

(* The vendor driver goes, and what it held with it; it may come back. *)
Unload ==
  /\ loaded /\ unloads < MaxUnloads
  /\ loaded' = FALSE
  /\ unloads' = unloads + 1
  /\ staged' = [r \in Role |-> None]
  /\ disturbed' = [q \in Proc |-> TRUE]
  /\ UNCHANGED <<machine, setting, pc, pw, role, result>>

Load ==
  /\ ~loaded
  /\ loaded' = TRUE
  /\ UNCHANGED <<machine, unloads, staged, setting, pc, pw, role, result, disturbed>>

Next ==
  \/ \E p \in Proc :
       Start(p) \/ Stage(p) \/ StageNone(p) \/ Write(p) \/ Clear(p) \/ Kill(p)
  \/ Unload
  \/ Load

Spec == Init /\ [][Next]_vars

-----------------------------------------------------------------------------
(* The roles before r in directory order do not take x. *)
FirstFor(r, x) ==
  /\ <<r, x>> \in accepts
  /\ \A i, j \in 1..Len(order) : order[j] = r /\ i < j => <<order[i], x>> \notin accepts

(* A password is staged in one role only, the first in directory order that *)
(* takes it, whatever calls overlap, fail or die; an unload of the driver   *)
(* in the middle of the loop is the only way past an earlier role.          *)
StagedInFirstRole ==
  unloads = 0 => \A r \in Role : staged[r] # None => FirstFor(r, staged[r])

(* The firmware refuses a call that gave the right password, for which the  *)
(* admin role is the first, only if between its start and its write another *)
(* call staged its own password or the driver went: what calls before it    *)
(* left staged, in whatever role, does not stand in its way.                *)
RightPasswordWorks ==
  \A p \in Proc :
    result[p] = "eperm" /\ pw[p] = Secret /\ FirstFor(Admin, Secret) => disturbed[p]

(* A call that returns an error has not changed the setting: what goes      *)
(* wrong with the password after the value was written is not reported.     *)
ErrorMeansNotApplied ==
  \A p \in Proc : setting = p => pc[p] = "clear" \/ result[p] \in {"ok", "killed"}

(* The comment of zenctl_fw_bios_set_setting: "Clear the password file by   *)
(* writing an empty string."  A successful call that nobody disturbed       *)
(* leaves no password staged.                                               *)
PasswordCleared ==
  \A p \in Proc :
    result[p] = "ok" /\ pw[p] # None /\ ~disturbed[p] => \A r \in Role : staged[r] = None

-----------------------------------------------------------------------------
(* A call has no result before it returns. *)
NoResultYet == \A p \in Proc : pc[p] # "done" => result[p] = "none"

(* Until the first unload the driver is there, and it stays while a call is *)
(* undisturbed.                                                             *)
LoadedUnlessDisturbed ==
  /\ unloads = 0 => loaded
  /\ \A p \in Proc : pc[p] \in {"stage", "write"} /\ ~disturbed[p] => loaded

(* While the driver is there, the loop passes only roles that do not take   *)
(* the password.                                                            *)
PassedRefuse ==
  \A p \in Proc :
    /\ pc[p] = "idle" => role[p] = 1
    /\ pc[p] = "stage" /\ (unloads = 0 \/ ~disturbed[p]) =>
         \A i \in 1..Len(order) : i < role[p] => <<order[i], pw[p]>> \notin accepts

(* A caller with the right password that reaches the write undisturbed has  *)
(* it staged in the admin role.                                             *)
SecretStaged ==
  \A p \in Proc :
    pc[p] = "write" /\ pw[p] = Secret /\ FirstFor(Admin, Secret) /\ ~disturbed[p]
      => staged[Admin] = Secret

(* The inductive invariant of the proofs. *)
IInv ==
  /\ TypeOK
  /\ NoResultYet
  /\ LoadedUnlessDisturbed
  /\ PassedRefuse
  /\ SecretStaged
  /\ StagedInFirstRole
  /\ RightPasswordWorks
  /\ ErrorMeansNotApplied
=============================================================================
