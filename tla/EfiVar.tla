------------------------------- MODULE EfiVar -------------------------------
(***************************************************************************)
(* zenctl_fw_efi_set and zenctl_fw_efi_delete (lib/firmware/firmware.c) on   *)
(* one variable of efivarfs, called by several processes that may be killed  *)
(* anywhere.  A vendor variable's file carries FS_IMMUTABLE_FL; both calls   *)
(* clear the flag, write, and put the flag back; that last step may fail,    *)
(* and then nobody is told.                                                  *)
(***************************************************************************)
EXTENDS Naturals, Processes

CONSTANTS
  Data,       \* the payloads they write
  Empty,      \* the payload of a file that was created and not written
  Immutable   \* whether the kernel creates this variable's file immutable

ASSUME EfiVarAssumption == Immutable \in BOOLEAN /\ Empty \notin Data

VARIABLES
  exists,     \* the variable's file is there
  data,       \* its payload
  flag,       \* FS_IMMUTABLE_FL of the file
  op,         \* "set" or "delete"
  val,        \* the payload a set writes
  was_cleared,\* the local of that name: this call cleared the flag
  err,        \* why the call failed, "none" if it has not
  abandoned,  \* history: since the flag was last set, a call that had cleared it
              \* was killed or could not put it back
  touched     \* history: processes for which another one changed the file since they began

file == <<exists, data, flag>>
efi_vars == <<exists, data, flag, pc, op, val, was_cleared, err, abandoned, touched>>

Working == {"getflags", "clear", "open", "write", "stat", "unlink", "regetflags", "restore"}

EfiTypeOK ==
  /\ exists \in BOOLEAN
  /\ data \in Data \cup {Empty}
  /\ flag \in BOOLEAN
  /\ pc \in [Proc -> Working \cup {"idle", "done", "killed"}]
  /\ op \in [Proc -> {"set", "delete"}]
  /\ val \in [Proc -> Data]
  /\ was_cleared \in [Proc -> BOOLEAN]
  /\ err \in [Proc -> {"none", "noent", "perm", "flags", "io"}]
  /\ abandoned \in BOOLEAN
  /\ touched \subseteq Proc

EfiInit ==
  /\ exists \in BOOLEAN
  /\ data \in Data
  /\ flag = Immutable
  /\ pc = [p \in Proc |-> "idle"]
  /\ op \in [Proc -> {"set", "delete"}]
  /\ val \in [Proc -> Data]
  /\ was_cleared = [p \in Proc |-> FALSE]
  /\ err = [p \in Proc |-> "none"]
  /\ abandoned = FALSE
  /\ touched = {}

-----------------------------------------------------------------------------
(* Process p changed the file: everybody else has been interfered with. *)
Touch(p) == touched' = touched \cup {q \in Proc \ {p} : pc[q] # "idle"}

(* The call ends, or goes on to put the flag back: set does so whenever it  *)
(* cleared it, delete only if the deletion failed.                          *)
Leave_setfails(p, e) ==
  /\ err' = [err EXCEPT ![p] = e]
  /\ Goto(p, IF was_cleared[p] /\ op[p] = "set" /\ e = "none" THEN "regetflags" ELSE "done")

Leave(p, e) ==
  /\ err' = [err EXCEPT ![p] = e]
  /\ Goto(p, IF was_cleared[p] /\ (op[p] = "set" \/ e # "none") THEN "regetflags" ELSE "done")

(* A call with valid arguments, efivarfs mounted. *)
EfiStart(p) ==
  /\ pc[p] = "idle"
  /\ Goto(p, "getflags")
  /\ UNCHANGED <<file, op, val, was_cleared, err, abandoned, touched>>

(* efi_maybe_clear_immutable reads the flags; fs_get_flags fails when the   *)
(* file cannot be opened or its flags cannot be read.  A file system that   *)
(* has no such flags is the case Immutable = FALSE.                         *)
GetFlags_skip(p) ==
  /\ pc[p] = "getflags"
  /\ Goto(p, "open")
  /\ UNCHANGED <<file, op, val, was_cleared, err, abandoned, touched>>

GetFlags(p) ==
  /\ pc[p] = "getflags"
  /\ \/ /\ err' = [err EXCEPT ![p] = IF exists THEN "flags" ELSE "noent"]
        /\ Goto(p, "done")
     \/ /\ exists
        /\ Goto(p, IF flag THEN "clear" ELSE "open")
        /\ UNCHANGED err
  /\ UNCHANGED <<file, op, val, was_cleared, abandoned, touched>>

(* fs_set_flags opens the file again and writes the flags read before.  It  *)
(* fails when the file is gone, and where the caller may not set flags.     *)
ClearFlag(p) ==
  /\ pc[p] = "clear"
  /\ \/ /\ err' = [err EXCEPT ![p] = IF exists THEN "flags" ELSE "noent"]
        /\ Goto(p, "done")
        /\ UNCHANGED <<flag, was_cleared, touched>>
     \/ /\ exists
        /\ flag' = FALSE
        /\ was_cleared' = [was_cleared EXCEPT ![p] = TRUE]
        /\ Touch(p)
        /\ Goto(p, "open")
        /\ UNCHANGED err
  /\ UNCHANGED <<exists, data, op, val, abandoned>>

(* write_binary opens with O_CREAT and O_TRUNC: an immutable file refuses   *)
(* (EPERM), others may fail too.                                            *)
WriteRefused(p) ==
  /\ pc[p] = "open"
  /\ Leave(p, IF exists /\ flag THEN "perm" ELSE "io")
  /\ UNCHANGED <<file, op, val, was_cleared, abandoned, touched>>

(* A missing file is created, empty and with the kernel's own choice of     *)
(* flag; truncating one that is there does not reach the firmware.          *)
WriteOpen(p) ==
  /\ pc[p] = "open"
  /\ ~(exists /\ flag)
  /\ Goto(p, "write")
  /\ IF exists THEN UNCHANGED <<file, abandoned, touched>>
     ELSE /\ exists' = TRUE /\ data' = Empty /\ flag' = Immutable
          /\ abandoned' = FALSE
          /\ Touch(p)
  /\ UNCHANGED <<op, val, was_cleared, err>>

(* External: firmware turns the write down, and a file that was created for *)
(* it stays.                                                                *)
WriteFails(p) ==
  /\ pc[p] = "write"
  /\ Leave(p, "io")
  /\ UNCHANGED <<file, op, val, was_cleared, abandoned, touched>>

(* The descriptor is good whatever has become of the flag; if the file was  *)
(* unlinked meanwhile, no name leads to what is written.  Then close, which *)
(* may fail.                                                                *)
WriteSet(p) ==
  /\ pc[p] = "write"
  /\ op[p] = "set"
  /\ data' = IF exists THEN val[p] ELSE data
  /\ Touch(p)
  /\ \E e \in {"none", "io"} : Leave(p, e)
  /\ UNCHANGED <<exists, flag, op, val, was_cleared, abandoned>>

(* Zero attributes delete the variable; with some firmware the file stays   *)
(* (external), and there is nothing to delete if it is gone already.        *)
WriteDelete(p) ==
  /\ pc[p] = "write"
  /\ op[p] = "delete"
  /\ exists' \in {FALSE, exists}
  /\ Touch(p)
  /\ \/ Goto(p, "stat") /\ UNCHANGED err
     \/ Leave(p, "io")
  /\ UNCHANGED <<data, flag, op, val, was_cleared, abandoned>>

(* Is the file still there? *)
Stat_skip(p) ==
  /\ pc[p] = "stat"
  /\ Leave(p, "none")
  /\ UNCHANGED <<file, op, val, was_cleared, abandoned, touched>>

Stat(p) ==
  /\ pc[p] = "stat"
  /\ \/ exists /\ Goto(p, "unlink") /\ UNCHANGED err
     \/ ~exists /\ Leave(p, "none")
  /\ UNCHANGED <<file, op, val, was_cleared, abandoned, touched>>

Unlink(p) ==
  /\ pc[p] = "unlink"
  /\ \/ /\ exists /\ ~flag
        /\ exists' = FALSE
        /\ Touch(p)
        /\ Leave(p, "none")
     \/ /\ Leave(p, CASE ~exists -> "noent" [] exists /\ flag -> "perm" [] OTHER -> "io")
        /\ UNCHANGED <<exists, touched>>
  /\ UNCHANGED <<data, flag, op, val, was_cleared, abandoned>>

-----------------------------------------------------------------------------
(* The file is without its flag, and the call that took it is at its end. *)
Abandon == abandoned' = (abandoned \/ (exists /\ ~flag))

(* efi_maybe_restore_immutable reads the flags again.  Both callers drop    *)
(* its result: the call ends with the error it had before, or none.         *)
RegetFlags(p) ==
  /\ pc[p] = "regetflags"
  /\ \/ Goto(p, IF exists /\ ~flag THEN "restore" ELSE "done") /\ UNCHANGED abandoned
     \/ Goto(p, "done") /\ Abandon
  /\ UNCHANGED <<file, op, val, was_cleared, err, touched>>

(* And it sets the flag, or fails to. *)
Restore(p) ==
  /\ pc[p] = "restore"
  /\ \/ /\ exists
        /\ flag' = TRUE /\ abandoned' = FALSE
        /\ Touch(p)
     \/ Abandon /\ UNCHANGED <<flag, touched>>
  /\ Goto(p, "done")
  /\ UNCHANGED <<exists, data, op, val, was_cleared, err>>

(* The process is killed between two system calls. *)
Kill(p) ==
  /\ pc[p] \in Working
  /\ Goto(p, "killed")
  /\ IF was_cleared[p] THEN Abandon ELSE UNCHANGED abandoned
  /\ UNCHANGED <<file, op, val, was_cleared, err, touched>>

Step(p) ==
  \/ EfiStart(p) \/ GetFlags(p) \/ ClearFlag(p) \/ WriteRefused(p) \/ WriteOpen(p)
  \/ WriteFails(p) \/ WriteSet(p) \/ WriteDelete(p) \/ Stat(p) \/ Unlink(p)
  \/ RegetFlags(p) \/ Restore(p) \/ Kill(p)

EfiNext == \E p \in Proc : Step(p)

EfiSpec == EfiInit /\ [][EfiNext]_efi_vars

-----------------------------------------------------------------------------
(* Process p has cleared the flag and will still put it back or delete. *)
Holds(p) == was_cleared[p] /\ pc[p] \in Working \ {"getflags", "clear"}

(* An immutable variable is left unprotected only by a call that cleared    *)
(* the flag and then was killed or failed to set it again (a failure that   *)
(* both callers ignore): while the file is mutable, such a call is still    *)
(* under way or has ended so since the flag was last set.  No interleaving  *)
(* of sets, deletes and their other failures leaves it so.                  *)
NeverLeftMutable ==
  Immutable /\ exists /\ ~flag => abandoned \/ \E p \in Proc : Holds(p)

(* Opening for the write, or the unlink, is refused with EPERM, on a file   *)
(* whose flag this call has just checked or cleared, only if another call   *)
(* put the flag back in between: a process alone never gets it.             *)
RefusedOnlyIfTouched ==
  \A p \in Proc : err[p] = "perm" => p \in touched

(* A set that reports success has stored its payload, and a delete that     *)
(* reports success has removed the variable, unless another call changed    *)
(* the file since this one began.                                           *)
SuccessIsTrue ==
  \A p \in Proc :
    pc[p] = "done" /\ err[p] = "none" /\ p \notin touched =>
      IF op[p] = "set" THEN exists /\ data = val[p] ELSE ~exists

-----------------------------------------------------------------------------
(* What a call that nobody interfered with knows at each of its steps. *)
Undisturbed ==
  \A p \in Proc :
    /\ pc[p] \in {"stat", "unlink"} => op[p] = "delete"
    /\ pc[p] \in {"regetflags", "restore"} => op[p] = "set" \/ err[p] # "none"
    /\ p \notin touched =>
         /\ pc[p] \in {"open", "write"} => exists /\ ~flag
         /\ pc[p] \in {"stat", "unlink"} => ~flag
         /\ pc[p] \in {"regetflags", "restore", "done"} /\ err[p] = "none" =>
              IF op[p] = "set" THEN exists /\ data = val[p] ELSE ~exists

(* The inductive invariant. *)
EfiIInv == EfiTypeOK /\ NeverLeftMutable /\ RefusedOnlyIfTouched /\ Undisturbed
=============================================================================
