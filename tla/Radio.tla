-------------------------------- MODULE Radio --------------------------------
(***************************************************************************)
(* Powering radios: zenctl_bt_set_powered and zenctl_bt_get_powered         *)
(* (lib/usb/bt.c, over the HCI ioctls of bt_mgmt.c with rfkill as fallback) *)
(* and zenctl_wireless_set_rfkill_blocked and its getter (wireless.c, over  *)
(* rfkill.c).  A client opens a radio by name, sets its power and reads it  *)
(* back on the same handle; other clients do the same, and radios come and  *)
(* go.  A handle remembers a name, never a device.                          *)
(***************************************************************************)
EXTENDS Naturals, FiniteSets, FiniteSetsExt

CONSTANTS
  Proc,        \* the clients
  Bluetooth,   \* Bluetooth controllers
  Wlan,        \* Wi-Fi radios
  NoDev,       \* no device
  MaxRegs,     \* bound on the rfkill switches ever registered
  MaxUnplugs   \* bound on the radios that go

Dev == Bluetooth \cup Wlan

ASSUME RadioAssumption ==
  /\ Bluetooth \cap Wlan = {} /\ NoDev \notin Dev
  /\ MaxRegs \in Nat /\ MaxRegs >= 2 /\ MaxUnplugs \in Nat

VARIABLES
  hci,         \* "headers": built with the system's Bluetooth headers; "local": with
               \* the file's own ioctl numbers; "nosocket": no HCI sockets here
  admin,       \* the clients with CAP_NET_ADMIN
  plugged,     \* the devices that are there
  slot,        \* their number: hci<slot> or phy<slot>
  named,       \* the devices whose rfkill switch carries their name
  up,          \* controllers with HCI_UP
  soft,        \* the soft block of each registered switch
  owner,       \* the device each registered switch belongs to
  regs,        \* the switches registered so far: the number of the last one
  pc,
  opened,      \* the device each client opened, of which its handle knows the kind
  name,        \* the slot it remembers
  want,        \* the power it asks for
  number,      \* the rfkill switch it found
  result,      \* of its set
  got,         \* the power its get returned
  via,         \* history: what its set went through
  touched,     \* history: the device its set changed
  disturbed,   \* history: another client changed the radio it opened
  went         \* history: the clients whose radio went after they opened it

machine == <<hci, admin, named>>
devices == <<plugged, slot, up, soft, owner, regs>>
call == <<opened, name, want, number, via, touched, disturbed, went>>
vars == <<machine, devices, pc, call, result, got>>

Outcome == {"none", "ok", "enodev", "enotty", "erfkill", "enoent", "eperm"}

(* The state is well formed: only a plugged controller is up, and every     *)
(* switch belongs to a radio that is there.                                 *)
TypeOK ==
  /\ hci \in {"headers", "local", "nosocket"} /\ admin \subseteq Proc /\ named \subseteq Dev
  /\ plugged \subseteq Dev /\ slot \in [Dev -> 0..MaxRegs]
  /\ up \subseteq plugged \cap Bluetooth
  /\ regs \in 0..MaxRegs
  /\ DOMAIN soft \subseteq 1..regs /\ \A n \in DOMAIN soft : soft[n] \in BOOLEAN
  /\ DOMAIN owner = DOMAIN soft /\ \A n \in DOMAIN owner : owner[n] \in plugged
  /\ pc \in [Proc -> {"idle", "hci", "find", "any", "soft", "get_hci", "get_find",
                      "get_any", "get_soft", "done"}]
  /\ opened \in [Proc -> Dev \cup {NoDev}] /\ name \in [Proc -> 0..MaxRegs]
  /\ want \in [Proc -> BOOLEAN] /\ number \in [Proc -> 0..MaxRegs]
  /\ result \in [Proc -> Outcome] /\ got \in [Proc -> {"none", "on", "off", "error"}]
  /\ via \in [Proc -> {"none", "hci", "rfkill"}]
  /\ touched \in [Proc -> Dev \cup {NoDev}] /\ disturbed \in [Proc -> BOOLEAN]
  /\ went \subseteq Proc

(* One controller and one Wi-Fi radio are there, as hci0 and phy0, with     *)
(* switches 1 and 2.                                                        *)
Init ==
  /\ hci \in {"headers", "local", "nosocket"}
  /\ admin \in SUBSET Proc
  /\ named \in {Dev} \cup {Dev \ {w} : w \in Wlan}
  /\ \E b \in Bluetooth, w \in Wlan :
       /\ plugged = {b, w}
       /\ up \in {{}, {b}}
       /\ soft \in {[n \in 1..2 |-> n = 1 /\ blocked] : blocked \in BOOLEAN}
       /\ soft[1] => b \notin up
       /\ owner = [n \in 1..2 |-> IF n = 1 THEN b ELSE w]
  /\ slot = [d \in Dev |-> 0]
  /\ regs = 2
  /\ pc = [p \in Proc |-> "idle"]
  /\ opened = [p \in Proc |-> NoDev]
  /\ name = [p \in Proc |-> 0]
  /\ want = [p \in Proc |-> FALSE]
  /\ number = [p \in Proc |-> 0]
  /\ result = [p \in Proc |-> "none"]
  /\ got = [p \in Proc |-> "none"]
  /\ via = [p \in Proc |-> "none"]
  /\ touched = [p \in Proc |-> NoDev]
  /\ disturbed = [p \in Proc |-> FALSE]
  /\ went = {}

-----------------------------------------------------------------------------
IsBt(p) == opened[p] \in Bluetooth
Kind(d) == IF d \in Bluetooth THEN Bluetooth ELSE Wlan

(* The device of the client's kind that has its name now, if any. *)
Current(p) == {d \in plugged \cap Kind(opened[p]) : slot[d] = name[p]}

Goto(p, label) == pc' = [pc EXCEPT ![p] = label]

(* The set returns; a get on the same handle follows. *)
SetReturns(p, r) ==
  /\ result' = [result EXCEPT ![p] = r]
  /\ Goto(p, IF IsBt(p) THEN "get_hci" ELSE "get_find")

GetReturns(p, r) ==
  /\ got' = [got EXCEPT ![p] = r]
  /\ Goto(p, "done")

(* Client p changes device d by way of h. *)
Touch(p, d, h) ==
  /\ touched' = [touched EXCEPT ![p] = d]
  /\ via' = [via EXCEPT ![p] = h]
  /\ disturbed' = [q \in Proc |-> disturbed[q] \/ (q # p /\ opened[q] = d)]
  /\ UNCHANGED <<opened, name, want, number, went>>

(* A controller is asked by HCI first, a Wi-Fi radio by rfkill alone. *)
FirstStep_hci(d) == "hci"

FirstStep(d) == IF d \in Bluetooth THEN "hci" ELSE "find"

(* zenctl_bt_open, zenctl_wireless_open: the sysfs directory is there. *)
Open(p, d, on) ==
  /\ pc[p] = "idle" /\ d \in plugged
  /\ want' = [want EXCEPT ![p] = on]
  /\ opened' = [opened EXCEPT ![p] = d]
  /\ name' = [name EXCEPT ![p] = slot[d]]
  /\ Goto(p, FirstStep(d))
  /\ UNCHANGED <<machine, devices, number, via, touched, disturbed, went, result, got>>

(* The errors of the ioctl after which set_powered turns to rfkill. *)
FallsBack_always(e) == TRUE

FallsBack(e) == e = "eperm"

SwitchOf(d) == {n \in DOMAIN owner : owner[n] = d}
Blocked(d) == \E n \in SwitchOf(d) : soft[n]

(* What HCIDEVUP or HCIDEVDOWN returns.  Without the system headers the     *)
(* request number is one that the kernel does not know.                     *)
IoctlResult(p) ==
  IF hci = "local" THEN "enotty"
  ELSE IF p \notin admin THEN "eperm"
  ELSE IF Current(p) = {} THEN "enodev"
  ELSE IF want[p] /\ \E d \in Current(p) : Blocked(d) THEN "erfkill"
  ELSE "ok"

(* bt_mgmt_set_powered; that it is so already (EALREADY) is a success. *)
HciSet(p) ==
  /\ pc[p] = "hci" /\ hci # "nosocket"
  /\ LET e == IoctlResult(p)
     IN  \/ /\ e = "ok"
            /\ \E d \in Current(p) :
                 /\ up' = IF want[p] THEN up \cup {d} ELSE up \ {d}
                 /\ Touch(p, d, "hci")
            /\ SetReturns(p, "ok")
         \/ /\ e # "ok" /\ ~FallsBack(e)
            /\ SetReturns(p, e)
            /\ UNCHANGED <<up, call>>
         \/ /\ e # "ok" /\ FallsBack(e)
            /\ Goto(p, "find")
            /\ UNCHANGED <<up, call, result>>
  /\ UNCHANGED <<machine, plugged, slot, soft, owner, regs, got>>

(* No HCI socket: straight to rfkill. *)
HciNoSocket(p) ==
  /\ pc[p] \in {"hci", "get_hci"} /\ hci = "nosocket"
  /\ Goto(p, IF pc[p] = "hci" THEN "find" ELSE "get_find")
  /\ UNCHANGED <<machine, devices, call, result, got>>

(* The switches zenctl_rfkill_find may return for a name and a type. *)
rfkill_find_typeonly(p) == {n \in DOMAIN owner : owner[n] \in Kind(opened[p])}

rfkill_find(p) ==
  {n \in DOMAIN owner : owner[n] \in named /\ owner[n] \in Current(p)}

(* The fallback of wireless.c: the first switch of type wlan. *)
rfkill_find_any(p) == {n \in DOMAIN owner : owner[n] \in Wlan}

Found(p, n, next) ==
  /\ number' = [number EXCEPT ![p] = n]
  /\ Goto(p, next)
  /\ UNCHANGED <<opened, name, want, via, touched, disturbed, went, result, got>>

(* The switch is looked up by name and type, in the set and in the get. *)
Find(p) ==
  /\ pc[p] \in {"find", "get_find"}
  /\ LET setting == pc[p] = "find"
     IN  \/ \E n \in rfkill_find(p) : Found(p, n, IF setting THEN "soft" ELSE "get_soft")
         \/ /\ rfkill_find(p) = {} /\ ~IsBt(p)
            /\ Goto(p, IF setting THEN "any" ELSE "get_any")
            /\ UNCHANGED <<call, result, got>>
         \/ /\ rfkill_find(p) = {} /\ IsBt(p)
            /\ IF setting THEN SetReturns(p, "enoent") /\ UNCHANGED got
               ELSE GetReturns(p, "error") /\ UNCHANGED result
            /\ UNCHANGED call
  /\ UNCHANGED <<machine, devices>>

FindAny(p) ==
  /\ pc[p] \in {"any", "get_any"}
  /\ LET setting == pc[p] = "any"
     IN  \/ \E n \in rfkill_find_any(p) : Found(p, n, IF setting THEN "soft" ELSE "get_soft")
         \/ /\ rfkill_find_any(p) = {}
            /\ IF setting THEN SetReturns(p, "enoent") /\ UNCHANGED got
               ELSE GetReturns(p, "error") /\ UNCHANGED result
            /\ UNCHANGED call
  /\ UNCHANGED <<machine, devices>>

(* The block that asks for a power. *)
BlockFor_same(on) == on

BlockFor(on) == ~on

(* zenctl_rfkill_set_soft.  Blocking a controller also takes it down;       *)
(* unblocking it does not bring it up.                                      *)
SetSoft(p) ==
  /\ pc[p] = "soft"
  /\ LET n == number[p]
     IN  \/ /\ n \in DOMAIN soft
            /\ soft' = [soft EXCEPT ![n] = BlockFor(want[p])]
            /\ up' = IF BlockFor(want[p]) THEN up \ {owner[n]} ELSE up
            /\ Touch(p, owner[n], "rfkill")
            /\ SetReturns(p, "ok")
         \/ /\ SetReturns(p, IF n \in DOMAIN soft THEN "eperm" ELSE "enoent")
            /\ UNCHANGED <<soft, up, call>>
  /\ UNCHANGED <<machine, plugged, slot, owner, regs, got>>

(* bt_mgmt_get_powered: HCIGETDEVINFO needs no privilege; the request       *)
(* number is right in both builds.  ENODEV falls back to rfkill.            *)
HciGet(p) ==
  /\ pc[p] = "get_hci" /\ hci # "nosocket"
  /\ \/ \E d \in Current(p) : GetReturns(p, IF d \in up THEN "on" ELSE "off")
     \/ /\ Current(p) = {}
        /\ Goto(p, "get_find")
        /\ UNCHANGED got
  /\ UNCHANGED <<machine, devices, call, result>>

(* What the getters of both domains make of the soft block. *)
PowerOf_raw(blocked) == IF blocked THEN "on" ELSE "off"

PowerOf(blocked) == IF blocked THEN "off" ELSE "on"

GetSoft(p) ==
  /\ pc[p] = "get_soft"
  /\ GetReturns(p, IF number[p] \in DOMAIN soft THEN PowerOf(soft[number[p]]) ELSE "error")
  /\ UNCHANGED <<machine, devices, call, result>>

-----------------------------------------------------------------------------
(* A radio goes, with its switch. *)
Unplug(d) ==
  /\ d \in plugged /\ regs - Cardinality(plugged) < MaxUnplugs
  /\ plugged' = plugged \ {d}
  /\ up' = up \ {d}
  /\ soft' = [n \in DOMAIN soft \ SwitchOf(d) |-> soft[n]]
  /\ owner' = [n \in DOMAIN soft \ SwitchOf(d) |-> owner[n]]
  /\ slot' = [slot EXCEPT ![d] = 0]
  /\ went' = went \cup {q \in Proc : opened[q] = d}
  /\ UNCHANGED <<machine, regs, pc, opened, name, want, number, via, touched, disturbed>>
  /\ UNCHANGED <<result, got>>

(* A radio comes: a controller takes the lowest free hci number, a phy and  *)
(* a switch each take a number that was never used before.  The switch is   *)
(* not blocked, which is the default of rfkill.                             *)
Plug(d) ==
  LET n == regs + 1
      lowest == Min(0..MaxRegs \ {slot[e] : e \in plugged \cap Bluetooth})
  IN  /\ d \notin plugged /\ n <= MaxRegs
      /\ plugged' = plugged \cup {d}
      /\ slot' = [slot EXCEPT ![d] = IF d \in Bluetooth THEN lowest ELSE regs]
      /\ soft' = [m \in DOMAIN soft \cup {n} |-> IF m = n THEN FALSE ELSE soft[m]]
      /\ owner' = [m \in DOMAIN soft \cup {n} |-> IF m = n THEN d ELSE owner[m]]
      /\ regs' = n
      /\ UNCHANGED <<machine, up, pc, call, result, got>>

Next ==
  \/ \E p \in Proc :
       \/ \E d \in Dev, on \in BOOLEAN : Open(p, d, on)
       \/ HciSet(p) \/ HciNoSocket(p) \/ Find(p) \/ FindAny(p) \/ SetSoft(p)
       \/ HciGet(p) \/ GetSoft(p)
  \/ \E d \in Dev : Unplug(d) \/ Plug(d)

Spec == Init /\ [][Next]_vars

-----------------------------------------------------------------------------
(* The set returned 0, and since p opened it nobody else changed its radio, *)
(* which is still there.                                                    *)
Undisturbed(p) == result[p] = "ok" /\ ~disturbed[p] /\ p \notin went

(* bt set power off that returned 0 has the controller down, whether it     *)
(* went through HCI or through rfkill and in either build.                  *)
OffIsOff == \A p \in Proc : IsBt(p) /\ Undisturbed(p) /\ ~want[p] => opened[p] \notin up

(* bt set power on that returned 0 has the controller up for a client that  *)
(* may use the HCI ioctls: only a lack of privilege makes it settle for     *)
(* lifting the block, and a block makes the call fail (ERFKILL).            *)
OnIsUp ==
  \A p \in Proc :
    IsBt(p) /\ Undisturbed(p) /\ want[p] /\ p \in admin /\ hci # "nosocket" => opened[p] \in up

(* A set changes the radio that was opened, whatever other clients do to it *)
(* meanwhile.  Only when that radio went since, or when its switch does not *)
(* carry its name, may the change hit another: the radio that has the name  *)
(* now, or any Wi-Fi radio at all.                                          *)
RightDevice ==
  \A p \in Proc :
    touched[p] \notin {NoDev, opened[p]} => p \in went \/ opened[p] \notin named

(* A handle reads back the power it set, unless an "on" without privilege   *)
(* lifted the block of a controller that stays down.                        *)
ReadBack ==
  \A p \in Proc :
    /\ Undisturbed(p) /\ opened[p] \in named
    /\ ~(IsBt(p) /\ hci # "nosocket" /\ want[p] /\ via[p] = "rfkill")
    => got[p] \in {"none", IF want[p] THEN "on" ELSE "off"}

-----------------------------------------------------------------------------
(* Every radio that is there has one switch of its own. *)
OneSwitchEach ==
  /\ \A m, n \in DOMAIN owner : owner[m] = owner[n] => m = n
  /\ \A d \in plugged : \E n \in DOMAIN owner : owner[n] = d

(* Two radios of a kind do not have the same number, and the numbers of     *)
(* Wi-Fi radios are below the one that the next will get.                   *)
SlotsUnique ==
  /\ \A d, e \in plugged : Kind(d) = Kind(e) /\ slot[d] = slot[e] => d = e
  /\ \A d \in plugged \cap Wlan : slot[d] < regs

(* A client that has not returned from its set has changed nothing. *)
NothingYet ==
  \A p \in Proc :
    /\ pc[p] \in {"idle", "hci", "find", "any", "soft"}
         => result[p] = "none" /\ touched[p] = NoDev /\ via[p] = "none"
    /\ pc[p] # "done" => got[p] = "none"
    /\ IF pc[p] = "idle" THEN opened[p] = NoDev ELSE opened[p] \in Dev

(* The name a client remembers is still that of the radio it opened, as     *)
(* long as that has not gone.                                               *)
NameHolds ==
  \A p \in Proc :
    pc[p] # "idle" /\ p \notin went => opened[p] \in plugged /\ slot[opened[p]] = name[p]

(* A client finds the switch of the radio it opened, if that has not gone   *)
(* and carries the name; those of controllers do.                           *)
SwitchHolds ==
  /\ Bluetooth \subseteq named
  /\ \A p \in Proc : p \notin went /\ opened[p] \in named =>
       /\ pc[p] \notin {"any", "get_any"}
       /\ pc[p] \in {"soft", "get_soft"}
            => number[p] \in DOMAIN owner /\ owner[number[p]] = opened[p]

(* Who takes which way: only a controller is asked by HCI, and only without *)
(* privilege or without sockets by rfkill.                                  *)
Ways ==
  \A p \in Proc :
    /\ ~IsBt(p) => pc[p] \notin {"hci", "get_hci"}
    /\ IsBt(p) /\ pc[p] \in {"find", "any", "soft"} => p \notin admin \/ hci = "nosocket"
    /\ IsBt(p) /\ pc[p] \in {"get_find", "get_any", "get_soft"} => p \in went \/ hci = "nosocket"
    /\ via[p] = "hci" => IsBt(p) /\ hci # "nosocket"
    /\ via[p] = "rfkill" /\ IsBt(p) => p \notin admin \/ hci = "nosocket"
    /\ result[p] = "ok" => via[p] # "none"

(* What the set of an undisturbed client did is still so. *)
EffectHolds ==
  \A p \in Proc : Undisturbed(p) =>
    /\ via[p] = "hci" => (opened[p] \in up <=> want[p])
    /\ via[p] = "rfkill" /\ opened[p] \in named =>
         /\ \A n \in DOMAIN owner : owner[n] = opened[p] => (soft[n] <=> ~want[p])
         /\ ~want[p] => opened[p] \notin up

(* The inductive invariant of the proofs. *)
IInv ==
  /\ TypeOK
  /\ OneSwitchEach
  /\ SlotsUnique
  /\ NothingYet
  /\ NameHolds
  /\ SwitchHolds
  /\ Ways
  /\ EffectHolds
  /\ RightDevice
  /\ ReadBack
=============================================================================
