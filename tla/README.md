# A verification project for Zenctl

Zenctl is a C library (`src/lib`, public headers in `src/include/zenctl`) and a
command (`src/cli`) that read and set hardware attributes of a Linux machine
through sysfs, procfs, efivarfs, ioctls and netlink. It has no daemon and no
threads: each command is a process of its own. What makes it hard is what it
shares. Every attribute is also written by other `zenctl` processes and by other
tools, devices come and go, a command is a sequence of reads and writes none of
which is atomic with the next, and a process may die between any two of them.

This directory holds TLA+ modules for the parts of the program that carry such
logic, TLC configurations that check them on small instances, and proofs of the
most important results for every value of the constants.

## Inventory

| Component | State | Operations | Hard behaviour | Correct when |
|---|---|---|---|---|
| CPU frequency bounds (`lib/cpu/cpu.c`, `cli/cmd/cpu.c`) | `scaling_min_freq`, `scaling_max_freq` of each policy | `set_freq_min`, `set_freq_max`, the CLI's loop over CPUs | check-then-act over three files; CPUs that share a policy; hotplug; gaps in the CPU numbers | bounds stay ordered and in the hardware range; exit status 0 is truthful; each set is atomic to its callers |
| Profiles (`cli/profile.c`) | two files per name, the live attributes | save, load, delete, list | replay in file order; saves that die half way; load racing save and delete | a load that succeeds has applied the file; an undisturbed profile round-trips; a failed load can be repeated |
| EFI variables (`lib/firmware/firmware.c`) | a file, its payload, its immutable flag | set, delete, get, list | clear flag / write / restore flag by several processes; death or a failing system call in between | the flag comes back unless its restorer died or failed; success is truthful; a refusal is somebody else's doing |
| Command gates (`cli/main.c`, `cli/cmd/*.c`) | flags of the command line, the user | 37 writing handlers | each handler orders root check, confirmation and `--dry-run` for itself | no write without root, under `--dry-run`, or without confirmation |
| ACPI wake sources (`lib/power/power.c`) | rows of `/proc/acpi/wakeup` | `set_wakeup` | the kernel offers only a toggle | a call that nobody raced is exact |
| Network rings (`lib/net/net.c`, `cli/cmd/net.c`) | the pair of ring sizes | `set_ring_rx`, `set_ring_tx` | read-modify-write of a pair; cast from long to int | a call that nobody raced sets its ring and keeps the other |
| nl80211 (`lib/usb/nl80211.c`) | cached family id, sockets | 2 getters, 3 setters | blocking reads without a timeout; answers that may or may not come; stale id | calls return; an error means that nothing was changed |
| BIOS settings (`lib/firmware/firmware.c`) | a setting, the password staged in each role | `bios_set` | password staged and cleared around a write; calls that overlap, fail or die | it is staged where it belongs, works unless disturbed, and does not stay |
| Bluetooth, Wi-Fi blocks (`lib/usb/bt.c`, `bt_mgmt.c`, `rfkill.c`, `wireless.c`) | HCI power, soft blocks, device numbers | power on/off, block, and their getters | fallback from one interface to another; numbers that are reused | off is off, on is up, on the radio that was named |
| USB (`lib/usb/usb.c`) | power, autosuspend, authorized, wakeup, bus address | sets, gets, reset | an address that is stale when used | the device reached is the one named |
| Batteries, suspend, runtime PM (`lib/power/power.c`) | two thresholds per battery, sleep modes | sets, gets | a battery found again by its index in every call | both calls mean the same battery |
| Memory, storage, PCIe, thermal, GPU, and the rest of CPU and network | one sysfs attribute or ioctl each | 42 pairs of set and get, 3 readings | parsing, casts to `int`, units and spellings that differ between set and get; indirections by link, number or index | what was typed is set and shown, on the device that was named |
| Core I/O, key-value API (`lib/core`) | none | read, write, key lookup | writes of no bytes | errors are reported |
| Output (`cli/output.c`), capability table | none | printing | none | out of scope |

Components interact by calls from `cli` into `lib`, and otherwise only through
the kernel's files. `profile load` replays its keys through the same setters as
the `set` commands.

## Modules

| Module | Models | Notes |
|---|---|---|
| `CpuFreq` | `cpu_set_freq` and `zenctl_cpu_set_freq_min/_max` | one step per sysfs access; several processes; hotplug |
| `CpuFreqAtomic` | what those functions promise | one atomic set per CPU |
| `CpuFreqProofs` | | invariants and refinement |
| `Profile`, `ProfileProofs` | save, load and delete of one profile name | uses a frequency set as one step, which `CpuFreqProofs` justifies |
| `EfiVar` | `zenctl_fw_efi_set`, `zenctl_fw_efi_delete` | one step per syscall; processes may be killed |
| `CliGate`, `CliGateProofs` | `main` and the gate sequence of the writing handlers | each handler is a sequence of gates, in the order of its code |
| `Wakeup` | `zenctl_power_set_wakeup` | read, then toggle |
| `NetRing` | `net_set_ring`, `zenctl_net_set_ring_rx/_tx` | ints keep a width, `IntMax` |
| `Processes` | the processes that race on one kernel object | extended by `EfiVar`, `Wakeup`, `NetRing` |
| `RaceProofs` | | proofs about the three, which share `Proc` and `pc` |
| `Nl80211`, `Nl80211Proofs` | the netlink exchanges of `nl80211.c` | the kernel's side is external |
| `BiosPassword`, `BiosPasswordProofs` | `zenctl_fw_bios_set_setting` | the vendor driver is external |
| `Radio`, `RadioProofs` | `zenctl_bt_set_powered/_get_powered`, `zenctl_wireless_set_rfkill_blocked` and its getter | HCI and rfkill; radios come and go |
| `AttrCodec` | the conversions of 47 attributes: command line, setter, getter | one operator per function, under its name |
| `Attributes`, `AttributesProofs` | a session of one set and one get of any of them | extends `AttrCodec`; which device a call reaches |
| `MC*` | instances for TLC | constants only |

The correspondence is kept close: variables and actions have the names of the
code's locals and functions where TLA+ allows it, `pc` values name the syscall a
process does next, and the `map` of `PROJECT.json` gives the lines of every
definition. Variables marked "history" record what the environment has done, so
that a property can say "unless somebody interfered"; no step of the program depends
on them.

- **CpuFreq.** `Start` parses the arguments, `Open`, `RangeCheck`, `ReadOther` and
  `Write` are the accesses of one call, `Fail` counts a failure and goes on with the
  next CPU as the CLI's loop does, `Finish` is the exit. The loop stops at the number of
  CPUs (`NCpu`), which with a gap is below the highest CPU number. The scaling files belong to
  policies, so two CPUs may share them. The kernel's own check (`KernelAccepts`) and
  hotplug are external.
- **Profile.** The saver prints one line per attribute into a stdio buffer that
  reaches the file in pieces, possibly in the middle of a value (`Cut` and `Torn` are what
  the parser makes of such a line); `SaveKilled` and `SaveCloseNoSpace` lose the rest, and what a
  killed saver knew goes with it. The
  loader finds the file, parses it at once and then applies entry by entry and CPU
  by CPU. Hz in the file, kHz in the kernel. `Key` and `Word` are the keys and the words
  that a file may have, known to `load` or not; a key may occur more than once, and
  then the last usable entry counts. An entry is `usable` if its value has the form that
  its key asks for. What `profile_apply` passes over without counting it is `ApplySkip`: an
  unknown key or section, an entry that is not usable, a device that is gone. `ApplyOther`
  sends a `[memory]` or `[storage]` value to its setter, a memory number through the cast
  to `int` (`Sent`), and counts a failure when the setter or the kernel refuses it
  (`Accepts`) or the file is not there (`Lacking`). `NCpu` is
  `sysconf(_SC_NPROCESSORS_CONF)`, a constant of its own. The values of `thp` and of a
  scheduler are numbers in the model, and -1 stands for a part of a word. That the
  kernel rounds `read_ahead_kb` down to whole pages is left out: what was saved has been
  rounded already.
- **EfiVar.** `GetFlags` and `ClearFlag` are `efi_maybe_clear_immutable`, either of which
  may fail. `write_binary` is two steps: `WriteOpen` opens with `O_CREAT`, which creates an
  empty file if another call has removed it, or `WriteRefused`; then `WriteSet` and
  `WriteDelete`, after which `close` may fail, or `WriteFails`. `Stat` and `Unlink` are the
  end of a delete. `RegetFlags` and `Restore` are `efi_maybe_restore_immutable`; they may
  fail, and as both callers drop the result the call ends as if they had not. A
  `was_cleared` call that fails restores the flag too. The history `abandoned` says that a
  call which took the flag died or failed to put it back, until somebody sets it again.
- **CliGate.** The order in which a handler tests root, `--confirm`, the prompt and
  `--dry-run` is data: one definition per handler. `Main` is `main`'s own root check.
- **Wakeup, NetRing.** A read and a write, with everything others can do in between.
- **Nl80211.** A call resolves the family id unless it is cached, sends on a new
  socket, and reads once (`nl80211_do_ack`) or until the answer ends
  (`nl80211_do_query`). A datagram carries one message. The kernel answers a request
  without `NLM_F_ACK` only with data or with an error, and `cfg80211` may be unloaded
  and loaded, which changes the id.
- **BiosPassword.** `Stage` tries the roles in directory order, `Write` writes the
  value, `Clear` is the loop at the end. What the driver holds in `staged` outlives
  the call. The history `disturbed` starts with the call: what was staged before a caller
  began is no excuse for it. `WriteEmpty` is what `zenctl__write_file_string` does with `""`: nothing,
  since `fwrite` of no bytes makes no write call.
- **Radio.** A handle has a number (`hci0`, `phy0`), never a device. `HciSet` is the
  ioctl, with the errors after which the code turns to rfkill; `Find`, `FindAny` and
  `SetSoft` are the rfkill path, each a step of its own. There are two histories: `disturbed`,
  that another client changed the radio, and `went`, that the radio went; `RightDevice`
  excuses a client by the second alone. `hci` tells three builds and
  machines apart: with the system's Bluetooth headers, with the file's own ioctl
  numbers, without HCI sockets.
- **AttrCodec, Attributes.** Texts and values are tagged pairs: a number, a word, a
  list with one word marked, a flag. `Parse`, `Encode` and `Decode` join the operators
  of `AttrCodec` into tables; `Lookup` turns the name in the handle into what the
  call opens (a battery's name, the number of a cooling device or an interrupt, a bus
  address, an hwmon directory, an NVML index), `Check` reads limits, `Write` and
  `Read` reach whatever has that name now. `Kernel`, `Kinds` and `Contents` are the
  kernel's side. The modulus of `int`, the largest `long` and the numbers that a user
  may type (`Numbers`, `Indices`) are constants. An index that the command line casts may
  arrive as another one, as a negative one, which the library refuses (`IndexOK`), or, for
  the CPU commands, as -1, which means all CPUs (`AllCpus`). A graphics card has an hwmon
  directory, or is known to NVML, or is `bare`: an NVIDIA card whose directory lacks the
  file, for which the getters ask NVML after the read has failed (`ReadNvml`). `Sorted` is the listing that `nth_battery_name`
  sorts, `Owner` the card that the NVIDIA driver gives an index.

## Runs

| Run | Checks | Instance |
|---|---|---|
| `cpu_freq` | `TypeOK`, `BoundsSound`, `RefusedOnlyIfDisturbed`, `SuccessMeansSet`, `ImplementsAtomic` | 2 processes, 2 CPUs on 2 policies with different ranges; `--cpu` 1, a missing 2 or all; frequencies below, between, inside and above the ranges |
| `profile` | `TypeOK`, `LoadSuccessMeansApplied`, `SecondLoadSucceeds`, `SnapshotOrdered`, `RoundTrip` | CPUs 0 and 2 on one policy, of which the loop reaches 0 only; a memory number and the scheduler of a disk that may go and come; one save, two loads, one delete, one write by another tool; no user's file or one of two: a range that may fail on the first load, with a number beyond `int` and a value of the wrong form, or an unknown section with a key whose file is missing and a number out of range after the cast |
| `efi_var` | `NeverLeftMutable`, `RefusedOnlyIfTouched`, `SuccessIsTrue` | 3 processes, 2 payloads |
| `cli_gate` | `WriteNeedsRoot`, `DryRunWritesNothing`, `DestructiveConfirmed`, `PreviewSucceeds` | every handler but `profile_delete_cmd`, every user and set of flags |
| `wakeup` | `AloneIsExact` | 3 processes, 2 devices, any number of calls |
| `net_ring` | `SuccessMeansSet`, `OtherRingKept` | 2 processes, a 4-bit int, sizes that fit, exceed the maximum, turn negative, wrap |
| `nl80211` | `HungMeansApplied`, `FailureMeansNotApplied`, `StaleOnlyAfterUnload`, `QueriesReturn` | 3 calls, 2 unloads |
| `bios_password` | `StagedInFirstRole`, `RightPasswordWorks`, `ErrorMeansNotApplied` | 3 calls with the right, a wrong or no password, 2 roles in either order that take any passwords, 1 unload |
| `radio` | `TypeOK`, `OffIsOff`, `OnIsUp`, `RightDevice`, `ReadBack` | 2 clients, with and without privilege; 2 controllers and 2 Wi-Fi radios, of which one each is there at first; 1 radio may go and 1 may come |
| `attributes` | `TypeOK`, `TypedIsSet`, `ReadBack`, `GetThenSet`, `RightDevice` | each of 47 attributes on 2 devices of every mix of sorts, 2 names, indices -1 to 2 and three beyond `int`, which become -1, a name, and -2; numbers around 0, 255, `int` and `long`; 2 devices may come or go, 1 write by another program |
| `bios_clear` | `PasswordCleared` is violated | as `bios_password` |
| `nl80211_hang` | `SettersReturn` is violated | 1 call, no unload |

Why the bounds are enough. The hazards are pairwise: a step of one process between
two steps of another. Two processes show each of them; a third one, where TLC can
afford it, shows that two disturbing processes do not cancel out. Frequency ranges
need a value in one range only, in both, and in neither. In `profile`,
`MaxOther = 1` and `MaxLoads = 2` are the least that show a disturbed load and its
repetition, CPUs 0 and 2 the least with a CPU above a gap, which load's loop passes over
in silence; `IntMod` is 256 there, since only the wrap-around counts. `cpu_freq` has no gap:
`--cpu all` fails on the missing number, so there would be no success of it to look at.
`AllMeansEveryCpu`, which is about gaps, is therefore a theorem without a run. In `attributes` two names and
two numbers in any assignment are enough for every indirection to miss; two moves
are a device that goes and another that takes its place. `int` is scaled to 20 bits and
`long` to 24: only their order and the wrap-around count, and every real limit
(65536, 100000) lies below. `Numbers` has a member within every range, at its ends and
beyond, and one beyond `int` on each side; that negative numbers wrap as well as large
ones (`5 - IntMod` becomes 5) came out of the proof of `TypedIsSet`, where the step for
a cast failed, and is now in the instance and in the property's exception. An attribute that is a single path, used once, is given one
move, since a second could only bring back what the first took away.

Fairness. Only `Nl80211` has any: weak fairness on the process, which is running,
and on the kernel's handling of a request, which netlink does before `sendto`
returns. Nobody has to load `cfg80211`, calls need not be made, and a failing
`sendto` or `recvfrom` is possible but never counted on. Deadlock checking is off
where the modelled processes end (profile, efi, cli, net, nl80211, bios, radio,
attributes).

The passing runs show, in short: two racing `cpu set freq` commands never leave
bounds the kernel would not have accepted, and look like two atomic sets; what load
reports is true, and one repetition repairs a load that failed on the order of the
bounds, if no entry is refused whatever the bounds are; an immutable EFI variable is left
unprotected only by a call that was killed or could not set the flag again; no handler writes without root, and none but `profile delete` under `--dry-run`.

So do the newer ones: a staged BIOS password fails the caller who gave the right one
only if another call interferes while it runs; `bt set power` that succeeds did power the controller,
except that without privilege "on" only lifts the block; whatever index is typed, no path
is made of a negative one; every attribute, the exceptions that the properties list aside, shows what was set and survives a save and a restore; no call touches
another device than the one named as long as none comes or goes, with NVML cards as
the one exception.

The violating runs show two disagreements between the code and what is said of it;
`PROJECT.json` quotes the lines.

- the nl80211 set requests do not ask for the acknowledgement that
  `nl80211_do_ack` waits for, so a setter that the kernel obeys never returns.
- clearing the staged BIOS password writes no byte, so the driver keeps it.

## Disagreements met without a run of their own

Several of these are exceptions that a property states in so many words.

- `cli/profile.c:395`: `load` replays `freq_min_hz` before `freq_max_hz`, so a profile
  whose range lies above the current one is not restored at the first try
  (`DESIGN.md:220`); `SecondLoadSucceeds` says that the second try works.
- `lib/firmware/firmware.c:480`: `efi set` cannot create a variable, because reading the
  flags of the missing file fails (`firmware.c:472` and `man/zenctl.1:364` say it can).
- `lib/firmware/firmware.c:545` and `:598` drop the result of
  `efi_maybe_restore_immutable`: a set whose restore fails reports success and leaves the
  variable mutable. `firmware.c:470` and `:541` call it best-effort; nothing tells the
  caller. `NeverLeftMutable` states it as an exception.
- `cli/profile.c:428` to `:451`: an entry of the wrong form (a number in quotes, an unknown
  `thp` word) is passed over and load reports success; `:431`, `:437` and `:443` cast the
  number to `int`, so that 4294967356 for `swappiness` sets 60 and reports success.
  `LoadSuccessMeansApplied` is about usable entries and the number after the cast.
- `cli/profile.c:514`: a `[memory]` or `[storage]` value that its setter refuses fails every
  load of the profile; `SecondLoadSucceeds` excludes such profiles (`Loadable`).
- `cli/profile.c:715`: `profile delete --dry-run` deletes (`cli/main.c:203`); the
  instance of `cli_gate` leaves this handler out.
- `lib/power/power.c:620`: two `set_wakeup` calls that both want a device enabled can
  leave it disabled (`power.c:555` speaks of an absolute state).
- `lib/usb/bt_mgmt.c`: built without the Bluetooth headers, the local numbers of
  `HCIDEVUP` and `HCIDEVDOWN` are not the kernel's, and the error is not one that falls
  back to rfkill, so power cannot be set at all.
- `lib/usb/bt.c:224`: `man/zenctl.1:338` and the comment at `bt.h:24` describe the power of
  an adapter as set through rfkill. As root the ioctl comes first, and an adapter that is
  soft-blocked fails with `ERFKILL`, which does not fall back: powering on fails until the
  block is lifted by other means.
- `lib/usb/wireless.c:242`: a handle of a phy that is gone blocks any other Wi-Fi radio.
- Casts to `int` without a check of the range: `cli/cmd/usb.c:211`, `thermal.c:467`,
  `cli/profile.c:443` for values, `power.c:325`, `thermal.c:219`, `cpu.c:898` and
  `common.h:79` for indices. A large index may become that of another device, or negative,
  which the library refuses. `cli/cmd/mem.c:64` and `storage.c:243` take what `strtoll`
  saturates to.
- `lib/storage/storage.c:373`: a SCSI disk that refuses a cache mode has its
  `write_cache` changed instead, which the getter then does not show. A get and a set of
  such a disk therefore change it (`NoSetter` in `Attributes`).
- `lib/gpu/gpu.c`: the power profile of an amdgpu card that is not in manual mode and a
  read-only RC6 file can be read and refuse every set.
- `lib/gpu/gpu.c:387`: the number of the DRM card is taken for the NVML index.
- `lib/gpu/gpu.c:560`: a clock of 100000 kHz or less is reported undivided.
- `lib/gpu/gpu.c:448`: a PWM value is written without switching the fan to manual, so a
  driver that runs the fan itself keeps its own.
- Fan modes above 2 and the deep RC6 bits are lost by a get and a set; the getter of
  the ASPM policy returns the whole list, which its setter refuses.
- `lib/cpu/cpu.c:215` checks the opposite bound "to avoid EINVAL"; another process
  can still cause it (`RefusedOnlyIfDisturbed` says that nothing else can).
- `cli/profile.c:199`: save reads CPU 0 only, load writes every CPU, so several
  policies get the settings of one.
- `cli/profile.c:408`: with a gap in the CPU numbers load passes over the missing
  number and never reaches a CPU whose number is not below
  `sysconf(_SC_NPROCESSORS_CONF)`, without a failure (`Reached` in `Profile`).
- `cli/profile.c:308`: the result of `fclose` is ignored, so save reports success on
  a full disk.
- `README.md:169` "User profiles are limited to read-only domains" is not enforced.
- `man/zenctl.1:429` says that previews are available everywhere; the handlers that
  call `cli_require_root` first (`cli/cmd/usb.c:169` and others) refuse them to users.
- `DESIGN.md:213` lists EFI writes as destructive; `cli/cmd/firmware.c:222` does not ask.
  `README.md:99` says so of `usb reset`; `cli/cmd/usb.c:304` does not ask either.
- `lib/net/net.c:231` "Preserve other pending values": lost when two processes race.
- `cli/cmd/net.c:158` casts the ring size to `int` unchecked, against `DESIGN.md:337`.
- `nl80211__parse_ack` turns every negative kernel code into `EINVAL`, where
  `nl80211.h` promises the kernel's error code.
- `cli/cmd/cpu.c:83`: `--cpu 4294967295` becomes -1, which means all CPUs, and
  4294967297 CPU 1; `RightDevice` is about the indices that an `int` holds.

## Proofs

TLAPS checks these for any set of processes, CPUs, policies, payloads, devices and
sizes that satisfies the named assumptions of the modules. Each module of proofs has
the same form: an inductive invariant `IInv`, a conjunction of named parts at the end
of the module that it is about; lemmas that `Init` implies it and that every action
keeps each part of it; `InductiveInvariant`; and one theorem per property, which
follows from `IInv` in a step or two. In `RaceProofs` the names carry a prefix
(`EfiIInv`, `WakeupIInv`, `RingIInv`). TLC has checked every `IInv` on the instance of its run.

- `CpuFreqProofs`. `BoundsSound` is not inductive alone: a process that is about to
  write has to be in the loop with a request in range (`AtCpu`), and what its check
  saw has to hold still unless the policy was written by another
  (`RefusedOnlyIfDisturbed` with the positions of `pc`). `WalkedAreSet` says that the
  CPUs behind the loop variable were set unless a failure was counted. From `IInv`
  follow `TypeCorrect`, `BoundsAlwaysSound`, `RefusalNeedsInterference`,
  `SuccessIsTruthful`. `AllIsEveryCpu` adds a counting argument (`NoGap`): if
  0..n-1 are all CPUs and there are n of them, there are no others, so a gap cannot
  go unnoticed. `Linearizable` shows step by step that `CpuFreq` implements
  `CpuFreqAtomic`.
- `RaceProofs`. Three systems of processes that read a kernel object and write it back,
  in one module. `NeverLeftMutable` is a part of the invariant as it stands, since `abandoned`
  also covers a restore that failed. `Undisturbed` (`EfiVar`) says what a process that nobody
  touched knows of the file at each `pc`, and in which calls the steps of a delete and of the
  restore occur; `ReadStillTrue` (`Wakeup`) and `PairIsCurrent` (`NetRing`)
  that what a process has read is current unless the history says that it was raced.
  `UnracedSetKeepsOther` is an action property, `OtherRingKept`, from the same invariant.
- `CliGateProofs`. `GateInv` (the invariant here): the gates behind a call were passed,
  and each gate passed says something of the user or the command line (`Passed`). That
  holds of every handler. The properties follow for the handlers whose table entry keeps
  an order, `Disciplined`; `TableIsDisciplined` looks that up for each handler but
  `profile_delete_cmd`, which the four theorems therefore exclude by name. A handler
  that is added has to be shown disciplined and to end in its write, and nothing else.
- `AttributesProofs`. Assumed: finitely many devices, at least one; `IntMod` even and
  above 2 * 65536, `LongMax` above 2 * `IntMod`, as on any machine where `int` has
  32 bits and `long` 64; names fit an `int`; typed numbers are any set of integers, and typed indices any set
  within `long`, negative ones and ones beyond `int` included.
  `IInv` has two halves.
  - The way to the device. `Carried` says that no two devices share a name or a
    number, `Progress` what the call knows at each place in the session; `FoundOK` and
    `StillThere` say that what a lookup found still leads to the device it was found
    for, as long as none came or went; the NVML index that `ReadNvml` turns to counts
    where there is no hwmon file to reach. The
    number or name leads there by a path of its own (`Straight`, `Site`), and
    `SiteIsMeant` says that it is the device the user meant. An index into a sorted list
    is the one hard case: `SortedRank` shows that battery k of the listing, counted
    from 0, is the one with k smaller names. It counts initial segments with the cardinality theorems
    of `FiniteSetTheorems` instead of an induction over the list. `RightDeviceSafe`
    follows, NVML cards excepted where the property excepts them.
  - The text. `FilesOK` says that a file holds what its driver could have put there
    (`Held`), `TextOK` that what is about to be written is the setter's text of the
    argument, `Kept` that the file an undisturbed set has reached still shows what was set. The lemmas
    are about the conversions: `ArgIsGiven` (what the command line makes of what was
    typed, for `TypedIsSetSafe`), `WriteThenRead` (what a getter makes of what a setter
    wrote, for `ReadBackSafe`) and `ReadThenWrite` (the other way round, for
    `GetThenSetSafe`; the sorts of device that refuse every value, and NVMe disks, have cases
    of their own). Each goes through the rows of the tables, grouped by form: counted,
    on/off, verbatim, marked list. `CacheFallBack` and `Readings` treat the rows that
    differ, the SCSI cache mode and the clocks.
- `ProfileProofs`. Assumed of the constants: there is a CPU 0, hardware limits are in
  order, no attribute key is written twice by a save and none is a `[cpu]` key, the
  values that a `[memory]` setter accepts fit an `int`, `NCpu` is any positive number, and the
  user's file is any sequence of entries, usable or not. `CpuEffect` states once what a turn of the
  loop of `load_cpu_kv` does, and every lemma about the loop starts from it.
  - `LoadSuccessSafe` needs `AppliedSoFar`: the entries behind the load hold, and the one
    it is at holds on the CPUs behind it, but for failures, entries that are not usable, keys
    that others wrote and keys that a later usable entry sets again. The lemma `CpuEffectHolds` is the point where it
    could go wrong: a set on one CPU must not undo an earlier one on the same policy.
  - `SecondLoadSafe` needs `RetryReady`. After an entry with a maximum was tried on a CPU,
    its policy admits every minimum of the profile: if the set worked, the maximum is one
    of the profile's; if it failed, the value was below the current minimum, so the
    current maximum is above all minima of the profile (`AdmitsGained`). The same holds
    with the two exchanged, and later turns do not spoil it (`AdmitsKept`). So at the end
    of any undisturbed load every bound can be applied, in any order; that no other entry
    fails is what `Loadable` asks of the profile.
  - `SnapshotSafe` and `RoundTripSafe` need `SavedFromSnap` (what was printed is what was
    there when the save began, but for the keys in `sdist`) and `SavedInOrder` (a
    profile without omissions has the keys in the order of `Keys`, so each once). The
    round trip then follows from `LoadSuccessSafe` and from Hz / 1000 being exact for what
    save prints.
- `BiosPasswordProofs`. Roles are finite, `list_dir` returns each once (`OrderFacts`).
  `PassedRefuse` says that the roles behind the loop do not take the password, which with
  `FirstIsFound` gives `StagingSafe`; `LoadedUnlessDisturbed` says that the driver is
  there for a call that nothing disturbed, `SecretStaged` carries the right password from the
  staging to the write for `RightPasswordAccepted`, `NoResultYet` is for
  `ErrorIsHarmless`.
- `RadioProofs`. Two halves. Of the devices: every radio has one switch of its own
  (`OneSwitchEach`), no two of a kind the same number (`SlotsUnique`, with `LowestIsFree`
  for the number that `hci_register_dev` picks). Of the clients: `NameHolds` and
  `SwitchHolds` say that the name or number which an undisturbed client has looked up is
  still that of the radio it opened, `Ways` who may take which path, and `EffectHolds`
  that what an undisturbed set did is still so. `MaxRegs >= 2` is assumed, because two
  radios are registered at the start.
- `Nl80211Proofs`. `OneExchange`: an unread request is the one the process waits for, and
  nothing has come back for it. `AppliedUnanswered`: what the kernel carried out it does not
  answer, so no error can be read for it. `IdsHold`: an id that came from the kernel is
  the family's until the next unload, in the answer as well as in the cache.

Only model-checked:

- `QueriesReturn` of `Nl80211`: liveness under fairness is out of the prover's reach.

Every safety invariant and action property of a passing run is also a theorem.
`HungMeansApplied` is the safety part of the `nl80211_hang` finding.

## Not modelled

Output formatting and the capability table have no state. DMI and ACPI tables, device
enumeration, statistics, trip points, temperatures and every other `get` without a
setter only read and format. The key-value API (`lib/core/core.c`) dispatches to the
functions that are modelled. The encoding of netlink attributes, the loading of
`libnvidia-ml` and running out of memory are left out: no property tells them apart
from an error return.

## Plan

1. Done: `CpuFreq` and its refinement, `Profile`, `EfiVar`, `CliGate`, `Wakeup`,
   `NetRing`, `Nl80211`, and the proofs above.
2. Done: `BiosPassword`, `Radio`, `AttrCodec` and `Attributes`.
3. Done: proofs of the safety of `Profile`, `BiosPassword`, `Radio`, `Nl80211`, `CliGate`
   and `Attributes`.
4. Left: abstract specifications of `EfiVar` and `Profile` with refinement proofs in the
   manner of `CpuFreqAtomic`, and action properties of the loader.
