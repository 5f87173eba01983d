# kmm-yocto in TLA+

This directory is a TLA+ development of the parts of kmm-yocto that have behaviour: the three A/B
sets of the i.MX8M boards (Linux, the M-core firmware, the SPL) with the boot chain that reads
them and the U-Boot environment they share, the two kernel drivers that connect Linux to the
M core, the bench firmware of the Cortex-M4 with its tools and its serial bridge, and the display
from the SPL's logo to the GUI. Each module is translated from the code; TLC checks small
instances, TLAPS proves the main properties for every value of the constants. `PROJECT.json` maps
every definition to the lines it models.

Abbreviations of source files: **ab** = `meta-kart/recipes-support/ab-tools/files/imx-generic-bsp/ab`,
**0002** = `u-boot/files/0002-imx8mp-debix-falcon-mode.patch`, **0007** =
`u-boot/files/0007-imx8mp-debix-spl-m7-file-read.patch`, **ab.sh** = `scripts/ab.sh`,
**KA** = `mcore-keepalive.c`, **RC** = `rpmsg-can.c`. Files without a directory are found by name.

## 1. The system

```
  ROM ── SPL copy A or B ──┬── falcon.itb ─────────────┬── Linux ── ab, falcon-rearm,
         (SplAB)           │   (dead man boot_os)      │     │      ab-mcore-confirm,
          │ env: EnvStore  └── u-boot.itb, bootcmd ────┘     │      ab-spl-selfheal
          │ BOOT slot: LinuxAB                               │        ▲ ssh
          ├─ p3 slot: McoreAB ── BL31 ── M core ── keepalive, CAN     └─ scripts/ab.sh (PCs)
          └─ logo ────────────────────── panel ── weston ── splash-wl, GUI   (Display)

  bench:  remoteproc ── Cortex-M4 (M4Bench) ── vrings ── rpmsg tools, ttyRPMSG
                            └── UART4 ── Teensy bridge ── terminal on the PC
```

| Component | State it keeps | Operations | Talks to |
|---|---|---|---|
| A/B of Linux | env `ab_slot`, `ab_fallback_slot`, `upgrade_available`, `bootcount`; MBR flag; p1/p2, p5/p6; `/data/ab/linux-try`; lock | `ab linux try begin/root/boot/arm`, `commit`, `rollback`; `ab.sh linux try` | env, SPL, U-Boot proper |
| Boot chain (8MP) | env; `/chosen` of this boot; `boot_os` | choose and count, dead man, falcon, proper and `altbootcmd`, `falcon-rearm.service` | everything below |
| Boot chain (8MM) | MBR flag; env | MBR slot, proper in a trial | A/B of Linux |
| Environment store | two copies with CRC and serial number (8MP) | load, save from SPL, proper and `fw_setenv` | all A/B sets |
| A/B of the M core | `mcore_slot`, `mcore_try`; `mcore-a/b.img` on p3; `/tmp/ab-mcore.img`; `/chosen/mcore,*` | SPL staging, `ab mcore update/rollback/confirm` | keepalive driver, env |
| A/B of the SPL | two raw copies with IVT | `ab spl update/rollback/selfheal`, the ROM's choice | A/B of Linux and M core (`spl_is_ab`) |
| Keepalive driver (KA) | state, counters, timer of one channel | probe, message, timer, remove, sysfs | `ab mcore confirm` |
| rpmsg-can (RC) | CAN state, carrier, queue, restart work | probe, open, stop, set_mode, xmit, rx frame and state event, remove | SocketCAN, M-core gateway |
| M4 firmware: rpmsg-echo, can-sim, hello, uart-test, clk-test | message buffer and flag, peer, time, UART, crumbs | start-up, message interrupt, main loops | vrings, UART4, remoteproc |
| M4 shim | heap offset; tables in the image; NVIC and MU registers | libc, malloc, enable and handle interrupts | rpmsg-lite (external) |
| Round-trip tools | last ping, what was read | rpmsg-char-rtt, rpmsg-rtt | rpmsg-echo |
| Serial bridge | UART and USB buffers, DTR | pump, discard | UART4, the PC |
| DRM tools | `first_done` of the shim; two buffers and the flip of drm-image-view | rewrite a commit; set, draw, flip | DRM driver (external), weston |
| splash-wl, wl-image-view | globals, size, buffer | connect, bind, configure, draw, stay | weston |
| Weston, kiosk-shell and units | layer, focus, repaint loop; unit states | map, raise, repaint; start, respawn | all of the display |
| SPL splash, kernel takeover | frame buffer, clocks and PHYs | draw the logo, hand over | panel |
| Provisioning and services, RPi 5 predecessor, flash/build/bench scripts, board tables | – | – | – |

What is hard in each, and what makes it correct:

* **Linux A/B.** A trial is armed by four separate ssh commands, each of which takes the lock for
  itself only; power may go at any instant; two programs (SPL and proper) count the same
  trial; `env_save` may fail and the boot goes on. Correct: the committed slot is never written
  nor lost, a trial ends, only a commit from the running trial moves the commitment, the board
  comes back.
* **Environment.** A save may be cut; the serial number is a byte. Correct: a load reads the last
  save that finished, or the one before during a save.
* **M core.** `confirm` runs for up to 40 s without the lock; files in `/tmp` are shared by PC
  sessions; FAT has no atomic rename. Correct: what is committed is whole and has run; a trial
  starts once; a failed one is taken back.
* **SPL.** Each copy is written in three synced parts, two copies per update, and compared after its
  IVT is valid already; a command may die there and the next one start in the same boot. Correct:
  the ROM finds a whole copy; one that has proven to work is left; A gets repaired.
* **Keepalive driver, confirm.** Callback, timer, remove and the writable `timeout_ms` on different
  CPUs; 32-bit counters; a shell that reads one attribute after the other. Correct: a loss is
  reported in time and never falsely, no timer outlives its device, counters mean what they say,
  confirm passes firmware that keeps its period and no other.
* **CAN driver.** Control messages over a vring that may be full, state events that cross them, a
  restart work that runs without the RTNL, a device that goes with its M core. Correct: Linux and
  the gateway agree on whether and how CAN is running; a bus-off can be left again.
* **M4 bench.** An interrupt handler that shares one buffer with main, wfi without a lock, a
  64-bit counter read in halves, clock gates per domain, a bump allocator, lost and late echoes,
  three buffers in a row that fill up. Correct: echoes are of what came, times are real, kicks are
  never missed, blocks stay apart, text does not vanish.
* **Display.** All units start at once; the seat may come after the first client; weston and its
  clients die and come back in any order; the shim replaces one commit by two calls that may each
  fail; a flip may come late. Correct: a client that has shown its picture is on the screen, the GUI
  covers a logo that was drawn before it and comes back, weston gets one event for each commit,
  drawing stays behind the panel.

`PROJECT.json` "hazards" lists these at their lines with the properties that watch them.

## 2. Modules

| Module | Models | Composition |
|---|---|---|
| `ABSlots` | the promise of any A/B set with trial: which slot is committed, that a trial touches only the other, that a commitment moves only to the running slot of a trial | abstract |
| `LinuxAB` | boot chains of both boards, `ab linux`, `ab.sh linux try` | implements `ABSlots` (`Abstract == INSTANCE ABSlots WITH ...`), checked and proved |
| `EnvStore` | the two copies of the environment | justifies the atomic saves of `LinuxAB`, `McoreAB` |
| `McoreAB` | staging, update, rollback, confirm of the M core | over an atomic env |
| `SplAB` | the two SPL copies | part of `MCParts` |
| `McoreKeepalive` | KA: probe, remove, callback, timer, `timeout_ms`, with the M core that sends | – |
| `McoreConfirm` | the polls and reads of `mcore_confirm` | EXTENDS `McoreKeepalive`; its verdict is the step `ConfirmJudge` of `McoreAB` |
| `RpmsgCan` | RC with its two vrings and the gateway (external) | – |
| `M4Base` | loading, start-up, clock gates, crumbs and heap of the M4 firmware | – |
| `M4Echo`, `M4CanSim`, `M4Console` | rpmsg-echo with both round-trip tools; can-sim; the text of hello and uart-test through the bridge | each EXTENDS `M4Base` |
| `M4Bench` | one firmware loaded after another | composes the three |
| `M4Lib` | the functions of `libc_min.c` and hello's decimal printer, each loop turn a step | part of `MCParts` |
| `M4Irq` | resource and vector tables, NVIC and MU: how a kick of Linux reaches rpmsg-lite | part of `MCParts` |
| `DrmOutput` | the panel behind the DRM driver (external), the modeset shim, drm-image-view | – |
| `Display` | weston, kiosk-shell's seat patch, splash-wl, wl-image-view, the GUI, their units | EXTENDS `DrmOutput` |
| `Pictures` | globals, configure and pixels of splash-wl and wl-image-view, against the SPL's logo | part of `MCParts` |
| `MCLinuxAB`, `MCMcoreAB`, `MCSplAB`, `MCParts` | instances for TLC | `MCParts` runs five small modules one at a time |
| `LinuxABProofs`, `McoreABProofs`, `SplABProofs`, `McoreConfirmProofs` (with the driver's), `RpmsgCanProofs`, `DisplayProofs` (with `DrmOutput`), `M4BenchProofs`, `PartsProofs` (`EnvStore`, `Pictures`, `M4Lib`, `M4Irq`) | theorems | extend their component |

They were written in the order boot and A/B sets, M core, drivers, display, bench, because that is
the order in which a mistake costs a board. What the plan has left: `Provisioning`
(`tailscale-autoconnect.sh` with its key file across resets).

### How the modules correspond to the code

**LinuxAB.** One step is one durable write (one `env_save`, one `fw_setenv -s`, the MBR sector, one
partition) or one decision of the boot. `SplPick` is `spl_mmc_fs_boot_partition` with its save,
`SplStart` is `spl_start_uboot`; `mem` carries the SPL's environment in RAM from the first to the
second, so that a failed first save is written by the second, as in the code. `FalconBoot` is the
load and start of falcon.itb with the fall-through to u-boot.itb, `ProperCount`/`AltBoot`/`Sysboot`
are `bootcount_inc`, `altbootcmd` and `ab_boot`. `OldSplStart` is the 8MM SPL. `TryBegin`,
`StartWrite`/`FinishWrite`, `TryArm` are the four commands of `ab.sh linux try`; `ReadTarget` is
`try_target`, which runs before `lock`. `CommitEnv`, `SwitchMbr`, `SwitchRm` are the three writes
of `linux_commit` (and of a cancelled trial). An image is a model value with four traits: whether
its falcon.itb comes up, is absent or crashes, whether it comes up through proper, whether
`linux_checks` pass. A slot whose root and BOOT differ or are torn may do anything.
`Healthy` images come up by falcon, since `linux_checks` requires that path on the 8MP.
`linux_checks` is one step. `rm linux-try` is durable (the code does not sync).

**EnvStore.** `Load` is `env_init`/`env_load` or libubootenv opening the device, `StartSave` counts
the serial number and makes the copy that is not in use invalid until `FinishSave`; `SaveRefused`
and `SaveError` are a failed write before and inside the copy. Comparison of serial numbers is
U-Boot's `env_check_redund` rule, which is not in this repository.

**McoreAB.** `Stage` is `spl_mcore_stage` with `mcore_pick` (the try is consumed before the file is
read) and BL31's start of the core; which path the boot takes is free here, LinuxAB decides it.
`LinuxUp` writes `/chosen` on the falcon path only. `Confirm*` are the steps of `mcore_confirm`;
`ConfirmJudge` stands for the two polling loops. `SendFile` overwrites `/tmp/ab-mcore.img` at any
time, so the file may change between `mcore_check`, `cp` and `cmp`. `UpdateCopy`/`UpdateMv` leave
the target slot unusable in between, because no rename is atomic on FAT.

**SplAB.** `WriteZero`, `WriteTear`, `WriteBody`, `WriteIvt`, `ReadBack` are `spl_write_header_last`.
`WriteBody` may leave a wrong body without an error of dd; `ReadBack` is the comparison, which comes
after the IVT is on disk: it ends the command with an error, or the next copy follows, or the
command is over. `Die` is a kill or an error of dd at any of these steps, the comparison included.
No step is a reboot of the command: Linux goes on after it until a `Reset` (power cut, or reboot by
hand or by `maybe_reboot`), so that further commands may come before it, with `--no-reboot` or
without. `Rom` is the boot ROM as the comments of ab and the wks file describe it. History: `bad`
counts wrong bodies, `unsure` holds the copies that no boot (or, for B, comparison) has confirmed
since they were written, `careless` says that a command has copied an unsure one over the other.

**McoreKeepalive.** A section under the spinlock is one step, and so is what a function does outside
it between two such sections: `Probe` ends with `rpmsg_send`, `ProbeArm` is the `mod_timer` after it;
`TimerExpires` is the expiry with the read of `timeout_ms` before the lock, `TimerRuns` what happens
under it. `Remove` is `timer_delete_sync`, `Freed` what the rpmsg core and devres do afterwards;
messages still arrive in between. Time is in ticks of the keepalive's period; the M core counts
`uptime_ms` in ticks and `seq` in messages, both modulo `Wrap`. `hist` holds what only the
properties look at.

**McoreConfirm.** One step per read of /sys, `CTick` the `sleep 1`. `Shown` is `ka_get`, which prints
nothing while the device is not bound.

**RpmsgCan.** `rtnl` is the program counter of whoever holds the RTNL (open, stop, restart by hand,
remove); the restart work and the callback run between its writes. `Full`/`Sent` are
`rpmsg_trysend`, whose failure nobody looks at. A work that is scheduled while it runs runs again
(`"rerun"`). What the SocketCAN core does is modelled from how the driver uses it, as in Linux 6.6
and 6.12: `can_bus_off` switches the carrier off and schedules the work if restart-ms is set,
`can_restart` switches it on and calls `set_mode`, `close_candev` cancels the work,
`unregister_candev` takes the interface down. The gateway obeys control messages, sends frames
and reports changes of its CAN state; after a restart of the M core it has settings of its own.

**M4Base, M4Echo, M4CanSim, M4Console, M4Bench.** `pc` is where main stands; an interrupt handler is
one step and may run between any two of them. `Touch` stalls the core if the gate of the peripheral
is closed for the M4's domain. `rx_cb` ends a `wfi`, but not one that begins after it: `Check` and
`Doze` are the two instructions it falls between. `Log` reads the address of the send, as the call
does before it copies the payload. A tool of Linux is one step per system call; `Quiet` is the
state that 200 ms (RTT_SLOW) or the 2 s and 3 s of a poll leave enough time for. `ReadHi`, `ReadLo`,
`ReadAgain`, `GotTime` are `sctr_now` and its caller. `LookAtPort`, `pump`, `Discard` are one round of
the bridge's loop; both ends have the same baud rate. `LoadImage` is a stop and start of
remoteproc, after which crumbs and gates stay and vrings do not.

**M4Lib.** One call at a time with any legal arguments on any memory of the bound. **M4Irq.** `Raised`
is the condition under which the core takes the interrupt before its next instruction; the word in
`rr` survives a reset of the core. `PlatformInit` to `Unlock` are the port of rpmsg-lite (external),
which calls the shim's functions by the names in `fsl_mu.h` and `fsl_device_registers.h`.

**DrmOutput, Display.** A flip waits in `drm.flip` until `Vblank`, and leaves an event if one was
wanted. `do_setcrtc`, `do_noevent`, `do_strip` return the set of results that the shim's calls may
have; `first_done` is set by the first commit with ALLOW_MODESET whatever comes of it. In `Display`
a client's step is one call into libwayland; each needs the connection and fails without weston.
`MapView` is what `0003-kiosk-shell-map-without-seat.patch` does at a surface's first frame,
`RaiseTop` what it does when the seat comes. `Connect` gives up only if weston is off or began late,
because 1000 tries of 10 ms are longer than a start of weston. The GUI kmm is external: it waits
for the socket, and its first frame may come before or after that of splash-wl (`KmmShown`).
`hist.covers` says that splash-wl has shown its picture over a GUI that was there.

**Pictures.** `draw` is one turn of splash-wl's loop over the logo; `Beside` is its clipping. A
`configure` may come after the buffer has its size, as the property allows for.

## 3. Runs

| Run | Question | Bounds and why they are enough |
|---|---|---|
| `falcon` | Linux A/B on the 8MP: the committed slot stays intact, a trial ends, the right slot boots, the board comes back (`Recovers`), and the refinement of `ABSlots` | 1 session, 2 images (one good, one whose falcon.itb crashes; a torn slot may do anything), `--force` allowed, `bootlimit` 1 as shipped, 1 failed `env_save`, `bootcount` up to 4 (the SPL resets it at 2, proper adds 1, a fault 1) |
| `xpi` | the same commands over the 8MM chain: the MBR flag names the committed slot (`MbrAligned`) | as `falcon` without faults and `--force`, with a third image that has no falcon.itb; `MaxCount` 3 |
| `two_sessions` | a second PC session | 2 sessions; found violated |
| `mcore` | safety of the M core, and that a trial ends on the committed slot | two good firmwares, one that is mute, one that resets the SoC; operators wait for confirm; 1 failed `env_save` |
| `overlap` | update while confirm runs | found violated |
| `unproven` | an update saves to B only what has run | 3 versions: old, new, one that hangs; no wrong bodies needed; found violated |
| `confirm` | the keepalive driver and the verdict of confirm | timeouts of 2 and 3 ticks (3 as shipped), 6 ticks, 2 upsets (lost or bad messages, restarts, rebinds, changes of `timeout_ms`, a failed hello): every pair of them at every place; `Wrap` 12 with a start near the wrap; `MCORE_STABLE` 4, `MCORE_WAIT` 2 |
| `silence` | a silence is always reported | 1 upset; found violated without any |
| `can` | both ends of the CAN channel | 2 bitrates (1 mode: it travels like a bitrate), vrings of 4 messages (one more than open sends), 1 received frame at once, the interface brought up twice, 2 faults: errors of the bus or restarts of the M core |
| `display` | what is in front is on the panel, only a logo that was drawn later is in front of the GUI, the GUI comes back, each commit has one event, drm-image-view draws and counts right | each of the four modes of the shim, 1 refused call or late flip, 2 deaths or restarts of weston and the GUI: the second one may hit the recovery from the first |
| `m4` | the bench: clocks, heap, echoes, round trips, time, text | all five firmwares, 2 loads (each after each other), 5 pings, 2 rounds per run of rpmsg-char-rtt (so a warm-up, its rounds and a second run), blocks of 3 and 8 bytes in a heap of 16; a counter whose halves wrap at 4, up to 7 ticks with a period of 3 (one wrap before, at and after each read); 2 hellos; FIFO, UART buffer, USB pool and chunk of 1, 2, 2 and 2 with 4 characters, so that each of them fills up; the port opened twice |
| `parts` | libc against what C says, pictures, kicks, the two copies of the env; of the SPL: the ROM takes a whole copy, a proven one is left, A gets repaired | memory of 4 bytes with values 0 to 2, all calls of every function; decimals of 1 to 10 digits; 3 firmwares booted in a row with 2 messages each; a logo of 3×2 on a panel of 5×4, sizes 0 to 6 asked for (smaller, equal, larger than the panel); serial modulus 5, because the rule only distinguishes successor, equal and wrap; 2 failed writes; the eMMC may lose both copies at any time; SPL versions as in `unproven`, every cut and death, any number of commands in one boot, 2 wrong bodies (one in each copy) |

`CHECK_DEADLOCK FALSE` is in `unproven` and `parts`, where a board whose copy A holds a version that
hangs stays dead (the ROM falls back on an invalid IVT only), and in `confirm`, `silence`, `can` and
`m4`, whose bounded time, opens or loads end, as the boots and calls of `parts` do. Elsewhere
deadlock is checked.

Every property of a passing run has a mutant in `PROJECT.json`: a plausible bug in one mapped
definition under which TLC finds that property violated. The mutated forms stand in the modules,
each before the definition it replaces, with a comment that begins with "Bug:".

### Disagreements between code and documentation

1. `two_sessions`: `linux_try_root`, `_boot`, `_arm` do not repeat the checks of `begin`; a session
   that was overtaken by another one's trial writes the running slot (ab 314–371;
   docs/usage/04-ab-updates.md:35 promises both checks before writing). On the XPI two sessions break
   `MbrAligned` and the other properties in the same way; `OneSession` is their assumption.
2. `overlap`: `mcore_confirm` takes no lock (ab 594–636); an update begun meanwhile replaces the
   file under trial, and confirm commits it (04-ab-updates.md:21).
3. `unproven`: `spl_update` saves A to B whenever A has an IVT (ab 203–207), and the update before
   has just written one. A second update in the same boot (after `--no-reboot`, in the seconds
   before the reboot, or after one that died behind the IVT) saves an SPL that was never started
   over the last one that was, and the message says it is the version that has proven to work
   (ab:206); docs/imx8mm-xpi-bringup/04-pitfalls.md:296 promises that the check of the IVT keeps a
   broken A out of B. `ProvenCopyLeft` says what is left of it: as long as no unconfirmed copy is
   copied, a proven one remains.
4. `silence`: probe arms the timer after its hello; a keepalive that came in between has set a
   later expiry, which is overwritten. `mcka_timeout` then runs too early, does nothing and is not
   armed again (KA 80, 210). Raising `timeout_ms` at run time does the same. KA:12 and KA:51 say
   that nothing for `timeout_ms` means lost.

### Known limits

No run asserts these, because they follow from a line or two; the properties except them where
they would meet them.

* A trial of the M core that was staged on the proper path is not judged by anybody: `/chosen` is
  written on the falcon path only (0007:153, 169; ab-mcore-confirm.service:5).
* On the XPI the environment and the MBR flag are two writes; a cut between them boots the slot of
  the old flag (ab 446–447 against 04-ab-updates.md:81), where `commit` and `rollback` are refused
  (ab 434, 465): what the board has is safe (`XpiCommittedIntact`), but no command gets it out.
* With both copies of the environment lost the SPL takes slot a and does not consult the MBR
  (0002:90–94 against 04-falcon.md:243).
* The read-back of the SPL finds a wrong body when its IVT is valid already (ab 183–188), and the
  command only ends with an error: until the copy is written again the ROM would start it.
  `AlwaysBootable` therefore speaks of boards whose bodies came out right (`bad = 0`). The pages that
  are compared may come from the cache, so an error of the medium need not be found at all; that
  is not modelled.
* rpmsg-can: open and `set_mode` write `ERROR_ACTIVE` after START was sent; a bus-off handled in between
  leaves the carrier off and the state active, and a restart by hand is refused (RC 108). A bus-off
  between `close_candev` and `free_candev` leaves a work behind, and a message after `free_candev` uses
  freed memory (RC 282–283). A dropped control message is not noticed (RC 103).
* `ab mcore confirm` sees the M core through the driver's counters only: a restart behind lost
  keepalives, or hidden by a wrap of `uptime_ms`, passes as stable (KA 120–127);
  `PassedMeansStable` excepts both, and `StableIsStable` shows that there is nothing else.
* A keepalive after `timer_delete_sync` arms the timer of a device that is about to be freed (KA 134);
  `RemoveDisarms` shows that nothing else does.
* splash-wl: one that is respawned, or slower than the GUI, shows its logo over it, though
  splash-wl.c:199 says it stays behind; `hist.covers` remembers it, and `GuiOverLogo` says that
  nothing else brings the logo to the front; one
  that was resident when weston died ends with 0 and is not respawned (splash-wl.c:200–202); a
  `configure` after the first picture is not drawn.
* wl-image-view: `f --delay-ms N` without sizes is refused (wl-image-view.c:129–134 against its
  usage line 121).
* The shim's `strip` copies at most 16 objects and 64 properties (drm-atomic-dump.c:101–112).
* rpmsg-rtt waits for ever for a lost echo, since VMIN is 16 (rpmsg-rtt.c:48–49); a run of
  rpmsg-char-rtt after one that gave up may read the late echo (excepted by `hist.gaveUp`).
* A word that the last firmware has left in the MU makes "link up" come before Linux is there
  (fsl_mu.h:12–16, rpmsg-echo/main.c:116).
* The bridge keeps in its USB pool what was pumped before the port was closed (main.cpp:98–102).

## 4. Fairness

* `LinuxAB`: weak fairness of the boot chain (it runs by itself), of `falcon-rearm.service` (a unit of
  every boot) and of a power cycle of a hung board (an operator or the watchdog; without one a
  crashed image hangs for ever). None for commands: operators owe nothing. `Recovers` assumes
  in its formula that the power is eventually not cut in the middle of a boot any more.
* `McoreAB`: the boot, the confirm service (both its loops are bounded), the reboot a command has
  asked for, and the reset that resetting firmware causes.
* `RpmsgCan`: whoever holds the RTNL goes on, the workqueue runs, and messages in the vrings are
  received. None for the administrator, for frames or for the bus.
* `SplAB` (in `FairParts`): the ROM, the selfheal service, and the writes of a command that has begun;
  `Heals` assumes in its formula that resets stop, and excepts a repair that itself dies (the next
  boot tries again) and what was copied from an unconfirmed copy.
* `Display` (`FairDisplay`): processes run, the panel scans, units whose Restart= applies are
  respawned, the GUI gets to its first frame. Operators, deaths and the seat owe nothing; that
  faults and refused calls are bounded is part of the instance.
* `MCParts` (`FairParts`): the core runs, takes an interrupt that is raised, finishes its handler, and
  the mailbox of Linux retries. Nothing for boots and sends.
* `McoreKeepalive`, `McoreConfirm`: none; what must happen in time is stated as safety over ticks.
  A tick waits for a timer that is due (`Tick`), so timers are not late by a whole second. None for
  `M4Bench` either, whose properties are safety.

## 5. Proofs

Checked by `tlapm` to the last leaf; the constants are arbitrary subject to the ASSUME of each
module.

* **LinuxABProofs.** `TypeCorrect` and `TrialsEnd` without further hypotheses. The rest assumes one
  PC session (`OneSession`), because the run `two_sessions` overtakes one, and the board where its
  name says so or `SplIsAB` is among the hypotheses. On the 8MP `AllowForce` is arbitrary; with it
  `CommittedIntact` no longer says that the committed image is healthy. The inductive invariant
  `IInv` adds what the properties forget: where a trial points (`ab_slot` is the other slot of the
  fallback), what the SPL holds in RAM between its two saves, that a session's target is never the
  committed slot, which half of a command is under way, and that the running slot is the committed
  one or the trial's. `ImplementsPromise` is the refinement of `ABSlots`: with `IInv` each step of
  boot, reset, session and command maps to a step of the promise or a stutter (`BootMaps`,
  `ResetMaps`, `SessionMaps`, `CommandMaps`). `TrialsEnd` bounds the boots of a trial on both boards
  and for any number of sessions; its invariant `CountInv` says that the SPL counts before it boots
  (`Counted`), also in the copy in RAM (`MemCounted`), and that the counter itself stays bounded
  (`CountEnds`). The XPI's SPL follows the MBR and not the environment. `UncutXpi`: as long as no
  command is cut between the two, everything that holds of the 8MP holds of it, the refinement
  included, by the same `IInv`. `MbrStaysAligned` holds of both boards with cuts; on the XPI, where
  `IInv` is lost after one, its invariant is `CutInv`: commands run only in Linux and each write
  belongs to a session (`LockInv`), while a session may still write there is no trial (`LiveInv`),
  and without one an uncut board starts the slot of the environment (`StartInv`).
  `XpiCommittedIntact` and `XpiRunningSlotSafe` say what a cut commit leaves: the environment names
  the slot just committed, the MBR the one before, which is whole and healthy (`Stale`); the board
  boots that one again and again (`LostBoots`), and there every command is refused because the slot
  of the environment is not the running one (`LostRefuses`), until the flag is set right by other
  means. So both slots stay as they are, but nothing can be installed. Both assume `~AllowForce`:
  with `--force` the slot of the MBR may hold an image that was never healthy, and TLC finds
  `CommittedIntact` violated on such an XPI.
* **McoreABProofs.** `JudgesTheFile` follows one image from the SPL through `/chosen` to the commit,
  `WritesTheOther` says a command writes the slot that is not committed. Hypothesis `Waits`: no
  command starts while confirm judges (the run `overlap` shows why). `TriedOnce` and `TypeCorrect`
  need no hypothesis. `TrialEndsCommitted` is the safety core of `BackToCommitted`: a trial is of the
  slot that is not committed (`TrialOfOther`), so that when confirm is done the firmware that runs
  is the committed slot's.
* **SplABProofs.** `WriteOrder`: the order of the three writes, behind which only the comparison is
  left. `CleanInv`: without wrong bodies every valid IVT stands over a whole one, and while a copy is
  written the other is whole; `BootableForever` follows.
  `SureInv`: a copy that is not unsure is whole and has brought the board up, one of them is never the
  one being written, and what a command writes has been taken from such a copy unless it was
  careless; `ProvenIsLeft` follows for any number of wrong bodies. `RepairsItself` is the safety core
  of `Heals`; its invariant `HealInv` adds that a boot from B never writes B, so that the service
  finds it fit to copy from.
* **McoreConfirmProofs.** Of the driver alone: `KInv` adds to the types what ties the timer to the
  last message: `TimerMatches` (due is what is left of `timeout_ms`, or the timer has just expired),
  `ExpiryKnown` (an expiry about to be looked at is of this `timeout_ms`, or a message has come
  since), `HeardInProbe` (a message that came during probe came after `bound`) and `Disarmed`.
  Without `ExpiryKnown` a loss could be reported under an older `timeout_ms`. `CountersAreReal` keeps
  the M core and the driver in step (`InStep`): the next `seq` follows the last one heard, and each
  wrap of `uptime_ms` counts as one restart, already or with the next message. The steps of confirm
  change only history, so `DriverInv` holds of `CSpec` too, and with it what is proved of the driver.
  `HealthyIsConfirmed` assumes that confirm polls at least twice and that every `timeout_ms` is
  longer than the period (30 polls and three periods as shipped). `SmoothRun` says that with a
  keepalive in every tick the timer is never due; `OnTheWay` counts: each tick of the second loop
  has brought a keepalive but the first, which may have come before `n0` was read. That one is the
  reason for `MCORE_STABLE - 1` in the code. `StableIsStable` says what can hide behind a confirm
  that passes. `Ahead`: within a run of the M core its `seq` is ahead of the last one heard by at
  least the keepalives lost since, and by no more than the ticks; a gap is therefore counted with
  the next message, unless the counter has come round to the very number expected, which the
  hypothesis `MaxTime < Wrap - 1` (a history of fewer ticks than the counters have values, 2^32 in
  the driver) excludes. A restart is counted when `uptime_ms` is smaller than before, so it stays
  hidden only if keepalives of the new run were lost until it had caught up (then `seq` may match
  too), or if `uptime_ms` wrapped. `SinceG0` carries both from the first reading to the last.
* **RpmsgCanProofs.** `CanInv` speaks of what is under way. Towards the gateway: settings are only
  sent to one that has stopped by then, a start only to one that has stopped or gone bus-off
  (`Ordered`, `StoppedAt`); what open has sent will be there when everything is read
  (`RateArrives`, `ModeArrives`); an interface that is down will have stopped the gateway
  (`Downwards`), one that is up has a start as the last control message, or none under way and the
  gateway's state reported or known (`Upwards`, `Reported`). Towards Linux: a bus-off is the last
  event and nothing that would end it is under way (`BusOff`), so that only a start ends it.
  `EndsAgree` and `StartedWithSettings` follow for any number of opens, restarts and errors and any
  length of the vrings. What the properties except (a message dropped by a full vring, a state event
  or the restart work that crosses a start or stop) the invariant excepts too (`Clean`), but for
  types and settings. `RestartIsDue`, the safety core of `BusOffEnds`, excepts nothing: an interface
  that is up and bus-off has its restart scheduled or running.
* **DisplayProofs.** `DInv`: weston and drm-image-view are never master at once (`OneMaster`),
  whoever starts finds no flip under way (`StillBefore`), weston's wait matches the events owed
  (`OneEventEach`, carried through each result of the shim by `CommitOwesOne`), flips counted and
  flips done differ by the one under way (`LeadExact`), and the back buffer is free until a flip
  comes late (`BackIsFree`). `LInv` is about the layer: nobody has two views (`OnceEach`), without
  weston there is neither layer nor connection (`NoneWithout`), and the logo is in front of a GUI
  that is there only if it was drawn later (`Views`), in whatever order the first frames come.
  `FrameIsOwed` and `GuiIsOwed` are the safety cores of `ScreenFollows` and `GuiBack`; for the
  first, `FrameInv` follows the frame that weston has painted last: still uncommitted, waiting for
  the vblank, or on the panel, since a refused commit changes the panel only if it is the first.
* **M4BenchProofs.** `Gated` for the clocks; `HeapSound` for malloc, where the assumption that a size
  and the heap together do not reach the word size excludes a wrap of the rounding; `HalvesReal` for
  the counter: two equal high halves enclose the low one read between them (`SameHigh`); `EInv` for
  rpmsg-echo: pings arrive in the order of their numbers (`Rising`), and the buffer holds a new one
  from its interrupt to its send (`BufferIsNew`). `RttInv`: the echoes for rpmsg-char-rtt, read or on
  their way, have rising numbers (`EchoesRise`), and up to the first run that gives up every message
  of it anywhere is its last ping (`OnlyAwaited`), so that whatever it reads is the right one.
  `SlowInv`: a ping with RTT_SLOW finds the firmware in `wfi` with nothing under way, and from then on
  one of the places on the way to its echo holds it (`EchoComes`). `LineInv`: FIFO, UART buffer and
  USB pool hold ascending parts of the text in this order (`InOrder`), and each character printed is
  read, lost or in one of them (`NoGap`).
* **PartsProofs.** `UsedSound` relates the copy in use, its serial number and the one in RAM;
  without it `Valid # 0` does not survive a save, since the copy that is overwritten might be the only
  one. `SavesAreAtomic` follows: a save that has begun leaves what is read as it was
  (`StartKeepsRead`). `PictureFits`: the loops of splash-wl have drawn what the SPL draws, up to where
  they are (`LogoSoFar`); the rest is that no two places of a buffer have the same number
  (`OnePlace`). It assumes that the logo lies on the SPL's panel. `AnswersAsC`: after `d` turns a
  loop has left what `Half` says and has met neither a difference nor a terminator (`After`); a
  comparison ends at the first difference (`Verdict`) and never looks beyond what it was given
  (`LooksInside`). `PrintInv` says the same of `uart4_put_dec`: what is left of the number is the
  number without its last `k` places. The table `PlaceValue` has the powers of ten up to 10^9, so that
  no induction is needed; `M4LibAssumption` says that the numbers have 32 bits (`Unsigned`).
  `NoKickLost`, the safety core of `KicksHandled`: news in a vring has its word in the register or
  still in the mailbox of Linux (`WordUnderWay`), only firmware with the handler in its vector
  table enables the interrupt (`Enabling`), a device that Linux kicks belongs to one that asks for
  it, and is kicked once before the firmware has seen Linux (`BeforeLink`); once the firmware is up
  every word raises the interrupt.

Only model-checked: liveness (`Recovers`, `BackToCommitted`, `Heals`, `BusOffEnds`, `ScreenFollows`,
`GuiBack`, `KicksHandled`), which is outside TLAPS's reach here; for all of them but `Recovers` the part
that is safety is proved: whenever the end is not reached, somebody is in a position to go on or
the state that was promised is there. That they do go on, under the fairness of section 4, stays with
TLC. Every invariant and every step property of the passing runs is a theorem.

## 6. Not modelled

* DDR timing, the splash bitmap, device trees, kas and machine configuration: tables. The first two
  are two fifths of the implementation's lines.
* The register programming of the SPL splash, of proper's adoption of it and of the kernel's
  takeover: its effect is defined by the hardware only. The logo itself is in `Pictures`.
* Loading the M4 on the XPI (one file, no slots), provisioning (`tailscale-autoconnect.sh`,
  `data-mount.sh`, `can0-up.sh`: once per boot, without state of their own), the RPi 5 predecessor,
  flash, build and bench scripts.
* `0001-kiosk-shell-client-size.patch`, which changes an option inside a compositor that is not here.
  The seat patch is for weston 12; weston 13, which imx8mp-debix.conf selects, has no such
  code, and `MappedIsShown` is about images with weston 12.
* Of the keepalive driver: a message before probe has stored its data. Of rpmsg-can: counters,
  loopback and the contents of frames. Of the M4: the signal curves of can-sim, memory barriers,
  interrupt priorities. Of the bridge: the other three of its four directions (the same code with
  other buffers), baud rates, the LED. Of the tools: statistics and log lines.
* The single copy of the 8MM's environment is treated as atomic like the 8MP's; a cut in a save
  there loses it.
* External, modelled from how the code uses them: the boot ROM, U-Boot's and libubootenv's
  redundancy rule, SocketCAN and rpmsg core, the CAN gateway, rpmsg-lite and its port, the DRM
  driver, weston, systemd and the GUI. Assumptions about them: Linux keeps the clock of the MU on;
  200 ms are enough for the firmware to print and sleep again; both ends of the UART have the same
  baud rate.
