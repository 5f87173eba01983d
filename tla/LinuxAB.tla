------------------------------ MODULE LinuxAB ------------------------------
(***************************************************************************)
(* The A/B slots of Linux on the i.MX8M boards: the boot chain that picks  *)
(* a slot (SPL, falcon path, U-Boot proper), the `ab linux` commands that  *)
(* change the U-Boot environment, and the PC script that writes an image   *)
(* and arms its trial in four separate invocations.                        *)
(*                                                                         *)
(* One step of the model is one durable write of the code (one env_save,   *)
(* one fw_setenv, one MBR sector, one file) or one boot decision, so that  *)
(* Reset, a power cut or a reset at any instant, falls between any two.    *)
(* env saves are atomic: module EnvStore shows what the two copies give.   *)
(***************************************************************************)
EXTENDS Integers, FiniteSets

CONSTANTS
  Sessions,      (* PC sessions that may run scripts/ab.sh linux try       *)
  Images,        (* Linux images                                           *)
  FalconOk,      (* images whose falcon.itb reaches userspace              *)
  FalconAbsent,  (* images without a loadable falcon.itb                   *)
  ProperOk,      (* images whose u-boot.itb runs and extlinux kernel boots *)
  Healthy,       (* images that pass linux_checks once they run            *)
  BootLimit,     (* bootlimit of the environment                           *)
  MaxFaults,     (* env_save errors of the boot chain that may happen      *)
  MaxCount,      (* bound: U-Boot proper does not count bootcount past it  *)
  SplIsAB,       (* TRUE: DEBIX 8MP SPL; FALSE: the 8MM SPL without A/B    *)
  AllowForce,    (* whether an operator may use commit --force             *)
  ManualProper   (* whether an operator may use fw_setenv boot_os no       *)

ASSUME LinuxABAssumption ==
  /\ FalconOk \subseteq Images /\ ProperOk \subseteq Images
  /\ FalconAbsent \subseteq Images /\ FalconAbsent \cap FalconOk = {}
  /\ Healthy \subseteq FalconOk
  /\ {"torn", "empty"} \cap Images = {}
  /\ "none" \notin Sessions
  /\ BootLimit \in 1..9   \* one digit: SPL writes bootcount as one character
  /\ MaxFaults \in Nat /\ MaxCount \in Nat
  /\ SplIsAB \in BOOLEAN /\ AllowForce \in BOOLEAN
  /\ ManualProper \in BOOLEAN

VARIABLES
  ab_slot, ab_fallback_slot, upgrade_available, bootcount, boot_os,
  mbr,        (* slot with the MBR bootable flag                           *)
  root, boot, (* contents of root p5/p6 and BOOT p1/p2                     *)
  tryTo,      (* TO= of /data/ab/linux-try, or "none"                      *)
  phase,      (* where the boot is                                         *)
  cur,        (* slot the boot is using; in Linux, RUNNING of the ab script *)
  path,       (* /chosen ab,boot-path                                      *)
  rearmed,    (* falcon-rearm.service has run in this boot                 *)
  mem,        (* SPL's environment in RAM after it picked the slot         *)
  op,         (* the ab command that holds /run/ab/lock, and its next step *)
  who,        (* the session that command belongs to, for root and boot    *)
  spc,        (* last finished step of each PC session                     *)
  simg,       (* image each session installs                               *)
  stgt,       (* try_target() read by the session's command, or "none"     *)
  good,       (* history: contents committed and not written since         *)
  tries,      (* history: boots of the trial slot since it was armed       *)
  faults,     (* history: env_save errors so far                           *)
  cut         (* history: a reset interrupted a command before its mbr_set *)

envVars  == <<ab_slot, ab_fallback_slot, upgrade_available, bootcount, boot_os>>
slotVars == <<ab_slot, ab_fallback_slot, upgrade_available, bootcount>>
store    == <<root, boot>>
bootVars == <<phase, cur, path, rearmed, mem>>
cmdVars  == <<op, who>>
sessVars == <<spc, simg, stgt>>
vars == <<envVars, mbr, store, tryTo, bootVars, cmdVars, sessVars,
          good, tries, faults, cut>>

Slots == {"a", "b"}
Other(s) == IF s = "a" THEN "b" ELSE "a"
Contents == Images \cup {"torn", "empty"}
Phases == {"spl", "picked", "falcon", "proper", "alt", "sysboot", "linux", "stuck"}
WriteOps == {"root", "boot"}
Ops == WriteOps \cup {"none", "commit_mbr", "commit_rm", "cancel_mbr",
                      "cancel_rm", "again_env", "reboot"}
\* SPL's RAM environment while no slot has been picked
NoMem == [slot |-> "a", ua |-> 0, cnt |-> 0]
Min9(n) == IF n > 9 THEN 9 ELSE n

\* The slot the board is committed to: the fallback while a trial is pending
Committed == IF upgrade_available = 1 THEN ab_fallback_slot ELSE ab_slot

Whole(s) == root[s] = boot[s] /\ boot[s] \in Images

\* What loading and starting falcon.itb of slot s can do. A slot whose root
\* and BOOT differ or are half written may do anything.
FalconOutcome(s) ==
  CASE boot[s] = "empty" -> {"absent"}
    [] Whole(s) /\ boot[s] \in FalconOk -> {"up"}
    [] Whole(s) /\ boot[s] \in FalconAbsent -> {"absent"}
    [] Whole(s) /\ boot[s] \notin FalconOk \cup FalconAbsent -> {"crash"}
    [] OTHER -> {"up", "absent", "crash"}

\* The same for u-boot.itb and for the extlinux kernel of slot s
ProperOutcome(s) ==
  CASE boot[s] = "empty" -> {"crash"}
    [] Whole(s) -> IF boot[s] \in ProperOk THEN {"up"} ELSE {"crash"}
    [] OTHER -> {"up", "crash"}

\* linux_slot_ok: extlinux.conf and the ext4 signature, no more
LinuxSlotOk(s) ==
  CASE boot[s] = "empty" \/ root[s] = "empty" -> {FALSE}
    [] Whole(s) -> {TRUE}
    [] OTHER -> BOOLEAN

Init ==
  /\ ab_slot = "a" /\ ab_fallback_slot = "a" /\ upgrade_available = 0
  /\ bootcount = 0 /\ boot_os = "yes" /\ mbr = "a"
  /\ \E i \in Healthy : /\ root = [s \in Slots |-> IF s = "a" THEN i ELSE "empty"]
                        /\ boot = root
  /\ tryTo = "none" /\ phase = "spl" /\ cur = "a" /\ path = "none"
  /\ rearmed = FALSE /\ mem = NoMem
  /\ op = "none" /\ who = "none"
  /\ spc = [o \in Sessions |-> "idle"] /\ simg = [o \in Sessions |-> "empty"]
  /\ stgt = [o \in Sessions |-> "none"]
  /\ good = [s \in Slots |-> s = "a"]
  /\ tries = 0 /\ faults = 0 /\ cut = FALSE
-----------------------------------------------------------------------------
(* The boot chain.                                                          *)

\* Bug: the limit is compared one boot late
LimitLate(n) == n > BootLimit + 1
\* bootcount past bootlimit, in the SPL and in U-Boot proper
LimitHit(n) == n > BootLimit

\* Bug: the slot that failed is kept as ab_slot
FallbackKeeps == ab_slot
\* ab_fallback_slot, which no command ever leaves invalid (TypeOK)
FallbackSlot == ab_fallback_slot

EnvWrite(slot, fb, ua, cnt) ==
  /\ ab_slot' = slot /\ ab_fallback_slot' = fb
  /\ upgrade_available' = ua /\ bootcount' = cnt

\* An env_save whose error is only printed: the new values reach the eMMC
\* (newBootOs too), or nothing does
SaveOrFault(slot, fb, ua, cnt, newBootOs) ==
  \/ EnvWrite(slot, fb, ua, cnt) /\ boot_os' = newBootOs /\ UNCHANGED faults
  \/ /\ faults < MaxFaults
     /\ faults' = faults + 1 /\ UNCHANGED envVars

\* spl_mmc_fs_boot_partition: choose the slot, count the trial
SplMem ==
  IF upgrade_available = 0 THEN [slot |-> ab_slot, ua |-> 0, cnt |-> bootcount]
  ELSE IF LimitHit(bootcount + 1) THEN [slot |-> FallbackSlot, ua |-> 0, cnt |-> 0]
  ELSE [slot |-> ab_slot, ua |-> 1, cnt |-> Min9(bootcount + 1)]

\* Bug: the environment is switched back, this boot is not
PickedStale(m) == ab_slot
PickedSlot(m) == m.slot

SplPick ==
  /\ SplIsAB /\ phase = "spl"
  /\ mem' = SplMem /\ cur' = PickedSlot(SplMem) /\ phase' = "picked"
  /\ IF upgrade_available = 0
     THEN UNCHANGED <<envVars, faults>>
     ELSE SaveOrFault(SplMem.slot, ab_fallback_slot, SplMem.ua, SplMem.cnt, boot_os)
  /\ tries' = IF SplMem.ua = 1 THEN tries + 1 ELSE tries
  /\ UNCHANGED <<mbr, store, tryTo, path, rearmed, cmdVars, sessVars, good, cut>>

\* Bug: the dead man is not set
DeadManOff == "yes"
\* boot_os as the SPL leaves it when it enters falcon
DeadMan == "no"

\* spl_start_uboot: falcon only with boot_os=yes, and then boot_os=no is saved
\* together with whatever the earlier save could not write
SplStart ==
  /\ phase = "picked"
  /\ mem' = NoMem
  /\ IF boot_os = "yes"
     THEN /\ phase' = "falcon"
          /\ SaveOrFault(mem.slot, ab_fallback_slot, mem.ua, mem.cnt, DeadMan)
     ELSE phase' = "proper" /\ UNCHANGED <<envVars, faults>>
  /\ UNCHANGED <<mbr, store, tryTo, cur, path, rearmed, cmdVars, sessVars,
                 good, tries, cut>>

\* The 8MM SPL: the MBR slot; proper in a trial or with boot_os=no; no dead man
OldSplStart ==
  /\ ~SplIsAB /\ phase = "spl"
  /\ cur' = mbr
  /\ phase' = IF upgrade_available = 1 \/ boot_os = "no" THEN "proper" ELSE "falcon"
  /\ UNCHANGED <<envVars, mbr, store, tryTo, path, rearmed, mem, cmdVars,
                 sessVars, good, tries, faults, cut>>

LinuxUp(p) == phase' = "linux" /\ path' = p

\* falcon.itb of the slot: Linux, or the SPL goes on to u-boot.itb, or a crash
FalconBoot ==
  /\ phase = "falcon"
  /\ \E r \in FalconOutcome(cur) :
       \/ r = "up" /\ LinuxUp("falcon")
       \/ r = "absent" /\ phase' = "proper" /\ UNCHANGED path
       \/ r = "crash" /\ phase' = "stuck" /\ UNCHANGED path
  /\ UNCHANGED <<envVars, mbr, store, tryTo, cur, rearmed, mem, cmdVars,
                 sessVars, good, tries, faults, cut>>

\* bootcount_inc of BOOTCOUNT_ENV
ProperInc == bootcount + 1

\* U-Boot proper counts the trial again, then bootcmd or altbootcmd
ProperCount ==
  /\ phase = "proper" /\ "up" \in ProperOutcome(cur)
  /\ bootcount < MaxCount
  /\ IF upgrade_available = 1
     THEN SaveOrFault(ab_slot, ab_fallback_slot, 1, ProperInc, boot_os)
     ELSE UNCHANGED <<envVars, faults>>
  /\ IF upgrade_available = 1 /\ LimitHit(ProperInc)
     THEN phase' = "alt" /\ UNCHANGED <<cur, tries>>
     ELSE /\ phase' = "sysboot" /\ cur' = ab_slot
          /\ tries' = IF upgrade_available = 1 /\ ~SplIsAB THEN tries + 1 ELSE tries
  /\ UNCHANGED <<mbr, store, tryTo, path, rearmed, mem, cmdVars, sessVars, good, cut>>

\* altbootcmd: back to the fallback slot, saveenv, ab_boot
AltBoot ==
  /\ phase = "alt"
  /\ SaveOrFault(FallbackSlot, ab_fallback_slot, 0, 0, boot_os)
  /\ cur' = FallbackSlot /\ phase' = "sysboot"
  /\ UNCHANGED <<mbr, store, tryTo, path, rearmed, mem, cmdVars, sessVars,
                 good, tries, cut>>

\* ab_boot: the extlinux kernel of the slot
Sysboot ==
  /\ phase = "sysboot" /\ "up" \in ProperOutcome(cur) /\ LinuxUp("proper")
  /\ UNCHANGED <<envVars, mbr, store, tryTo, cur, rearmed, mem, cmdVars,
                 sessVars, good, tries, faults, cut>>

\* u-boot.itb or its kernel does not come up
ProperFails ==
  /\ phase \in {"proper", "sysboot"} /\ "crash" \in ProperOutcome(cur)
  /\ phase' = "stuck"
  /\ UNCHANGED <<envVars, mbr, store, tryTo, cur, path, rearmed, mem, cmdVars,
                 sessVars, good, tries, faults, cut>>

\* falcon-rearm.service (8MP only), once per boot and unconditionally
Rearm ==
  /\ SplIsAB /\ phase = "linux" /\ ~rearmed
  /\ rearmed' = TRUE /\ boot_os' = "yes"
  /\ UNCHANGED <<slotVars, mbr, store, tryTo, phase, cur, path, mem, cmdVars,
                 sessVars, good, tries, faults, cut>>

\* A new boot: commands on the board die, and so does a session waiting for one
Restart ==
  /\ phase' = "spl" /\ cur' = "a" /\ path' = "none" /\ rearmed' = FALSE
  /\ mem' = NoMem /\ op' = "none" /\ who' = "none"
  /\ spc' = [o \in Sessions |-> IF stgt[o] # "none" THEN "idle" ELSE spc[o]]
  /\ simg' = [o \in Sessions |-> IF stgt[o] # "none" THEN "empty" ELSE simg[o]]
  /\ stgt' = [o \in Sessions |-> "none"]
  /\ cut' = (cut \/ op \in {"commit_mbr", "cancel_mbr"})
  /\ UNCHANGED <<envVars, mbr, store, tryTo, good, tries, faults>>

\* Power cut, watchdog, `reboot` of maybe_reboot or by hand, a stuck board switched
\* off and on
Reset == phase # "spl" /\ Restart
-----------------------------------------------------------------------------
(* scripts/ab.sh linux try: begin, root, boot and arm are four ssh          *)
(* invocations; each takes the lock for itself only.                        *)

Free == phase = "linux" /\ op = "none"

\* Bug: begin does not look at upgrade_available
MayBeginInTrial == ab_slot = cur
MayBegin == upgrade_available # 1 /\ ab_slot = cur

HasTarget(o) == stgt[o] # "none"

\* linux_try_begin
TryBegin(o) ==
  /\ Free /\ spc[o] = "idle"
  /\ MayBegin
  /\ tryTo' = Other(cur)
  /\ \E i \in Images : simg' = [simg EXCEPT ![o] = i]
  /\ spc' = [spc EXCEPT ![o] = "begun"]
  /\ UNCHANGED <<envVars, mbr, store, bootVars, cmdVars, stgt, good, tries,
                 faults, cut>>

\* try_target is read before the lock is taken
ReadTarget(o) ==
  /\ phase = "linux" /\ spc[o] # "idle" /\ stgt[o] = "none" /\ tryTo # "none"
  /\ stgt' = [stgt EXCEPT ![o] = tryTo]
  /\ UNCHANGED <<envVars, mbr, store, tryTo, bootVars, cmdVars, spc, simg,
                 good, tries, faults, cut>>

\* A command dies (no linux-try, lock busy, write or compare error), or the PC
\* stops: the script ends and a half-written partition stays as it is
Abandon(o) ==
  /\ spc[o] # "idle"
  /\ spc' = [spc EXCEPT ![o] = "idle"] /\ simg' = [simg EXCEPT ![o] = "empty"]
  /\ stgt' = [stgt EXCEPT ![o] = "none"]
  /\ IF who = o THEN op' = "none" /\ who' = "none" ELSE UNCHANGED cmdVars
  /\ UNCHANGED <<envVars, mbr, store, tryTo, bootVars, good, tries, faults, cut>>

\* linux_try_root and linux_try_boot: take the lock and start to overwrite
StartWrite(o) ==
  /\ Free /\ HasTarget(o) /\ spc[o] \in {"begun", "rooted"}
  /\ who' = o
  /\ IF spc[o] = "begun"
     THEN op' = "root" /\ root' = [root EXCEPT ![stgt[o]] = "torn"] /\ UNCHANGED boot
     ELSE op' = "boot" /\ boot' = [boot EXCEPT ![stgt[o]] = "torn"] /\ UNCHANGED root
  /\ good' = [good EXCEPT ![stgt[o]] = FALSE]
  /\ UNCHANGED <<envVars, mbr, tryTo, bootVars, sessVars, tries, faults, cut>>

\* written, synced and read back
FinishWrite(o) ==
  /\ who = o /\ op \in WriteOps
  /\ IF op = "root"
     THEN /\ root' = [root EXCEPT ![stgt[o]] = simg[o]] /\ UNCHANGED boot
          /\ spc' = [spc EXCEPT ![o] = "rooted"]
     ELSE /\ boot' = [boot EXCEPT ![stgt[o]] = simg[o]] /\ UNCHANGED root
          /\ spc' = [spc EXCEPT ![o] = "booted"]
  /\ stgt' = [stgt EXCEPT ![o] = "none"]
  /\ op' = "none" /\ who' = "none"
  /\ UNCHANGED <<envVars, mbr, tryTo, bootVars, simg, good, tries, faults, cut>>

\* maybe_reboot: reboot, or leave it to the operator with --no-reboot
MaybeReboot == op' \in {"none", "reboot"} /\ UNCHANGED who

\* linux_try_arm: only linux-try is looked at, neither upgrade_available nor RUNNING
TryArm(o) ==
  /\ Free /\ spc[o] = "booted" /\ HasTarget(o)
  /\ EnvWrite(stgt[o], cur, 1, 0)
  /\ tries' = 0
  /\ spc' = [spc EXCEPT ![o] = "idle"] /\ simg' = [simg EXCEPT ![o] = "empty"]
  /\ stgt' = [stgt EXCEPT ![o] = "none"]
  /\ MaybeReboot
  /\ UNCHANGED <<boot_os, mbr, store, tryTo, bootVars, good, faults, cut>>
-----------------------------------------------------------------------------
(* Commands of the board that operators call over ssh.                      *)

\* linux_checks, the parts the model can tell apart
ChecksPass ==
  /\ Whole(cur) /\ boot[cur] \in Healthy
  /\ SplIsAB => path = "falcon" /\ rearmed /\ boot_os = "yes"

\* Bug: the flag goes to the wrong entry
MbrSwapped(s) == mbr' = Other(s) /\ cut' = FALSE
MbrSet(s) == mbr' = s /\ cut' = FALSE

DropTry == tryTo' = "none"

\* linux_commit without a pending trial only repairs the MBR
CommitAgain ==
  /\ Free /\ upgrade_available # 1 /\ ab_slot = cur
  /\ MbrSet(cur)
  /\ UNCHANGED <<envVars, store, tryTo, bootVars, cmdVars, sessVars, good,
                 tries, faults>>

CommitEnv(force) ==
  /\ Free /\ upgrade_available = 1 /\ ab_slot = cur
  /\ force \/ ChecksPass
  /\ EnvWrite(cur, cur, 0, 0)
  /\ good' = [good EXCEPT ![cur] = TRUE]
  /\ op' = "commit_mbr"
  /\ UNCHANGED <<boot_os, mbr, store, tryTo, bootVars, who, sessVars, tries,
                 faults, cut>>

\* linux_rollback in a trial: back to the fallback slot
CancelEnv ==
  /\ Free /\ upgrade_available = 1
  /\ EnvWrite(ab_fallback_slot, ab_fallback_slot, 0, 0)
  /\ op' = "cancel_mbr"
  /\ UNCHANGED <<boot_os, mbr, store, tryTo, bootVars, who, sessVars, good,
                 tries, faults, cut>>

\* mbr_set of both: the slot just written to the environment
SwitchMbr ==
  /\ op \in {"commit_mbr", "cancel_mbr"}
  /\ MbrSet(ab_slot)
  /\ op' = IF op = "commit_mbr" THEN "commit_rm" ELSE "cancel_rm"
  /\ UNCHANGED <<envVars, store, tryTo, bootVars, who, sessVars, good, tries, faults>>

SwitchRm ==
  /\ op \in {"commit_rm", "cancel_rm"}
  /\ DropTry
  /\ IF op = "commit_rm" THEN op' = "none" /\ UNCHANGED who ELSE MaybeReboot
  /\ UNCHANGED <<envVars, mbr, store, bootVars, sessVars, good, tries, faults, cut>>

\* linux_rollback without a trial: try the other slot again, file first
AgainRm ==
  /\ Free /\ upgrade_available # 1 /\ ab_slot = cur
  /\ TRUE \in LinuxSlotOk(Other(cur))
  /\ DropTry /\ op' = "again_env"
  /\ UNCHANGED <<envVars, mbr, store, bootVars, who, sessVars, good, tries, faults, cut>>

AgainEnv ==
  /\ op = "again_env"
  /\ EnvWrite(Other(cur), cur, 1, 0)
  /\ tries' = 0
  /\ MaybeReboot
  /\ UNCHANGED <<boot_os, mbr, store, tryTo, bootVars, sessVars, good, faults, cut>>

\* fw_setenv boot_os no: the documented way to force the proper path
ForceProper ==
  /\ ManualProper /\ Free /\ rearmed
  /\ boot_os' = "no"
  /\ UNCHANGED <<slotVars, mbr, store, tryTo, bootVars, cmdVars, sessVars,
                 good, tries, faults, cut>>
-----------------------------------------------------------------------------
BootStep == SplPick \/ SplStart \/ OldSplStart \/ FalconBoot \/ ProperCount
            \/ AltBoot \/ Sysboot \/ ProperFails

SessionStep == \E o \in Sessions :
  TryBegin(o) \/ ReadTarget(o) \/ Abandon(o) \/ StartWrite(o) \/ FinishWrite(o)
  \/ TryArm(o)

CommandStep ==
  \/ CommitAgain \/ CancelEnv \/ SwitchMbr \/ SwitchRm \/ AgainRm \/ AgainEnv
  \/ \E force \in {f \in BOOLEAN : f => AllowForce} : CommitEnv(force)

Next == BootStep \/ Rearm \/ Reset \/ SessionStep \/ CommandStep \/ ForceProper

Spec == Init /\ [][Next]_vars

\* The boot runs on its own, falcon-rearm is a unit of every boot, and a board
\* that hangs is switched off and on
PowerCycle == phase = "stuck" /\ Restart
Fairness == WF_vars(BootStep) /\ WF_vars(Rearm) /\ WF_vars(PowerCycle)
FairSpec == Spec /\ Fairness

\* The promise LinuxAB implements (module ABSlots)
Abstract == INSTANCE ABSlots WITH
  committed <- Committed, pending <- upgrade_available = 1, intact <- good,
  running <- IF phase = "linux" THEN cur ELSE "off"
-----------------------------------------------------------------------------
(* Properties.                                                              *)

\* Every variable has its type.
TypeOK ==
  /\ ab_slot \in Slots /\ ab_fallback_slot \in Slots /\ upgrade_available \in {0, 1}
  /\ bootcount \in Nat /\ boot_os \in {"yes", "no"}
  /\ mbr \in Slots /\ root \in [Slots -> Contents] /\ boot \in [Slots -> Contents]
  /\ tryTo \in Slots \cup {"none"}
  /\ phase \in Phases /\ cur \in Slots /\ path \in {"none", "falcon", "proper"}
  /\ rearmed \in BOOLEAN
  /\ mem \in [slot : Slots, ua : {0, 1}, cnt : Nat]
  /\ op \in Ops /\ who \in Sessions \cup {"none"}
  /\ spc \in [Sessions -> {"idle", "begun", "rooted", "booted"}]
  /\ simg \in [Sessions -> Images \cup {"empty"}]
  /\ stgt \in [Sessions -> Slots \cup {"none"}]
  /\ good \in [Slots -> BOOLEAN]
  /\ tries \in Nat /\ faults \in 0..MaxFaults /\ cut \in BOOLEAN

\* The slot the board returns to (ab_slot, or ab_fallback_slot in a trial) holds
\* exactly what was committed there, whatever order sessions, commands, resets
\* and fallbacks come in; without --force it is a complete healthy image.
CommittedIntact ==
  /\ good[Committed]
  /\ ~AllowForce => Whole(Committed) /\ boot[Committed] \in Healthy

\* linux_try_root and linux_try_boot never overwrite the slot Linux runs from.
RunningSlotNotWritten == op \in WriteOps => phase = "linux" /\ stgt[who] # cur

\* A trial slot is booted at most bootlimit times before the boot chain goes
\* back, plus one for each env_save that failed; with the SPL counting,
\* bootcount passes bootlimit by no more than the count proper adds before
\* altbootcmd and those errors.
TrialBounded ==
  /\ upgrade_available = 1 => tries <= BootLimit + faults
  /\ SplIsAB => bootcount <= BootLimit + 1 + faults

\* The MBR flag names the committed slot unless a command is between its two
\* writes or was cut there and commit has not been run again.
MbrAligned == op \notin {"commit_mbr", "cancel_mbr"} /\ ~cut => mbr = Committed

\* The committed slot moves only to the slot Linux is running from in a pending
\* trial: no fallback, rollback, arm or reset moves it.
CommittedMoves ==
  [][Committed' # Committed => phase = "linux" /\ cur = Committed' /\ upgrade_available = 1]_vars

\* Linux comes up from the committed slot or from the slot of a pending trial.
BootsWhatEnvSays ==
  [][phase # "linux" /\ phase' = "linux"
       => cur = Committed \/ (upgrade_available = 1 /\ cur = ab_slot)]_vars

\* Every step of the boot chain, the commands and the sessions is a step of the
\* two-slot promise: see ABSlots.
ImplementsABSlots == Abstract!Spec

CutInBoot == phase \notin {"spl", "stuck", "linux"} /\ Restart

\* If the power is not cut again and again in the middle of boots, the board
\* keeps coming up in Linux, whatever images were tried or armed, as long as
\* the committed image can come up through proper.
Recovers ==
  <>[](Whole(Committed) /\ boot[Committed] \in ProperOk) /\ <>[][~CutInBoot]_vars
    => []<>(phase = "linux")
=============================================================================
