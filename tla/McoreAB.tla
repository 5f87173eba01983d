------------------------------ MODULE McoreAB ------------------------------
(***************************************************************************)
(* The A/B firmware slots of the Cortex-M7 on the DEBIX 8MP: the SPL stages *)
(* one of mcore-a.img / mcore-b.img, consuming mcore_try before it reads;   *)
(* `ab mcore update` and `rollback` arm a one-shot trial; the boot service  *)
(* `ab mcore confirm` judges the trial by the keepalive and, WITHOUT taking *)
(* the ab lock, writes mcore_slot or reboots.                               *)
(* What the keepalive counts is the business of McoreConfirm; here a        *)
(* judgement can only pass for firmware that keeps alive.                   *)
(***************************************************************************)
EXTENDS Naturals

CONSTANTS
  Firmwares,     (* valid M-core images                                     *)
  Alive,         (* firmware whose keepalive arrives and goes on            *)
  Resetting,     (* firmware that resets the SoC                            *)
  MaxFaults,     (* bound: env_save errors of the SPL                       *)
  WaitForConfirm (* operators start no command while confirm is judging     *)

ASSUME McoreABAssumption ==
  /\ Alive \subseteq Firmwares /\ Resetting \subseteq Firmwares
  /\ Alive \cap Resetting = {}
  /\ {"none", "bad"} \cap Firmwares = {}
  /\ MaxFaults \in Nat /\ WaitForConfirm \in BOOLEAN

VARIABLES
  mcore_slot, mcore_try, (* the environment                                 *)
  img,      (* contents of mcore-a.img and mcore-b.img on p3                *)
  file,     (* /tmp/ab-mcore.img, which every PC session sends to           *)
  phase,    (* "spl", "staged" (M core released) or "linux"                 *)
  path,     (* "falcon" or "proper"                                         *)
  tried, loaded,  (* the SPL's mcore_tried and mcore_loaded                 *)
  fw,       (* the firmware that was staged, or "none"                      *)
  ctry, cslot,    (* /chosen mcore,try and mcore,slot                       *)
  cpc, ccur,      (* mcore_confirm: its next step, and cur                  *)
  op, otgt, ofile, (* the ab command holding the lock, tgt, what cp read    *)
  trials,   (* history: boots of a trial since it was armed                 *)
  faults    (* history: env_save errors                                     *)

env    == <<mcore_slot, mcore_try>>
spl    == <<path, tried, loaded, fw>>
chosen == <<ctry, cslot>>
conf   == <<cpc, ccur>>
cmd    == <<op, otgt, ofile>>
hist   == <<trials, faults>>
vars == <<env, img, file, phase, spl, chosen, conf, cmd, hist>>

Slots == {"a", "b"}
MaybeSlot == Slots \cup {"none"}
Other(s) == IF s = "a" THEN "b" ELSE "a"
Files == Firmwares \cup {"bad"}
Contents == Files \cup {"none"}

Init ==
  /\ mcore_slot = "none" /\ mcore_try = "none"
  /\ img = [s \in Slots |-> "none"] /\ file = "bad"
  /\ phase = "spl" /\ path = "falcon" /\ tried = "none" /\ loaded = "none"
  /\ fw = "none" /\ ctry = "none" /\ cslot = "none"
  /\ cpc = "done" /\ ccur = "none"
  /\ op = "none" /\ otgt = "a" /\ ofile = "bad"
  /\ trials = 0 /\ faults = 0
-----------------------------------------------------------------------------
(* The boot chain.                                                          *)

\* Bug: mcore_try is left for Linux to clear
TryKept == mcore_try
\* mcore_pick clears mcore_try and saves before anything is read
TryCleared == "none"

\* mcore_pick: the slot to stage, and the environment it leaves
Pick == IF mcore_try # "none" THEN mcore_try ELSE mcore_slot

ClearTry ==
  IF mcore_try = "none"
  THEN UNCHANGED <<mcore_try, faults>>
  ELSE \/ mcore_try' = TryCleared /\ UNCHANGED faults
       \/ /\ faults < MaxFaults /\ faults' = faults + 1
          /\ UNCHANGED mcore_try

\* spl_mcore_stage; BL31 releases the core if something was staged
Stage ==
  /\ phase = "spl"
  /\ path' \in {"falcon", "proper"}
  /\ tried' = mcore_try
  /\ ClearTry
  /\ trials' = IF mcore_try # "none" THEN trials + 1 ELSE trials
  /\ IF Pick # "none" /\ img[Pick] \in Firmwares
     THEN loaded' = Pick /\ fw' = img[Pick]
     ELSE loaded' = "none" /\ fw' = "none"
  /\ phase' = "staged"
  /\ UNCHANGED <<mcore_slot, img, file, chosen, conf, cmd>>

\* Only the falcon path carries /chosen; the service runs if mcore,try is there
LinuxUp ==
  /\ phase = "staged" /\ phase' = "linux"
  /\ IF path = "falcon" THEN ctry' = tried /\ cslot' = loaded
                        ELSE ctry' = "none" /\ cslot' = "none"
  /\ cpc' = IF ctry' # "none" THEN "read" ELSE "done"
  /\ UNCHANGED <<env, img, file, spl, ccur, cmd, hist>>

\* What every reset does: commands and the service die
Restart ==
  /\ phase' = "spl"
  /\ tried' = "none" /\ loaded' = "none" /\ fw' = "none" /\ path' = "falcon"
  /\ ctry' = "none" /\ cslot' = "none" /\ cpc' = "done" /\ ccur' = "none"
  /\ op' = "none" /\ otgt' = "a" /\ ofile' = "bad" /\ file' = "bad"
  /\ UNCHANGED <<env, img, hist>>

\* Power cut, or `reboot` by hand
Reset == phase # "spl" /\ Restart

\* The reboot that maybe_reboot asked for
DoReboot == op = "reboot" /\ Restart

\* The M core resets the SoC
McoreResets == fw \in Resetting /\ Restart
-----------------------------------------------------------------------------
(* mcore_confirm, which takes no lock.                                      *)

Placed == cslot = ctry

\* Reads cur once, before it waits
ConfirmRead ==
  /\ cpc = "read" /\ ccur' = mcore_slot
  /\ cpc' = IF Placed THEN "wait" ELSE "failed"
  /\ UNCHANGED <<env, img, file, phase, spl, chosen, cmd, hist>>

\* Bug: a keepalive that stops is not noticed
JudgedAny == TRUE
Judged == fw \in Alive

\* Up to 30 s for the first keepalive and 10 s of it; good firmware may fail too
ConfirmJudge ==
  /\ cpc = "wait"
  /\ cpc' \in (IF Judged THEN {"commit", "failed"} ELSE {"failed"})
  /\ UNCHANGED <<env, img, file, phase, spl, chosen, ccur, cmd, hist>>

\* Bug: the slot on trial is asked of the environment, where the SPL cleared it
TriedByEnv == mcore_try
Tried == ctry

ConfirmCommit ==
  /\ cpc = "commit" /\ mcore_slot' = Tried /\ cpc' = "done"
  /\ UNCHANGED <<mcore_try, img, file, phase, spl, chosen, ccur, cmd, hist>>

\* Bug: the failed firmware goes on running
RevertNever == FALSE
\* There is a slot to go back to
Revert == ccur # "none" /\ ccur # ctry

ConfirmFail ==
  /\ cpc = "failed"
  /\ IF Revert THEN Restart
     ELSE /\ cpc' = "done"
          /\ UNCHANGED <<env, img, file, phase, spl, chosen, ccur, cmd, hist>>
-----------------------------------------------------------------------------
(* ab mcore update and rollback.                                            *)

MayStart == phase = "linux" /\ op = "none" /\ (WaitForConfirm => cpc = "done")

\* scripts/ab.sh sends its file, whoever else is using it
SendFile ==
  /\ phase = "linux" /\ file' \in Files
  /\ UNCHANGED <<env, img, phase, spl, chosen, conf, cmd, hist>>

Target(cur) == IF cur \in Slots THEN Other(cur) ELSE "a"

\* mcore_check, lock, no pending trial, the target
UpdateBegin ==
  /\ MayStart /\ file \in Firmwares /\ mcore_try = "none"
  /\ otgt' = Target(mcore_slot) /\ op' = "copy"
  /\ UNCHANGED <<env, img, file, phase, spl, chosen, conf, ofile, hist>>

\* cp to a temporary name, then mv over the slot: no rename is atomic on FAT
UpdateCopy ==
  /\ op = "copy" /\ op' = "mv"
  /\ ofile' = file /\ img' = [img EXCEPT ![otgt] = "bad"]
  /\ UNCHANGED <<env, file, phase, spl, chosen, conf, otgt, hist>>

UpdateMv ==
  /\ op = "mv" /\ op' = "cmp" /\ img' = [img EXCEPT ![otgt] = ofile]
  /\ UNCHANGED <<env, file, phase, spl, chosen, conf, otgt, ofile, hist>>

\* Read back from the eMMC and compared with the file as it is now
UpdateCmp ==
  /\ op = "cmp" /\ op' = IF file = ofile THEN "arm" ELSE "none"
  /\ UNCHANGED <<env, img, file, phase, spl, chosen, conf, otgt, ofile, hist>>

RollbackBegin ==
  /\ MayStart /\ mcore_slot \in Slots /\ img[Other(mcore_slot)] \in Firmwares
  /\ otgt' = Other(mcore_slot) /\ op' = "arm"
  /\ UNCHANGED <<env, img, file, phase, spl, chosen, conf, ofile, hist>>

\* envset mcore_try, then maybe_reboot
Arm ==
  /\ op = "arm" /\ mcore_try' = otgt /\ op' \in {"none", "reboot"}
  /\ trials' = 0
  /\ UNCHANGED <<mcore_slot, img, file, phase, spl, chosen, conf, otgt, ofile, faults>>

\* A command that fails or is killed leaves what it has written
OpDies ==
  /\ op \in {"copy", "mv", "cmp", "arm"} /\ op' = "none"
  /\ UNCHANGED <<env, img, file, phase, spl, chosen, conf, otgt, ofile, hist>>
-----------------------------------------------------------------------------
BootStep == Stage \/ LinuxUp
ConfirmStep == ConfirmRead \/ ConfirmJudge \/ ConfirmCommit \/ ConfirmFail
CommandStep == SendFile \/ UpdateBegin \/ UpdateCopy \/ UpdateMv \/ UpdateCmp
               \/ RollbackBegin \/ Arm \/ OpDies

Next == BootStep \/ Reset \/ DoReboot \/ McoreResets \/ ConfirmStep \/ CommandStep

Spec == Init /\ [][Next]_vars

\* The boot, the service and a reboot run on their own; firmware that resets
\* does so
FairSpec == Spec /\ WF_vars(BootStep) /\ WF_vars(ConfirmStep)
                 /\ WF_vars(DoReboot) /\ WF_vars(McoreResets)
-----------------------------------------------------------------------------
(* Properties.                                                              *)

\* Every variable has its type.
TypeOK ==
  /\ mcore_slot \in MaybeSlot /\ mcore_try \in MaybeSlot
  /\ img \in [Slots -> Contents] /\ file \in Files
  /\ phase \in {"spl", "staged", "linux"} /\ path \in {"falcon", "proper"}
  /\ tried \in MaybeSlot /\ loaded \in MaybeSlot /\ fw \in Firmwares \cup {"none"}
  /\ ctry \in MaybeSlot /\ cslot \in MaybeSlot
  /\ cpc \in {"read", "wait", "commit", "failed", "done"} /\ ccur \in MaybeSlot
  /\ op \in {"none", "copy", "mv", "cmp", "arm", "reboot"}
  /\ otgt \in Slots /\ ofile \in Files
  /\ trials \in Nat /\ faults \in 0..MaxFaults

\* The committed slot always holds complete firmware that has kept alive: no
\* update, interrupted or not, and no confirm puts anything else there.
CommittedAlive == mcore_slot # "none" => img[mcore_slot] \in Alive

\* Firmware on trial is started once per arming, plus once for each env_save
\* error of the SPL: even if it resets the SoC, the next boot is another slot's.
OneShot == trials <= 1 + faults

\* confirm commits a slot only while the very firmware in its file is running.
CommitsWhatRan ==
  [][mcore_slot' # mcore_slot => loaded = mcore_slot' /\ img[loaded] = fw]_vars

\* A trial that Linux sees on the falcon path ends with the committed slot's
\* firmware running, because it was committed or because the board went back;
\* an env_save error of the SPL repeats the trial, maybe where Linux does not see it.
BackToCommitted ==
  (ctry # "none" /\ mcore_slot # "none") ~> (loaded = mcore_slot \/ faults > 0)

=============================================================================
