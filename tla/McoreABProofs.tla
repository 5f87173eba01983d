--------------------------- MODULE McoreABProofs ---------------------------
(***************************************************************************)
(* The firmware slots of the M core, for every set of firmware and every    *)
(* number of env_save errors.  That the committed slot is never written     *)
(* needs an operator who waits for `ab mcore confirm`: hypothesis Waits.     *)
(*                                                                          *)
(* The invariant follows one image from the SPL to the commit: what the SPL *)
(* staged is what /chosen names, and its file stays the same while confirm  *)
(* judges it (JudgesTheFile); a command, which can only run when confirm is *)
(* done, writes the slot that is not committed (WritesTheOther).            *)
(* What a failed trial ends with is at the end (TrialEndsCommitted).        *)
(***************************************************************************)
EXTENDS McoreAB, TLAPS

Waits == WaitForConfirm = TRUE

Commands == {"copy", "mv", "cmp", "arm"}

JudgesTheFile ==
  /\ phase = "spl" => op = "none" /\ cpc = "done"
  /\ phase = "staged" => op = "none" /\ cpc = "done"
  /\ phase = "staged" /\ loaded # "none" => img[loaded] = fw
  /\ cpc # "done" => /\ phase = "linux" /\ op = "none" /\ ctry # "none"
                     /\ cslot = loaded
                     /\ loaded # "none" => img[loaded] = fw
  /\ cpc \in {"wait", "commit"} => cslot = ctry
  /\ cpc = "commit" => fw \in Alive

WritesTheOther ==
  op \in Commands => cpc = "done" /\ otgt # mcore_slot

IInv == TypeOK /\ CommittedAlive /\ JudgesTheFile /\ WritesTheOther

\* The first state.
LEMMA InitIInv == Init => IInv
  BY McoreABAssumption
  DEF Init, IInv, TypeOK, CommittedAlive, JudgesTheFile, WritesTheOther,
      Slots, MaybeSlot, Files, Contents, Commands

\* Every step keeps the types.
LEMMA NextTypes == TypeOK /\ [Next]_vars => TypeOK'
<1> SUFFICES ASSUME TypeOK, [Next]_vars PROVE TypeOK'
  OBVIOUS
<1> USE McoreABAssumption
        DEF TypeOK, Slots, MaybeSlot, Files, Contents, env, spl, chosen, conf, cmd, hist
<1>1. ASSUME Stage PROVE TypeOK'
  <2>1. mcore_try' \in MaybeSlot /\ faults' \in 0..MaxFaults
    BY <1>1 DEF Stage, ClearTry, TryCleared
  <2>2. trials' \in Nat
    BY <1>1 DEF Stage
  <2>3. loaded' \in MaybeSlot /\ fw' \in Firmwares \cup {"none"}
    BY <1>1 DEF Stage, Pick
  <2> QED
    BY <1>1, <2>1, <2>2, <2>3 DEF Stage
<1>2. ASSUME LinuxUp PROVE TypeOK'
  BY <1>2 DEF LinuxUp
<1>3. ASSUME Restart PROVE TypeOK'
  BY <1>3 DEF Restart
<1>4. ASSUME ConfirmStep PROVE TypeOK'
  BY <1>3, <1>4 DEF ConfirmStep, ConfirmRead, ConfirmJudge, ConfirmCommit, Tried, ConfirmFail
<1>5. ASSUME CommandStep PROVE TypeOK'
  BY <1>5 DEF CommandStep, SendFile, UpdateBegin, Target, UpdateCopy, UpdateMv,
     UpdateCmp, RollbackBegin, Other, Arm, OpDies
<1>6. ASSUME UNCHANGED vars PROVE TypeOK'
  BY <1>6 DEF vars
<1> QED
  BY <1>1, <1>2, <1>3, <1>4, <1>5, <1>6
     DEF Next, BootStep, Reset, DoReboot, McoreResets

\* A restart keeps the rest of the invariant: nothing runs after it.
LEMMA RestartIInv ==
  ASSUME CommittedAlive, Restart
  PROVE  CommittedAlive' /\ JudgesTheFile' /\ WritesTheOther'
  BY DEF Restart, CommittedAlive, JudgesTheFile, WritesTheOther, env, Commands

\* Every step keeps the invariant.
LEMMA NextIInv == ASSUME Waits PROVE IInv /\ [Next]_vars => IInv'
<1> SUFFICES ASSUME IInv, [Next]_vars PROVE IInv'
  OBVIOUS
<1>0. TypeOK'
  BY NextTypes DEF IInv
<1> DEFINE Rest == CommittedAlive /\ JudgesTheFile /\ WritesTheOther
<1>r. Rest /\ TypeOK
  BY DEF IInv
<1> HIDE DEF Rest
<1>1. ASSUME Restart PROVE Rest'
  BY <1>1, <1>r, RestartIInv DEF Rest
<1> USE McoreABAssumption
        DEF CommittedAlive, JudgesTheFile, WritesTheOther, Commands,
            Slots, MaybeSlot, env, spl, chosen, conf, cmd
<1>2. ASSUME Stage PROVE Rest'
  BY <1>2, <1>r DEF Rest, Stage
<1>3. ASSUME LinuxUp PROVE Rest'
  BY <1>3, <1>r DEF Rest, LinuxUp
<1>4. ASSUME ConfirmRead PROVE Rest'
  BY <1>4, <1>r DEF Rest, ConfirmRead, Placed
<1>5. ASSUME ConfirmJudge PROVE Rest'
  BY <1>5, <1>r DEF Rest, ConfirmJudge, Judged
<1>6. ASSUME ConfirmCommit PROVE Rest'
  BY <1>6, <1>r DEF Rest, ConfirmCommit, Tried
<1>7. ASSUME ConfirmFail PROVE Rest'
  BY <1>1, <1>7, <1>r DEF Rest, ConfirmFail
<1>8. ASSUME SendFile \/ OpDies PROVE Rest'
  BY <1>8, <1>r DEF Rest, SendFile, OpDies
<1>9. ASSUME UpdateBegin \/ RollbackBegin PROVE Rest'
  BY <1>9, <1>r DEF Waits, Rest, UpdateBegin, RollbackBegin, MayStart, Target, Other
<1>10. ASSUME UpdateCopy \/ UpdateMv \/ UpdateCmp PROVE Rest'
  BY <1>10, <1>r DEF Rest, UpdateCopy, UpdateMv, UpdateCmp, TypeOK
<1>11. ASSUME Arm PROVE Rest'
  BY <1>11, <1>r DEF Rest, Arm, TypeOK
<1>12. ASSUME UNCHANGED vars PROVE Rest'
  BY <1>12, <1>r DEF Rest, vars
<1>13. Rest'
  BY <1>1, <1>2, <1>3, <1>4, <1>5, <1>6, <1>7, <1>8, <1>9, <1>10, <1>11, <1>12
     DEF Next, BootStep, Reset, DoReboot, McoreResets, ConfirmStep, CommandStep
<1> QED
  BY <1>0, <1>13 DEF IInv, Rest

\* IInv holds in every reachable state.
LEMMA Inductive == ASSUME Waits PROVE Spec => []IInv
  BY InitIInv, NextIInv, PTL DEF Spec

\* What every variable of the boot, the service and the commands may hold, whether the
\* operators wait or not.
THEOREM TypeCorrect == Spec => []TypeOK
<1>1. Init => TypeOK
  BY InitIInv DEF IInv
<1> QED
  BY <1>1, NextTypes, PTL DEF Spec

\* The committed slot always holds complete firmware that has kept alive.
THEOREM CommittedStaysAlive == ASSUME Waits PROVE Spec => []CommittedAlive
<1>1. IInv => CommittedAlive
  BY DEF IInv
<1> QED
  BY <1>1, Inductive, PTL

\* confirm commits the firmware that is running, from the slot its file is in.
THEOREM ConfirmIsHonest == ASSUME Waits PROVE Spec => CommitsWhatRan
<1> DEFINE Honest == mcore_slot' # mcore_slot => loaded = mcore_slot' /\ img[loaded] = fw
<1>1. IInv /\ [Next]_vars => [Honest]_vars
  <2> SUFFICES ASSUME IInv, Next, mcore_slot' # mcore_slot
               PROVE  loaded = mcore_slot' /\ img[loaded] = fw
    BY DEF Honest
  <2>1. ConfirmCommit
    BY DEF Next, BootStep, Stage, LinuxUp, Reset, DoReboot, McoreResets, Restart,
       ConfirmStep, ConfirmRead, ConfirmJudge, ConfirmFail, CommandStep, SendFile,
       UpdateBegin, UpdateCopy, UpdateMv, UpdateCmp, RollbackBegin, Arm, OpDies, env
  <2> QED
    BY <2>1 DEF ConfirmCommit, Tried, IInv, JudgesTheFile
<1>2. []IInv /\ [][Next]_vars => [][Honest]_vars
  BY <1>1, PTL
<1> QED
  BY <1>2, Inductive, PTL DEF Spec, CommitsWhatRan
-----------------------------------------------------------------------------
(* How a trial ends.                                                        *)

\* Linux that confirm is done with, in a boot where it has judged a trial, has the
\* committed slot's firmware running.
CommittedRuns ==
  phase = "linux" /\ cpc = "done" /\ ctry # "none" /\ mcore_slot # "none"
    => loaded = mcore_slot

\* The trial is of the slot that is not committed, the SPL has cleared it before Linux
\* runs, and what confirm has read is still so when it decides.
TrialOfOther ==
  /\ mcore_try # "none" => mcore_try # mcore_slot
  /\ phase = "staged" => mcore_try = "none" /\ (tried # "none" => tried # mcore_slot)
  /\ cpc # "done" => mcore_try = "none" /\ ctry # mcore_slot
  /\ cpc \in {"wait", "commit", "failed"} => ccur = mcore_slot

BackInv == faults = 0 => TrialOfOther /\ CommittedRuns

LEMMA NextBack == ASSUME IInv, BackInv, [Next]_vars PROVE BackInv'
<1> USE DEF BackInv, TrialOfOther, CommittedRuns
<1>a. faults' = 0 => faults = 0
  <2>1. faults \in Nat
    BY McoreABAssumption DEF IInv, TypeOK
  <2> QED
    BY <2>1 DEF Next, BootStep, Stage, ClearTry, LinuxUp, Reset, DoReboot, McoreResets, Restart,
       ConfirmStep, ConfirmRead, ConfirmJudge, ConfirmCommit, ConfirmFail, CommandStep,
       SendFile, UpdateBegin, UpdateCopy, UpdateMv, UpdateCmp, RollbackBegin, Arm, OpDies,
       hist, vars
<1> SUFFICES ASSUME faults' = 0, TrialOfOther, CommittedRuns PROVE TrialOfOther' /\ CommittedRuns'
  BY <1>a
<1>j. JudgesTheFile /\ WritesTheOther
  BY DEF IInv
<1>1. ASSUME Restart PROVE TrialOfOther' /\ CommittedRuns'
  BY <1>1 DEF Restart, env
<1>2. CASE Stage
  <2>1. mcore_try' = "none"
    BY <1>a, <1>2 DEF Stage, ClearTry, TryCleared
  <2> QED
    BY <1>2, <1>j, <2>1 DEF Stage, JudgesTheFile, conf
<1>3. CASE LinuxUp
  BY <1>3 DEF LinuxUp, env
<1>4. CASE ConfirmRead
  BY <1>4, <1>j DEF ConfirmRead, JudgesTheFile, env, chosen
<1>5. CASE ConfirmJudge
  <2>1. cpc = "wait" /\ cpc' \in {"commit", "failed"}
    BY <1>5 DEF ConfirmJudge, Judged
  <2>2. UNCHANGED <<mcore_slot, mcore_try, phase, ctry, ccur, tried, loaded>>
    BY <1>5 DEF ConfirmJudge, env, chosen, spl
  <2> QED
    BY <2>1, <2>2
<1>6. CASE ConfirmCommit
  BY <1>6, <1>j DEF ConfirmCommit, Tried, JudgesTheFile, chosen, spl
<1>7. CASE ConfirmFail
  BY <1>1, <1>7 DEF ConfirmFail, Revert, env, chosen
<1>8. CASE Arm
  BY <1>8, <1>j DEF Arm, WritesTheOther, JudgesTheFile, Commands, spl, chosen, conf
<1>9. CASE SendFile \/ UpdateBegin \/ UpdateCopy \/ UpdateMv \/ UpdateCmp \/ RollbackBegin \/ OpDies
  BY <1>9 DEF SendFile, UpdateBegin, UpdateCopy, UpdateMv, UpdateCmp, RollbackBegin, OpDies,
     env, spl, chosen, conf
<1>10. CASE UNCHANGED vars
  BY <1>10 DEF vars, env, spl, chosen, conf
<1> QED
  BY <1>1, <1>2, <1>3, <1>4, <1>5, <1>6, <1>7, <1>8, <1>9, <1>10
     DEF Next, BootStep, Reset, DoReboot, McoreResets, ConfirmStep, CommandStep

\* A trial that confirm has judged ends with the committed slot's firmware running, if
\* no env_save of the SPL failed. (That confirm comes to its end needs fairness:
\* BackToCommitted, checked by TLC.)
THEOREM TrialEndsCommitted == ASSUME Waits PROVE Spec => [](faults = 0 => CommittedRuns)
<1>1. Init => BackInv
  BY DEF Init, BackInv, TrialOfOther, CommittedRuns
<1>2. IInv /\ BackInv /\ [Next]_vars => BackInv'
  BY NextBack
<1>3. BackInv => (faults = 0 => CommittedRuns)
  BY DEF BackInv
<1> QED
  BY <1>1, <1>2, <1>3, Inductive, PTL DEF Spec

-----------------------------------------------------------------------------
(* The one-shot of the SPL, whatever the operators do.                      *)

\* A trial that is armed has had one boot for each env_save error at most.
ArmedIsFresh ==
  /\ mcore_try # "none" => trials <= faults
  /\ trials <= 1 + faults

\* Only the SPL and the arming of a trial count.
LEMMA NextFresh == TypeOK /\ ArmedIsFresh /\ [Next]_vars => ArmedIsFresh'
<1> SUFFICES ASSUME TypeOK, ArmedIsFresh, [Next]_vars PROVE ArmedIsFresh'
  OBVIOUS
<1> USE McoreABAssumption DEF ArmedIsFresh, TypeOK, env, hist
<1>1. CASE Stage
  BY <1>1 DEF Stage, ClearTry, TryCleared
<1>2. CASE Arm
  BY <1>2 DEF Arm
<1>3. CASE ConfirmCommit
  BY <1>3 DEF ConfirmCommit, Tried
<1>4. CASE UNCHANGED <<mcore_try, hist>>
  BY <1>4
<1>5. Stage \/ Arm \/ ConfirmCommit \/ UNCHANGED <<mcore_try, hist>>
  BY DEF Next, BootStep, LinuxUp, Reset, DoReboot, McoreResets, Restart, ConfirmStep,
     ConfirmRead, ConfirmJudge, ConfirmFail, CommandStep, SendFile, UpdateBegin,
     UpdateCopy, UpdateMv, UpdateCmp, RollbackBegin, OpDies, vars
<1> QED
  BY <1>1, <1>2, <1>3, <1>4, <1>5

\* Firmware on trial is started once per arming, and once more for each env_save
\* error of the SPL.
THEOREM TriedOnce == Spec => []OneShot
<1>1. Init => TypeOK /\ ArmedIsFresh
  BY InitIInv DEF IInv, Init, ArmedIsFresh
<1>2. TypeOK /\ ArmedIsFresh /\ [Next]_vars => (TypeOK /\ ArmedIsFresh)'
  BY NextTypes, NextFresh
<1>3. ArmedIsFresh => OneShot
  BY DEF ArmedIsFresh, OneShot
<1> QED
  BY <1>1, <1>2, <1>3, PTL DEF Spec
=============================================================================
