--------------------------- MODULE LinuxABProofs ---------------------------
(***************************************************************************)
(* Proofs about LinuxAB for any images, any bootlimit and any number of    *)
(* env_save errors, and one PC session at a time: the run two_sessions     *)
(* overtakes a session. On the 8MP they hold as they stand. On the XPI a   *)
(* cut between environment and MBR boots the other slot: without one the   *)
(* same is true, with one the slots are safe unless commits were forced.   *)
(***************************************************************************)
EXTENDS LinuxAB, TLAPS

OneSession == \A o1, o2 \in Sessions : o1 = o2

\* The slot the running boot may use: committed, or under a pending trial
BootSlot(s) == s = Committed \/ (upgrade_available = 1 /\ s = ab_slot)

\* A pending trial is of the slot that is not the fallback
TrialInv == upgrade_available = 1 => ab_slot = Other(ab_fallback_slot)

\* SPL's environment in RAM never disagrees with the eMMC about the committed slot
MemInv == phase = "picked" =>
  /\ cur = mem.slot
  /\ mem.ua = 1 => upgrade_available = 1 /\ mem.slot = ab_slot
  /\ mem.ua = 0 => mem.slot = Committed

\* Every stage of the boot works on a slot the environment names
BootInv ==
  /\ phase \in {"falcon", "proper", "sysboot"} => BootSlot(cur)
  /\ phase = "alt" => upgrade_available = 1
  /\ phase = "linux" => path # "none"

\* A session that is still going may write only the slot that is not committed,
\* and only while Linux runs from the committed one
SessionInv ==
  /\ \A o \in Sessions : spc[o] # "idle" /\ tryTo # "none" =>
       /\ upgrade_available = 0 /\ tryTo = Other(ab_slot)
       /\ phase = "linux" => cur = ab_slot
  /\ \A o \in Sessions : stgt[o] # "none" =>
       /\ spc[o] # "idle" /\ phase = "linux"
       /\ cur = Committed /\ stgt[o] = Other(cur)

\* What the holder of the lock has already done
OpInv ==
  /\ op # "none" => phase = "linux"
  /\ op \in WriteOps => who \in Sessions /\ stgt[who] # "none"
  /\ op \notin WriteOps => who = "none"
  /\ op \in {"commit_mbr", "cancel_mbr"} => upgrade_available = 0
  /\ op = "again_env" => upgrade_available = 0 /\ ab_slot = cur /\ tryTo = "none"

IInv == /\ TypeOK /\ TrialInv /\ MemInv /\ BootInv /\ SessionInv /\ OpInv
        /\ CommittedIntact /\ MbrAligned

\* The SPL starts a slot that the environment names: the 8MP's by reading it, the
\* XPI's when the MBR agrees with it
Sure == phase = "spl" => SplIsAB \/ mbr = Committed

\* TypeOK of the initial state.
LEMMA InitType == Init => TypeOK
<1> SUFFICES ASSUME Init PROVE TypeOK
  OBVIOUS
<1>1. root \in [Slots -> Contents] /\ boot \in [Slots -> Contents]
  <2>1. PICK i \in Healthy :
          /\ root = [s \in Slots |-> IF s = "a" THEN i ELSE "empty"]
          /\ boot = root
    BY DEF Init
  <2>2. i \in Contents /\ "empty" \in Contents
    BY LinuxABAssumption DEF Contents
  <2> QED
    BY <2>1, <2>2
<1>2. /\ spc \in [Sessions -> {"idle", "begun", "rooted", "booted"}]
      /\ simg \in [Sessions -> Images \cup {"empty"}]
      /\ stgt \in [Sessions -> Slots \cup {"none"}]
      /\ good \in [Slots -> BOOLEAN]
  BY DEF Init
<1>3. /\ mem \in [slot : Slots, ua : {0, 1}, cnt : Nat]
      /\ op \in Ops /\ who \in Sessions \cup {"none"}
      /\ tries \in Nat /\ faults \in 0..MaxFaults
  BY LinuxABAssumption DEF Init, NoMem, Slots, Ops, WriteOps
<1>5. cut \in BOOLEAN
  BY Zenon DEF Init
<1>4. /\ ab_slot \in Slots /\ ab_fallback_slot \in Slots /\ upgrade_available \in {0, 1}
      /\ bootcount \in Nat /\ boot_os \in {"yes", "no"} /\ mbr \in Slots
      /\ tryTo \in Slots \cup {"none"} /\ phase \in Phases /\ cur \in Slots
      /\ path \in {"none", "falcon", "proper"} /\ rearmed \in BOOLEAN
  BY DEF Init, Slots, Phases
<1> QED
  BY <1>1, <1>2, <1>3, <1>4, <1>5 DEF TypeOK

\* The strengthened invariant holds initially.
LEMMA InitIInv == Init => IInv
<1> SUFFICES ASSUME Init PROVE IInv
  OBVIOUS
<1>1. TypeOK
  BY InitType
<1>2. TrialInv /\ MemInv /\ BootInv /\ SessionInv /\ OpInv /\ MbrAligned
  BY DEF Init, TrialInv, MemInv, BootInv, SessionInv, OpInv, MbrAligned, WriteOps, Committed
<1>3. CommittedIntact
  BY LinuxABAssumption DEF Init, CommittedIntact, Committed, Whole, Slots
<1> QED
  BY <1>1, <1>2, <1>3 DEF IInv

\* The boot steps keep the type invariant.
LEMMA BootType == ASSUME TypeOK, BootStep PROVE TypeOK'
<1> USE LinuxABAssumption
<1> USE DEF TypeOK, Slots, Phases, vars, envVars, slotVars, store, bootVars, cmdVars, sessVars
<1>1. CASE SplPick
  <2>1. /\ SplMem \in [slot : Slots, ua : {0, 1}, cnt : Nat]
        /\ mem' = SplMem /\ cur' = SplMem.slot
    BY <1>1 DEF SplPick, SplMem, LimitHit, FallbackSlot, Min9, PickedSlot
  <2> QED
    BY <1>1, <2>1 DEF SplPick, SaveOrFault, EnvWrite
<1>2. CASE SplStart
  BY <1>2 DEF SplStart, SaveOrFault, EnvWrite, DeadMan, NoMem
<1>3. CASE OldSplStart
  BY <1>3 DEF OldSplStart
<1>4. CASE FalconBoot
  BY <1>4 DEF FalconBoot, LinuxUp
<1>5. CASE ProperCount
  BY <1>5 DEF ProperCount, SaveOrFault, EnvWrite, ProperInc
<1>6. CASE AltBoot
  BY <1>6 DEF AltBoot, SaveOrFault, EnvWrite, FallbackSlot
<1>7. CASE Sysboot \/ ProperFails
  BY <1>7 DEF Sysboot, ProperFails, LinuxUp
<1> QED
  BY <1>1, <1>2, <1>3, <1>4, <1>5, <1>6, <1>7 DEF BootStep

\* A reset keeps it.
LEMMA RestartType == ASSUME TypeOK, Restart PROVE TypeOK'
<1>1. cut' \in BOOLEAN
  BY Zenon DEF TypeOK, Restart
<1>2. /\ spc' \in [Sessions -> {"idle", "begun", "rooted", "booted"}]
      /\ simg' \in [Sessions -> Images \cup {"empty"}]
      /\ stgt' \in [Sessions -> Slots \cup {"none"}]
  BY DEF TypeOK, Restart
<1>3. /\ phase' \in Phases /\ cur' \in Slots /\ path' \in {"none", "falcon", "proper"}
      /\ rearmed' \in BOOLEAN /\ mem' \in [slot : Slots, ua : {0, 1}, cnt : Nat]
      /\ op' \in Ops /\ who' \in Sessions \cup {"none"}
  BY DEF Restart, NoMem, Slots, Phases, Ops, WriteOps
<1> QED
  BY <1>1, <1>2, <1>3 DEF TypeOK, Restart, envVars, store

\* The steps of a session keep it.
LEMMA SessionType == ASSUME TypeOK, SessionStep PROVE TypeOK'
<1> USE LinuxABAssumption
<1> USE DEF TypeOK, Slots, vars, envVars, slotVars, store, bootVars, cmdVars, sessVars
<1> SUFFICES ASSUME NEW o \in Sessions,
                    TryBegin(o) \/ ReadTarget(o) \/ Abandon(o) \/ StartWrite(o)
                      \/ FinishWrite(o) \/ TryArm(o)
             PROVE  TypeOK'
  BY DEF SessionStep
<1>1. CASE TryBegin(o)
  BY <1>1 DEF TryBegin, Other
<1>2. CASE ReadTarget(o)
  BY <1>2 DEF ReadTarget
<1>3. CASE Abandon(o)
  BY <1>3 DEF Abandon, Ops
<1>4. CASE StartWrite(o)
  <2>1. good' \in [Slots -> BOOLEAN]
    BY <1>4, Zenon DEF StartWrite
  <2>2. root' \in [Slots -> Contents] /\ boot' \in [Slots -> Contents]
    BY <1>4 DEF StartWrite, Contents
  <2>3. op' \in Ops /\ who' \in Sessions \cup {"none"}
    BY <1>4 DEF StartWrite, Ops, WriteOps
  <2> QED
    BY <1>4, <2>1, <2>2, <2>3 DEF StartWrite
<1>5. CASE FinishWrite(o)
  BY <1>5 DEF FinishWrite, Ops, Contents
<1>6. CASE TryArm(o)
  BY <1>6 DEF TryArm, MaybeReboot, EnvWrite, HasTarget, Ops
<1> QED
  BY <1>1, <1>2, <1>3, <1>4, <1>5, <1>6

\* So do the commands of the board, falcon-rearm and fw_setenv.
LEMMA CommandType == ASSUME TypeOK, CommandStep \/ Rearm \/ ForceProper PROVE TypeOK'
<1> USE DEF TypeOK, Slots, vars, envVars, slotVars, store, bootVars, cmdVars, sessVars
<1>1. CASE CommitAgain
  <2>1. cut' \in BOOLEAN
    BY <1>1, Zenon DEF CommitAgain, MbrSet
  <2> QED
    BY <1>1, <2>1 DEF CommitAgain, MbrSet
<1>2. CASE SwitchMbr
  <2>1. cut' \in BOOLEAN
    BY <1>2, Zenon DEF SwitchMbr, MbrSet
  <2> QED
    BY <1>2, <2>1 DEF SwitchMbr, MbrSet, Ops
<1>3. ASSUME NEW force \in BOOLEAN, CommitEnv(force) PROVE TypeOK'
  BY <1>3 DEF CommitEnv, EnvWrite, Ops
<1>4. CASE CancelEnv
  BY <1>4 DEF CancelEnv, EnvWrite, Ops
<1>5. CASE SwitchRm
  BY <1>5 DEF SwitchRm, DropTry, MaybeReboot, Ops
<1>6. CASE AgainRm
  BY <1>6 DEF AgainRm, DropTry, Ops
<1>7. CASE AgainEnv
  BY <1>7 DEF AgainEnv, EnvWrite, MaybeReboot, Other, Ops
<1>8. CASE Rearm
  <2>1. rearmed' \in BOOLEAN /\ boot_os' \in {"yes", "no"}
    BY <1>8, Zenon DEF Rearm
  <2> QED
    BY <1>8, <2>1 DEF Rearm
<1>9. CASE ForceProper
  BY <1>9 DEF ForceProper
<1>10. CASE CommandStep
  <2> HIDE DEF TypeOK
  <2> QED
    BY <1>10, <1>1, <1>2, <1>3, <1>4, <1>5, <1>6, <1>7, Zenon DEF CommandStep
<1> QED
  BY <1>8, <1>9, <1>10

\* Every step of Next, and stuttering, keeps it.
LEMMA NextType == TypeOK /\ [Next]_vars => TypeOK'
<1>1. ASSUME TypeOK, UNCHANGED vars PROVE TypeOK'
  BY <1>1 DEF TypeOK, vars, envVars, store, bootVars, cmdVars, sessVars
<1> QED
  BY <1>1, BootType, RestartType, SessionType, CommandType DEF Next, Reset

\* Every variable of the boot chain and the commands keeps its type.
THEOREM TypeCorrect == Spec => []TypeOK
  BY InitType, NextType, PTL DEF Spec

-----------------------------------------------------------------------------
(* The strengthened invariant.                                              *)

\* A step that leaves the committed slot, its contents and the MBR alone keeps
\* what the invariant says of them.
LEMMA SameIntact ==
  ASSUME IInv, Committed' = Committed, UNCHANGED <<store, good, mbr, cut>>,
         op \in {"commit_mbr", "cancel_mbr"} => op' = op
  PROVE  CommittedIntact' /\ MbrAligned'
<1>1. CommittedIntact'
  BY Zenon DEF IInv, CommittedIntact, Whole, store
<1>2. MbrAligned'
  BY Zenon DEF IInv, MbrAligned
<1> QED
  BY <1>1, <1>2

\* The boot steps keep the strengthened invariant.
LEMMA BootIInv == ASSUME Sure, IInv, BootStep PROVE IInv'
<1> USE LinuxABAssumption
<1>0. TypeOK'
  BY BootType DEF IInv
<1>a. TypeOK /\ TrialInv /\ MemInv /\ BootInv /\ SessionInv /\ OpInv
  BY DEF IInv
<1>1. CASE SplPick
  <2>1. Committed' = Committed
    BY <1>1, <1>a DEF SplPick, SplMem, SaveOrFault, EnvWrite, FallbackSlot,
       PickedSlot, Committed, TypeOK, TrialInv, MemInv, BootInv, SessionInv,
       OpInv, Slots, Other, envVars, slotVars, bootVars
  <2>2. TrialInv' /\ MemInv' /\ BootInv' /\ SessionInv' /\ OpInv'
    BY <1>1, <1>a, <2>1 DEF SplPick, SplMem, SaveOrFault, EnvWrite,
       FallbackSlot, PickedSlot, Committed, TypeOK, TrialInv, MemInv, BootInv,
       BootSlot, SessionInv, OpInv, Slots, Other, Phases, WriteOps, Ops,
       envVars, slotVars, bootVars, cmdVars, sessVars, store
  <2>3. UNCHANGED <<store, good, mbr, cut>> /\ (op \in {"commit_mbr", "cancel_mbr"} => op' = op)
    BY <1>1, <1>a DEF SplPick, SplMem, SaveOrFault, EnvWrite, FallbackSlot,
       PickedSlot, OpInv, WriteOps, cmdVars
  <2> QED
    BY <1>0, SameIntact, <2>1, <2>2, <2>3 DEF IInv
<1>2. CASE SplStart
  <2>1. Committed' = Committed
    BY <1>2, <1>a DEF SplStart, SaveOrFault, EnvWrite, DeadMan, Committed,
       TypeOK, TrialInv, MemInv, BootInv, SessionInv, OpInv, Slots, Other,
       envVars, slotVars, bootVars
  <2>2. TrialInv' /\ MemInv' /\ BootInv' /\ SessionInv' /\ OpInv'
    BY <1>2, <1>a, <2>1 DEF SplStart, SaveOrFault, EnvWrite, DeadMan,
       Committed, TypeOK, TrialInv, MemInv, BootInv, BootSlot, SessionInv,
       OpInv, Slots, Other, Phases, WriteOps, Ops, envVars, slotVars,
       bootVars, cmdVars, sessVars, store
  <2>3. UNCHANGED <<store, good, mbr, cut>> /\ (op \in {"commit_mbr", "cancel_mbr"} => op' = op)
    BY <1>2, <1>a DEF SplStart, SaveOrFault, EnvWrite, DeadMan, OpInv,
       WriteOps, cmdVars
  <2> QED
    BY <1>0, SameIntact, <2>1, <2>2, <2>3 DEF IInv
<1>3. CASE FalconBoot
  <2>1. Committed' = Committed
    BY <1>3, <1>a DEF FalconBoot, LinuxUp, Committed, TypeOK, TrialInv,
       MemInv, BootInv, SessionInv, OpInv, Slots, Other, envVars, slotVars,
       bootVars
  <2>2. TrialInv' /\ MemInv' /\ BootInv' /\ SessionInv' /\ OpInv'
    BY <1>3, <1>a, <2>1 DEF FalconBoot, LinuxUp, Committed, TypeOK, TrialInv,
       MemInv, BootInv, BootSlot, SessionInv, OpInv, Slots, Other, Phases,
       WriteOps, Ops, envVars, slotVars, bootVars, cmdVars, sessVars, store
  <2>3. UNCHANGED <<store, good, mbr, cut>> /\ (op \in {"commit_mbr", "cancel_mbr"} => op' = op)
    BY <1>3, <1>a DEF FalconBoot, LinuxUp, OpInv, WriteOps, cmdVars
  <2> QED
    BY <1>0, SameIntact, <2>1, <2>2, <2>3 DEF IInv
<1>4. CASE ProperCount
  <2>1. Committed' = Committed
    BY <1>4, <1>a DEF ProperCount, SaveOrFault, EnvWrite, Committed, TypeOK,
       TrialInv, MemInv, BootInv, SessionInv, OpInv, Slots, Other, envVars,
       slotVars, bootVars
  <2>2. TrialInv' /\ MemInv' /\ BootInv' /\ SessionInv' /\ OpInv'
    BY <1>4, <1>a, <2>1 DEF ProperCount, SaveOrFault, EnvWrite, Committed,
       TypeOK, TrialInv, MemInv, BootInv, BootSlot, SessionInv, OpInv, Slots,
       Other, Phases, WriteOps, Ops, envVars, slotVars, bootVars, cmdVars,
       sessVars, store
  <2>3. UNCHANGED <<store, good, mbr, cut>> /\ (op \in {"commit_mbr", "cancel_mbr"} => op' = op)
    BY <1>4, <1>a DEF ProperCount, SaveOrFault, EnvWrite, OpInv, WriteOps,
       cmdVars
  <2> QED
    BY <1>0, SameIntact, <2>1, <2>2, <2>3 DEF IInv
<1>5. CASE AltBoot
  <2>1. Committed' = Committed
    BY <1>5, <1>a DEF AltBoot, SaveOrFault, EnvWrite, FallbackSlot, Committed,
       TypeOK, TrialInv, MemInv, BootInv, SessionInv, OpInv, Slots, Other,
       envVars, slotVars, bootVars
  <2>2. TrialInv' /\ MemInv' /\ BootInv' /\ SessionInv' /\ OpInv'
    BY <1>5, <1>a, <2>1 DEF AltBoot, SaveOrFault, EnvWrite, FallbackSlot,
       Committed, TypeOK, TrialInv, MemInv, BootInv, BootSlot, SessionInv,
       OpInv, Slots, Other, Phases, WriteOps, Ops, envVars, slotVars,
       bootVars, cmdVars, sessVars, store
  <2>3. UNCHANGED <<store, good, mbr, cut>> /\ (op \in {"commit_mbr", "cancel_mbr"} => op' = op)
    BY <1>5, <1>a DEF AltBoot, SaveOrFault, EnvWrite, FallbackSlot, OpInv,
       WriteOps, cmdVars
  <2> QED
    BY <1>0, SameIntact, <2>1, <2>2, <2>3 DEF IInv
<1>6. CASE Sysboot
  <2>1. Committed' = Committed
    BY <1>6, <1>a DEF Sysboot, LinuxUp, Committed, TypeOK, TrialInv, MemInv,
       BootInv, SessionInv, OpInv, Slots, Other, envVars, slotVars, bootVars
  <2>2. TrialInv' /\ MemInv' /\ BootInv' /\ SessionInv' /\ OpInv'
    BY <1>6, <1>a, <2>1 DEF Sysboot, LinuxUp, Committed, TypeOK, TrialInv,
       MemInv, BootInv, BootSlot, SessionInv, OpInv, Slots, Other, Phases,
       WriteOps, Ops, envVars, slotVars, bootVars, cmdVars, sessVars, store
  <2>3. UNCHANGED <<store, good, mbr, cut>> /\ (op \in {"commit_mbr", "cancel_mbr"} => op' = op)
    BY <1>6, <1>a DEF Sysboot, LinuxUp, OpInv, WriteOps, cmdVars
  <2> QED
    BY <1>0, SameIntact, <2>1, <2>2, <2>3 DEF IInv
<1>7. CASE ProperFails
  <2>1. Committed' = Committed
    BY <1>7, <1>a DEF ProperFails, Committed, TypeOK, TrialInv, MemInv,
       BootInv, SessionInv, OpInv, Slots, Other, envVars, slotVars, bootVars
  <2>2. TrialInv' /\ MemInv' /\ BootInv' /\ SessionInv' /\ OpInv'
    BY <1>7, <1>a, <2>1 DEF ProperFails, Committed, TypeOK, TrialInv, MemInv,
       BootInv, BootSlot, SessionInv, OpInv, Slots, Other, Phases, WriteOps,
       Ops, envVars, slotVars, bootVars, cmdVars, sessVars, store
  <2>3. UNCHANGED <<store, good, mbr, cut>> /\ (op \in {"commit_mbr", "cancel_mbr"} => op' = op)
    BY <1>7, <1>a DEF ProperFails, OpInv, WriteOps, cmdVars
  <2> QED
    BY <1>0, SameIntact, <2>1, <2>2, <2>3 DEF IInv
<1>8. CASE OldSplStart
  <2>1. Committed' = Committed /\ cur' = Committed
    BY <1>8 DEF OldSplStart, Sure, Committed, envVars
  <2>2. TrialInv' /\ MemInv' /\ BootInv' /\ SessionInv' /\ OpInv'
    BY <1>8, <1>a, <2>1 DEF OldSplStart, Committed, TypeOK, TrialInv, MemInv,
       BootInv, BootSlot, SessionInv, OpInv, Slots, Other, Phases, WriteOps,
       Ops, envVars, slotVars, bootVars, cmdVars, sessVars, store
  <2>3. UNCHANGED <<store, good, mbr, cut>> /\ (op \in {"commit_mbr", "cancel_mbr"} => op' = op)
    BY <1>8, <1>a DEF OldSplStart, OpInv, WriteOps, cmdVars
  <2> QED
    BY <1>0, SameIntact, <2>1, <2>2, <2>3 DEF IInv
<1> QED
  BY <1>1, <1>2, <1>3, <1>4, <1>5, <1>6, <1>7, <1>8 DEF BootStep

\* A reset keeps it, wherever it falls.
LEMMA RestartIInv == ASSUME IInv, Restart PROVE IInv'
<1> USE LinuxABAssumption
<1>0. TypeOK'
  BY RestartType DEF IInv
<1>a. TypeOK /\ TrialInv /\ MemInv /\ BootInv /\ SessionInv /\ OpInv
  BY DEF IInv
<1>1. Committed' = Committed
  BY DEF Restart, Committed, envVars
<1>2. TrialInv' /\ MemInv' /\ BootInv' /\ SessionInv' /\ OpInv'
  BY <1>1, <1>a DEF Restart, TypeOK, TrialInv, MemInv, BootInv, BootSlot,
     SessionInv, OpInv, WriteOps, envVars
<1>3. CommittedIntact'
  BY <1>1, Zenon DEF IInv, CommittedIntact, Whole, Restart, store
<1>4. MbrAligned'
  BY <1>1, Zenon DEF IInv, MbrAligned, Restart
<1> QED
  BY <1>0, <1>2, <1>3, <1>4 DEF IInv

\* Writes of boot_os keep it.
LEMMA BootOsIInv == ASSUME IInv, Rearm \/ ForceProper PROVE IInv'
<1> USE LinuxABAssumption
<1>0. TypeOK'
  BY CommandType DEF IInv
<1>a. TypeOK /\ TrialInv /\ MemInv /\ BootInv /\ SessionInv /\ OpInv
  BY DEF IInv
<1>1. CASE Rearm
  <2>1. Committed' = Committed
    BY <1>1, <1>a DEF Rearm, Committed, TypeOK, TrialInv, MemInv, BootInv,
       SessionInv, OpInv, Slots, Other, envVars, slotVars, bootVars
  <2>2. TrialInv' /\ MemInv' /\ BootInv' /\ SessionInv' /\ OpInv'
    BY <1>1, <1>a, <2>1 DEF Rearm, Committed, TypeOK, TrialInv, MemInv,
       BootInv, BootSlot, SessionInv, OpInv, Slots, Other, Phases, WriteOps,
       Ops, envVars, slotVars, bootVars, cmdVars, sessVars, store
  <2>3. UNCHANGED <<store, good, mbr, cut>> /\ (op \in {"commit_mbr", "cancel_mbr"} => op' = op)
    BY <1>1, <1>a DEF Rearm, OpInv, WriteOps, cmdVars
  <2> QED
    BY <1>0, SameIntact, <2>1, <2>2, <2>3 DEF IInv
<1>2. CASE ForceProper
  <2>1. Committed' = Committed
    BY <1>2, <1>a DEF ForceProper, Free, Committed, TypeOK, TrialInv, MemInv,
       BootInv, SessionInv, OpInv, Slots, Other, envVars, slotVars, bootVars
  <2>2. TrialInv' /\ MemInv' /\ BootInv' /\ SessionInv' /\ OpInv'
    BY <1>2, <1>a, <2>1 DEF ForceProper, Free, Committed, TypeOK, TrialInv,
       MemInv, BootInv, BootSlot, SessionInv, OpInv, Slots, Other, Phases,
       WriteOps, Ops, envVars, slotVars, bootVars, cmdVars, sessVars, store
  <2>3. UNCHANGED <<store, good, mbr, cut>> /\ (op \in {"commit_mbr", "cancel_mbr"} => op' = op)
    BY <1>2, <1>a DEF ForceProper, Free, OpInv, WriteOps, cmdVars
  <2> QED
    BY <1>0, SameIntact, <2>1, <2>2, <2>3 DEF IInv
<1> QED
  BY <1>1, <1>2

\* The steps of the one PC session keep it: begin checks what the later steps need.
LEMMA SessionIInv == ASSUME OneSession, IInv, SessionStep PROVE IInv'
<1> USE LinuxABAssumption
<1>0. TypeOK'
  BY SessionType DEF IInv
<1>a. TypeOK /\ TrialInv /\ MemInv /\ BootInv /\ SessionInv /\ OpInv
  BY DEF IInv
<1> SUFFICES ASSUME NEW o \in Sessions,
                    TryBegin(o) \/ ReadTarget(o) \/ Abandon(o) \/ StartWrite(o)
                      \/ FinishWrite(o) \/ TryArm(o)
             PROVE  IInv'
  BY DEF SessionStep
<1>1. CASE TryBegin(o)
  <2>1. Committed' = Committed
    BY <1>1, <1>a DEF TryBegin, MayBegin, Free, Committed, TypeOK, TrialInv,
       MemInv, BootInv, SessionInv, OpInv, Slots, Other, envVars, slotVars,
       bootVars
  <2>2. TrialInv' /\ MemInv' /\ BootInv' /\ SessionInv' /\ OpInv'
    BY <1>1, <1>a, <2>1 DEF TryBegin, MayBegin, Free, Committed, TypeOK,
       TrialInv, MemInv, BootInv, BootSlot, SessionInv, OpInv, Slots, Other,
       Phases, WriteOps, Ops, envVars, slotVars, bootVars, cmdVars, sessVars,
       store
  <2>3. UNCHANGED <<store, good, mbr, cut>> /\ (op \in {"commit_mbr", "cancel_mbr"} => op' = op)
    BY <1>1, <1>a DEF TryBegin, MayBegin, Free, OpInv, WriteOps, cmdVars
  <2> QED
    BY <1>0, SameIntact, <2>1, <2>2, <2>3 DEF IInv
<1>2. CASE ReadTarget(o)
  <2>1. Committed' = Committed
    BY <1>2, <1>a DEF ReadTarget, Committed, TypeOK, TrialInv, MemInv,
       BootInv, SessionInv, OpInv, Slots, Other, envVars, slotVars, bootVars
  <2>2. TrialInv' /\ MemInv' /\ BootInv' /\ SessionInv' /\ OpInv'
    BY <1>2, <1>a, <2>1 DEF ReadTarget, Committed, TypeOK, TrialInv, MemInv,
       BootInv, BootSlot, SessionInv, OpInv, Slots, Other, Phases, WriteOps,
       Ops, envVars, slotVars, bootVars, cmdVars, sessVars, store
  <2>3. UNCHANGED <<store, good, mbr, cut>> /\ (op \in {"commit_mbr", "cancel_mbr"} => op' = op)
    BY <1>2, <1>a DEF ReadTarget, OpInv, WriteOps, cmdVars
  <2> QED
    BY <1>0, SameIntact, <2>1, <2>2, <2>3 DEF IInv
<1>3. CASE Abandon(o)
  <2>1. Committed' = Committed
    BY <1>3, <1>a DEF Abandon, Committed, TypeOK, TrialInv, MemInv, BootInv,
       SessionInv, OpInv, Slots, Other, envVars, slotVars, bootVars
  <2>2. TrialInv' /\ MemInv' /\ BootInv' /\ SessionInv' /\ OpInv'
    BY <1>3, <1>a, <2>1 DEF Abandon, Committed, TypeOK, TrialInv, MemInv,
       BootInv, BootSlot, SessionInv, OpInv, Slots, Other, Phases, WriteOps,
       Ops, envVars, slotVars, bootVars, cmdVars, sessVars, store
  <2>3. UNCHANGED <<store, good, mbr, cut>> /\ (op \in {"commit_mbr", "cancel_mbr"} => op' = op)
    BY <1>3, <1>a DEF Abandon, OpInv, WriteOps, cmdVars
  <2> QED
    BY <1>0, SameIntact, <2>1, <2>2, <2>3 DEF IInv
<1>4. CASE StartWrite(o)
  <2>1. Committed' = Committed
    BY <1>4, <1>a DEF StartWrite, Free, HasTarget, Committed, TypeOK,
       TrialInv, MemInv, BootInv, SessionInv, OpInv, Slots, Other, envVars,
       slotVars, bootVars
  <2>2. TrialInv' /\ MemInv' /\ BootInv' /\ SessionInv' /\ OpInv'
    BY <1>4, <1>a, <2>1 DEF StartWrite, Free, HasTarget, Committed, TypeOK,
       TrialInv, MemInv, BootInv, BootSlot, SessionInv, OpInv, Slots, Other,
       Phases, WriteOps, Ops, envVars, slotVars, bootVars, cmdVars, sessVars,
       store
  <2>3. /\ root'[Committed] = root[Committed] /\ boot'[Committed] = boot[Committed]
        /\ good'[Committed] = good[Committed]
    <3>1. stgt[o] \in Slots /\ stgt[o] # Committed /\ Committed \in Slots
      BY <1>4, <1>a DEF StartWrite, Free, HasTarget, Committed, TypeOK, SessionInv, OpInv, Slots, Other, WriteOps
    <3>2. root'[Committed] = root[Committed] /\ boot'[Committed] = boot[Committed]
      BY <1>4, <1>a, <3>1 DEF StartWrite, Free, HasTarget, TypeOK
    <3>3. good'[Committed] = good[Committed]
      BY <1>4, <1>a, <3>1, Zenon DEF StartWrite, Free, HasTarget, TypeOK
    <3> QED
      BY <3>2, <3>3
  <2>4. CommittedIntact'
    BY <2>1, <2>3, Zenon DEF IInv, CommittedIntact, Whole
  <2>5. MbrAligned'
    <3>1. UNCHANGED <<mbr, cut>> /\ op \notin {"commit_mbr", "cancel_mbr"}
      BY <1>4 DEF StartWrite, Free, HasTarget, WriteOps
    <3> QED
      BY <2>1, <3>1, Zenon DEF IInv, MbrAligned
  <2> QED
    BY <1>0, <2>2, <2>4, <2>5 DEF IInv
<1>5. CASE FinishWrite(o)
  <2>1. Committed' = Committed
    BY <1>5, <1>a DEF FinishWrite, Committed, TypeOK, TrialInv, MemInv,
       BootInv, SessionInv, OpInv, Slots, Other, envVars, slotVars, bootVars
  <2>2. TrialInv' /\ MemInv' /\ BootInv' /\ SessionInv' /\ OpInv'
    BY <1>5, <1>a, <2>1 DEF FinishWrite, Committed, TypeOK, TrialInv, MemInv,
       BootInv, BootSlot, SessionInv, OpInv, Slots, Other, Phases, WriteOps,
       Ops, envVars, slotVars, bootVars, cmdVars, sessVars, store
  <2>3. /\ root'[Committed] = root[Committed] /\ boot'[Committed] = boot[Committed]
        /\ good'[Committed] = good[Committed]
    <3>1. stgt[o] \in Slots /\ stgt[o] # Committed /\ Committed \in Slots
      BY <1>5, <1>a DEF FinishWrite, Committed, TypeOK, SessionInv, OpInv, Slots, Other, WriteOps
    <3>2. root'[Committed] = root[Committed] /\ boot'[Committed] = boot[Committed]
      BY <1>5, <1>a, <3>1 DEF FinishWrite, TypeOK
    <3>3. good'[Committed] = good[Committed]
      BY <1>5, <1>a, <3>1, Zenon DEF FinishWrite, TypeOK
    <3> QED
      BY <3>2, <3>3
  <2>4. CommittedIntact'
    BY <2>1, <2>3, Zenon DEF IInv, CommittedIntact, Whole
  <2>5. MbrAligned'
    <3>1. UNCHANGED <<mbr, cut>> /\ op \notin {"commit_mbr", "cancel_mbr"}
      BY <1>5 DEF FinishWrite, WriteOps
    <3> QED
      BY <2>1, <3>1, Zenon DEF IInv, MbrAligned
  <2> QED
    BY <1>0, <2>2, <2>4, <2>5 DEF IInv
<1>6. CASE TryArm(o)
  <2>1. Committed' = Committed
    BY <1>6, <1>a DEF TryArm, EnvWrite, MaybeReboot, Free, HasTarget,
       Committed, TypeOK, TrialInv, MemInv, BootInv, SessionInv, OpInv, Slots,
       Other, envVars, slotVars, bootVars
  <2>0. \A p \in Sessions : spc'[p] = "idle" /\ stgt'[p] = "none"
    BY <1>6, <1>a DEF OneSession, TryArm, TypeOK
  <2>2. TrialInv' /\ MemInv' /\ BootInv' /\ SessionInv' /\ OpInv'
    BY <1>6, <1>a, <2>0, <2>1 DEF TryArm, EnvWrite, MaybeReboot, Free, HasTarget,
       Committed, TypeOK, TrialInv, MemInv, BootInv, BootSlot, SessionInv,
       OpInv, Slots, Other, Phases, WriteOps, Ops, envVars, slotVars,
       bootVars, cmdVars, sessVars, store
  <2>3. UNCHANGED <<store, good, mbr, cut>> /\ (op \in {"commit_mbr", "cancel_mbr"} => op' = op)
    BY <1>6, <1>a DEF TryArm, EnvWrite, MaybeReboot, Free, HasTarget, OpInv,
       WriteOps, cmdVars
  <2> QED
    BY <1>0, SameIntact, <2>1, <2>2, <2>3 DEF IInv
<1> QED
  BY <1>1, <1>2, <1>3, <1>4, <1>5, <1>6

\* The commands of the board keep it.
LEMMA CommandIInv == ASSUME IInv, CommandStep PROVE IInv'
<1> USE LinuxABAssumption
<1>0. TypeOK'
  BY CommandType DEF IInv
<1>a. TypeOK /\ TrialInv /\ MemInv /\ BootInv /\ SessionInv /\ OpInv
  BY DEF IInv
<1>1. CASE CommitAgain
  <2>1. Committed' = Committed
    BY <1>1, <1>a DEF CommitAgain, MbrSet, Free, Committed, TypeOK, TrialInv,
       MemInv, BootInv, SessionInv, OpInv, Slots, Other, envVars, slotVars,
       bootVars
  <2>2. TrialInv' /\ MemInv' /\ BootInv' /\ SessionInv' /\ OpInv'
    BY <1>1, <1>a, <2>1 DEF CommitAgain, MbrSet, Free, Committed, TypeOK,
       TrialInv, MemInv, BootInv, BootSlot, SessionInv, OpInv, Slots, Other,
       Phases, WriteOps, Ops, envVars, slotVars, bootVars, cmdVars, sessVars,
       store
  <2>3. CommittedIntact'
    BY <2>1, <1>1, Zenon DEF IInv, CommittedIntact, Whole, CommitAgain, store
  <2>4. mbr' = Committed
    BY <1>1, <1>a DEF CommitAgain, MbrSet, Committed, TypeOK
  <2>5. MbrAligned'
    BY <2>1, <2>4, Zenon DEF MbrAligned
  <2> QED
    BY <1>0, <2>2, <2>3, <2>5 DEF IInv
<1>2. CASE SwitchMbr
  <2>1. Committed' = Committed
    BY <1>2, <1>a DEF SwitchMbr, MbrSet, Committed, TypeOK, TrialInv, MemInv,
       BootInv, SessionInv, OpInv, Slots, Other, envVars, slotVars, bootVars
  <2>2. TrialInv' /\ MemInv' /\ BootInv' /\ SessionInv' /\ OpInv'
    BY <1>2, <1>a, <2>1 DEF SwitchMbr, MbrSet, Committed, TypeOK, TrialInv,
       MemInv, BootInv, BootSlot, SessionInv, OpInv, Slots, Other, Phases,
       WriteOps, Ops, envVars, slotVars, bootVars, cmdVars, sessVars, store
  <2>3. CommittedIntact'
    BY <2>1, <1>2, Zenon DEF IInv, CommittedIntact, Whole, SwitchMbr, store
  <2>4. mbr' = Committed
    BY <1>2, <1>a DEF SwitchMbr, MbrSet, Committed, OpInv
  <2>5. MbrAligned'
    BY <2>1, <2>4, Zenon DEF MbrAligned
  <2> QED
    BY <1>0, <2>2, <2>3, <2>5 DEF IInv
<1>3. CASE CancelEnv
  <2>1. Committed' = Committed
    BY <1>3, <1>a DEF CancelEnv, EnvWrite, Free, Committed, TypeOK, TrialInv,
       MemInv, BootInv, SessionInv, OpInv, Slots, Other, envVars, slotVars,
       bootVars
  <2>2. TrialInv' /\ MemInv' /\ BootInv' /\ SessionInv' /\ OpInv'
    BY <1>3, <1>a, <2>1 DEF CancelEnv, EnvWrite, Free, Committed, TypeOK,
       TrialInv, MemInv, BootInv, BootSlot, SessionInv, OpInv, Slots, Other,
       Phases, WriteOps, Ops, envVars, slotVars, bootVars, cmdVars, sessVars,
       store
  <2>3. CommittedIntact'
    BY <2>1, <1>3, Zenon DEF IInv, CommittedIntact, Whole, CancelEnv, store
  <2>4. MbrAligned'
    BY <1>3, Zenon DEF CancelEnv, MbrAligned
  <2> QED
    BY <1>0, <2>2, <2>3, <2>4 DEF IInv
<1>4. CASE SwitchRm
  <2>1. Committed' = Committed
    BY <1>4, <1>a DEF SwitchRm, DropTry, MaybeReboot, Committed, TypeOK,
       TrialInv, MemInv, BootInv, SessionInv, OpInv, Slots, Other, envVars,
       slotVars, bootVars
  <2>2. TrialInv' /\ MemInv' /\ BootInv' /\ SessionInv' /\ OpInv'
    BY <1>4, <1>a, <2>1 DEF SwitchRm, DropTry, MaybeReboot, Committed, TypeOK,
       TrialInv, MemInv, BootInv, BootSlot, SessionInv, OpInv, Slots, Other,
       Phases, WriteOps, Ops, envVars, slotVars, bootVars, cmdVars, sessVars,
       store
  <2>3. UNCHANGED <<store, good, mbr, cut>> /\ (op \in {"commit_mbr", "cancel_mbr"} => op' = op)
    BY <1>4, <1>a DEF SwitchRm, DropTry, MaybeReboot, OpInv, WriteOps, cmdVars
  <2> QED
    BY <1>0, SameIntact, <2>1, <2>2, <2>3 DEF IInv
<1>5. CASE AgainRm
  <2>1. Committed' = Committed
    BY <1>5, <1>a DEF AgainRm, DropTry, Free, Committed, TypeOK, TrialInv,
       MemInv, BootInv, SessionInv, OpInv, Slots, Other, envVars, slotVars,
       bootVars
  <2>2. TrialInv' /\ MemInv' /\ BootInv' /\ SessionInv' /\ OpInv'
    BY <1>5, <1>a, <2>1 DEF AgainRm, DropTry, Free, Committed, TypeOK,
       TrialInv, MemInv, BootInv, BootSlot, SessionInv, OpInv, Slots, Other,
       Phases, WriteOps, Ops, envVars, slotVars, bootVars, cmdVars, sessVars,
       store
  <2>3. UNCHANGED <<store, good, mbr, cut>> /\ (op \in {"commit_mbr", "cancel_mbr"} => op' = op)
    BY <1>5, <1>a DEF AgainRm, DropTry, Free, OpInv, WriteOps, cmdVars
  <2> QED
    BY <1>0, SameIntact, <2>1, <2>2, <2>3 DEF IInv
<1>6. CASE AgainEnv
  <2>1. Committed' = Committed
    BY <1>6, <1>a DEF AgainEnv, EnvWrite, MaybeReboot, Committed, TypeOK,
       TrialInv, MemInv, BootInv, SessionInv, OpInv, Slots, Other, envVars,
       slotVars, bootVars
  <2>2. TrialInv' /\ MemInv' /\ BootInv' /\ SessionInv' /\ OpInv'
    BY <1>6, <1>a, <2>1 DEF AgainEnv, EnvWrite, MaybeReboot, Committed,
       TypeOK, TrialInv, MemInv, BootInv, BootSlot, SessionInv, OpInv, Slots,
       Other, Phases, WriteOps, Ops, envVars, slotVars, bootVars, cmdVars,
       sessVars, store
  <2>3. UNCHANGED <<store, good, mbr, cut>> /\ (op \in {"commit_mbr", "cancel_mbr"} => op' = op)
    BY <1>6, <1>a DEF AgainEnv, EnvWrite, MaybeReboot, OpInv, WriteOps,
       cmdVars
  <2> QED
    BY <1>0, SameIntact, <2>1, <2>2, <2>3 DEF IInv
<1>7. ASSUME NEW force \in BOOLEAN, force => AllowForce, CommitEnv(force) PROVE IInv'
  <2>1. Committed' = cur
    BY <1>7, <1>a DEF CommitEnv, EnvWrite, Free, Committed, TypeOK, TrialInv,
       MemInv, BootInv, SessionInv, OpInv, Slots, Other, envVars, slotVars,
       bootVars
  <2>2. TrialInv' /\ MemInv' /\ BootInv' /\ SessionInv' /\ OpInv'
    BY <1>7, <1>a, <2>1 DEF CommitEnv, EnvWrite, Free, Committed, TypeOK,
       TrialInv, MemInv, BootInv, BootSlot, SessionInv, OpInv, Slots, Other,
       Phases, WriteOps, Ops, envVars, slotVars, bootVars, cmdVars, sessVars,
       store
  <2>3. CommittedIntact'
    <3>1. good'[cur] = TRUE
      BY <1>7, <1>a, Zenon DEF CommitEnv, TypeOK
    <3>2. ~AllowForce => Whole(cur) /\ boot[cur] \in Healthy
      BY <1>7, Zenon DEF CommitEnv, ChecksPass
    <3> QED
      BY <1>7, <2>1, <3>1, <3>2, Zenon DEF CommitEnv, CommittedIntact, Whole, store
  <2>4. MbrAligned'
    BY <1>7, Zenon DEF CommitEnv, MbrAligned
  <2> QED
    BY <1>0, <2>2, <2>3, <2>4 DEF IInv
<1> QED
  BY <1>1, <1>2, <1>3, <1>4, <1>5, <1>6, <1>7, Zenon DEF CommandStep

\* Every step of Next, and stuttering, keeps it.
LEMMA NextIInv == ASSUME OneSession PROVE Sure /\ IInv /\ [Next]_vars => IInv'
<1>1. ASSUME IInv, UNCHANGED vars PROVE IInv'
  <2>1. TypeOK' /\ Committed' = Committed
    BY <1>1, NextType DEF IInv, vars, envVars, Committed
  <2>2. TrialInv' /\ MemInv' /\ BootInv' /\ SessionInv' /\ OpInv'
    BY <1>1, <2>1 DEF IInv, TrialInv, MemInv, BootInv, BootSlot, SessionInv, OpInv,
       vars, envVars, bootVars, cmdVars, sessVars
  <2>3. UNCHANGED <<store, good, mbr, cut>> /\ op' = op
    BY <1>1 DEF vars, cmdVars
  <2> QED
    BY <1>1, SameIntact, <2>1, <2>2, <2>3 DEF IInv
<1> QED
  BY <1>1, BootIInv, RestartIInv, BootOsIInv, SessionIInv, CommandIInv DEF Next, Reset

\* The MBR names the committed slot at every boot that no cut command precedes.
LEMMA SureUncut == IInv /\ (SplIsAB \/ ~cut) => Sure
  BY DEF IInv, Sure, MbrAligned, OpInv

\* Initially and after every step: the invariant the theorems below follow from.
LEMMA Uncut == ASSUME OneSession PROVE Spec /\ [](SplIsAB \/ ~cut) => []IInv
  BY InitIInv, NextIInv, SureUncut, PTL DEF Spec

LEMMA Inductive == ASSUME SplIsAB, OneSession PROVE Spec => []IInv
<1>1. SplIsAB \/ ~cut
  OBVIOUS
<1> QED
  BY <1>1, Uncut, PTL

-----------------------------------------------------------------------------
(* The theorems.                                                            *)

\* Whatever order sessions, commands, power cuts and fallbacks come in, the slot
\* the board returns to holds exactly what was committed there.
THEOREM CommittedStaysIntact == ASSUME SplIsAB, OneSession PROVE Spec => []CommittedIntact
<1>1. IInv => CommittedIntact
  BY DEF IInv
<1> QED
  BY <1>1, Inductive, PTL

\* The slot Linux runs from is never overwritten.
LEMMA WritesElsewhere == IInv => RunningSlotNotWritten
  BY DEF IInv, RunningSlotNotWritten, OpInv, SessionInv, TypeOK, Slots, Other

THEOREM RunningSlotSafe == ASSUME SplIsAB, OneSession PROVE Spec => []RunningSlotNotWritten
  BY WritesElsewhere, Inductive, PTL

\* Only a commit moves the committed slot.
LEMMA OnlyCommitMoves ==
  ASSUME IInv, Next
  PROVE  \/ Committed' = Committed
         \/ \E force \in {f \in BOOLEAN : f => AllowForce} : CommitEnv(force)
<1>a. TypeOK /\ TrialInv /\ MemInv /\ BootInv /\ SessionInv /\ OpInv
  BY DEF IInv
<1>1. CASE BootStep
  BY <1>1, <1>a DEF BootStep, SplPick, SplMem, SplStart, OldSplStart, FalconBoot,
     ProperCount, AltBoot, Sysboot, ProperFails, SaveOrFault, EnvWrite, FallbackSlot,
     Committed, TypeOK, MemInv, BootInv, envVars
<1>2. CASE Rearm \/ Reset \/ ForceProper
  BY <1>2 DEF Rearm, Reset, Restart, ForceProper, Committed, envVars, slotVars
<1>3. CASE SessionStep
  BY <1>3, <1>a DEF SessionStep, TryBegin, ReadTarget, Abandon, StartWrite, FinishWrite,
     TryArm, EnvWrite, HasTarget, Committed, SessionInv, envVars
<1>4. CASE CommandStep
  <2>1. CASE CommitAgain
    BY <2>1 DEF CommitAgain, Committed, envVars
  <2>2. CASE CancelEnv
    BY <2>2 DEF CancelEnv, EnvWrite, Committed
  <2>3. CASE SwitchMbr \/ SwitchRm \/ AgainRm
    BY <2>3 DEF SwitchMbr, SwitchRm, AgainRm, Committed, envVars
  <2>4. CASE AgainEnv
    BY <2>4, <1>a DEF AgainEnv, EnvWrite, Committed, OpInv
  <2>5. CASE \E force \in {f \in BOOLEAN : f => AllowForce} : CommitEnv(force)
    BY <2>5
  <2> QED
    BY <1>4, <2>1, <2>2, <2>3, <2>4, <2>5, Zenon DEF CommandStep
<1> QED
  BY <1>1, <1>2, <1>3, <1>4 DEF Next

\* The committed slot moves only to the slot a pending trial is running from.
LEMMA NextCommits ==
  IInv /\ [Next]_vars
    => [Committed' # Committed
          => phase = "linux" /\ cur = Committed' /\ upgrade_available = 1]_vars
<1> SUFFICES ASSUME IInv, Next, Committed' # Committed
             PROVE  phase = "linux" /\ cur = Committed' /\ upgrade_available = 1
  OBVIOUS
<1>1. PICK force \in {f \in BOOLEAN : f => AllowForce} : CommitEnv(force)
  BY OnlyCommitMoves
<1> QED
  BY <1>1 DEF CommitEnv, EnvWrite, Free, Committed

THEOREM CommittedMovesByCommit == ASSUME SplIsAB, OneSession PROVE Spec => CommittedMoves
  BY NextCommits, Inductive, PTL DEF Spec, CommittedMoves

\* Linux comes up only from the committed slot or from a pending trial's.
LEMMA NextBoots ==
  IInv /\ [Next]_vars
    => [phase # "linux" /\ phase' = "linux"
          => cur = Committed \/ (upgrade_available = 1 /\ cur = ab_slot)]_vars
<1> SUFFICES ASSUME IInv, Next, phase # "linux", phase' = "linux"
             PROVE  BootSlot(cur)
  BY DEF BootSlot
<1>1. phase \in {"falcon", "sysboot"}
  <2>1. CASE BootStep
    BY <2>1 DEF BootStep, SplPick, SplStart, OldSplStart, FalconBoot, ProperCount,
       AltBoot, Sysboot, ProperFails
  <2>2. CASE Rearm \/ Reset \/ ForceProper
    BY <2>2 DEF Rearm, Reset, Restart, ForceProper, Free
  <2>3. CASE SessionStep
    BY <2>3 DEF SessionStep, TryBegin, ReadTarget, Abandon, StartWrite, FinishWrite,
       TryArm, Free, bootVars
  <2>4. CASE CommandStep
    BY <2>4 DEF CommandStep, CommitAgain, CommitEnv, CancelEnv, SwitchMbr, SwitchRm,
       AgainRm, AgainEnv, Free, bootVars
  <2> QED
    BY <2>1, <2>2, <2>3, <2>4 DEF Next
<1> QED
  BY <1>1 DEF IInv, BootInv

THEOREM BootsTheRightSlot == ASSUME SplIsAB, OneSession PROVE Spec => BootsWhatEnvSays
  BY NextBoots, Inductive, PTL DEF Spec, BootsWhatEnvSays

-----------------------------------------------------------------------------
(* The refinement of ABSlots. In each of the first lemmas a step of LinuxAB *)
(* that changes no more than what is named is the abstract action.          *)

Running == IF phase = "linux" THEN cur ELSE "off"
SameSlots == Committed' = Committed /\ good' = good
SamePending == upgrade_available' = upgrade_available

\* Nothing of what the promise speaks about changes.
LEMMA MapStutter ==
  ASSUME SameSlots, SamePending, Running' = Running
  PROVE  UNCHANGED Abstract!vars
BY DEF SameSlots, SamePending, Running, Abstract!vars

\* Linux starts from a slot that BootSlot admits.
LEMMA MapBoot ==
  ASSUME TypeOK, TrialInv, SameSlots, SamePending, phase # "linux", phase' = "linux",
         cur' = cur, BootSlot(cur)
  PROVE  Abstract!Boot
<1>1. cur \in {Committed} \cup (IF upgrade_available = 1 THEN {Abstract!Other(Committed)} ELSE {})
  BY DEF TypeOK, TrialInv, BootSlot, Committed, Other, Abstract!Other, Slots
<1> QED
  BY <1>1 DEF SameSlots, SamePending, Abstract!Boot

\* Linux stops.
LEMMA MapStop ==
  ASSUME SameSlots, SamePending, phase' # "linux"
  PROVE  Abstract!Stop
BY DEF SameSlots, SamePending, Abstract!Stop

\* A session starts to overwrite a slot that is neither committed nor running.
LEMMA MapOverwrite ==
  ASSUME NEW s \in Slots, phase = "linux", cur \in Slots, s # Committed, s # cur,
         Committed' = Committed, SamePending, Running' = Running,
         good' = [good EXCEPT ![s] = FALSE]
  PROVE  Abstract!Overwrite
<1>1. Running = cur /\ cur # "off"
  BY DEF Running, Slots
<1>2. s \in Abstract!Slots \ {Committed, Running}
  BY <1>1 DEF Slots, Abstract!Slots
<1> QED
  BY <1>1, <1>2 DEF SamePending, Running, Abstract!Overwrite

\* A trial of the other slot is armed from the committed one.
LEMMA MapArm ==
  ASSUME phase = "linux", cur = Committed, upgrade_available' = 1, SameSlots,
         Running' = Running
  PROVE  Abstract!Arm
BY DEF SameSlots, Running, Abstract!Arm

\* A pending trial ends, and nothing else changes.
LEMMA MapWithdraw ==
  ASSUME upgrade_available = 1, upgrade_available' = 0, SameSlots, Running' = Running
  PROVE  Abstract!Withdraw
BY DEF SameSlots, Running, Abstract!Withdraw

\* The running trial is committed.
LEMMA MapCommit ==
  ASSUME phase = "linux", upgrade_available = 1, upgrade_available' = 0,
         cur = Abstract!Other(Committed), Committed' = cur, Running' = Running,
         good' = [good EXCEPT ![cur] = TRUE]
  PROVE  Abstract!Commit
BY DEF Running, Abstract!Commit

\* The steps of the boot chain are Boot, Withdraw or nothing.
LEMMA BootMaps == ASSUME IInv, BootStep PROVE [Abstract!Next]_(Abstract!vars)
<1>a. TypeOK /\ TrialInv /\ MemInv /\ BootInv
  BY DEF IInv
<1>1. Committed' = Committed /\ good' = good
  BY <1>a DEF BootStep, SplPick, SplMem, SplStart, OldSplStart, FalconBoot, ProperCount,
     AltBoot, Sysboot, ProperFails, SaveOrFault, EnvWrite, FallbackSlot, Committed,
     TypeOK, MemInv, BootInv, envVars
<1>2. CASE SplPick \/ SplStart \/ ProperCount \/ AltBoot
  <2>1. Running' = Running
    BY <1>2 DEF SplPick, SplStart, ProperCount, AltBoot, Running
  <2>2. SamePending \/ (upgrade_available = 1 /\ upgrade_available' = 0)
    BY <1>2, <1>a DEF SplPick, SplMem, SplStart, ProperCount, AltBoot, SaveOrFault,
       EnvWrite, SamePending, TypeOK, MemInv, BootInv, envVars
  <2> QED
    BY <1>1, <2>1, <2>2, MapStutter, MapWithdraw DEF SameSlots, Abstract!Next
<1>3. CASE FalconBoot \/ Sysboot \/ ProperFails
  <2>1. phase \in {"falcon", "proper", "sysboot"} /\ cur' = cur /\ SamePending
    BY <1>3 DEF FalconBoot, Sysboot, ProperFails, SamePending, envVars
  <2>2. CASE phase' = "linux"
    BY <1>a, <1>1, <2>1, <2>2, MapBoot DEF BootInv, SameSlots, Abstract!Next
  <2>3. CASE phase' # "linux"
    BY <1>1, <2>1, <2>3, MapStutter DEF Running, SameSlots
  <2> QED
    BY <2>2, <2>3
<1>4. CASE OldSplStart
  <2>1. SamePending /\ Running' = Running
    BY <1>4 DEF OldSplStart, SamePending, Running, envVars
  <2> QED
    BY <1>1, <2>1, MapStutter DEF SameSlots
<1> QED
  BY <1>2, <1>3, <1>4 DEF BootStep

\* A reset is Stop; falcon-rearm and fw_setenv boot_os are nothing.
LEMMA ResetMaps ==
  ASSUME IInv, Reset \/ Rearm \/ ForceProper
  PROVE  [Abstract!Next]_(Abstract!vars)
<1>1. CASE Reset
  BY <1>1, MapStop DEF Reset, Restart, SameSlots, SamePending, Committed, envVars,
     Abstract!Next
<1>2. CASE Rearm \/ ForceProper
  BY <1>2, MapStutter DEF Rearm, ForceProper, SameSlots, SamePending, Running, Committed,
     envVars, slotVars, bootVars
<1> QED
  BY <1>1, <1>2

\* A session overwrites and arms; its other steps are nothing.
LEMMA SessionMaps ==
  ASSUME OneSession, IInv, SessionStep
  PROVE  [Abstract!Next]_(Abstract!vars)
<1>a. TypeOK /\ SessionInv
  BY DEF IInv
<1> SUFFICES ASSUME NEW o \in Sessions,
                    TryBegin(o) \/ ReadTarget(o) \/ Abandon(o) \/ StartWrite(o)
                      \/ FinishWrite(o) \/ TryArm(o)
             PROVE  [Abstract!Next]_(Abstract!vars)
  BY DEF SessionStep
<1>1. CASE TryBegin(o) \/ ReadTarget(o) \/ Abandon(o) \/ FinishWrite(o)
  BY <1>1, MapStutter DEF TryBegin, ReadTarget, Abandon, FinishWrite, SameSlots,
     SamePending, Running, Committed, envVars, bootVars
<1>2. CASE StartWrite(o)
  <2>1. /\ phase = "linux" /\ cur = Committed /\ cur \in Slots
        /\ stgt[o] \in Slots /\ stgt[o] # cur
    BY <1>2, <1>a DEF StartWrite, Free, HasTarget, SessionInv, TypeOK, Slots, Other
  <2>2. /\ Committed' = Committed /\ SamePending /\ Running' = Running
        /\ good' = [good EXCEPT ![stgt[o]] = FALSE]
    BY <1>2 DEF StartWrite, Committed, SamePending, Running, envVars, bootVars
  <2> QED
    BY <2>1, <2>2, MapOverwrite DEF Abstract!Next
<1>3. CASE TryArm(o)
  <2>1. phase = "linux" /\ cur = Committed /\ upgrade_available' = 1 /\ Committed' = cur
    BY <1>3, <1>a DEF TryArm, Free, HasTarget, EnvWrite, SessionInv, Committed
  <2>2. good' = good /\ Running' = Running
    BY <1>3 DEF TryArm, Running, bootVars
  <2> QED
    BY <2>1, <2>2, MapArm DEF SameSlots, Abstract!Next
<1> QED
  BY <1>1, <1>2, <1>3

\* The commands commit, withdraw and arm; the MBR and the try file are nothing.
LEMMA CommandMaps == ASSUME IInv, CommandStep PROVE [Abstract!Next]_(Abstract!vars)
<1>a. TypeOK /\ TrialInv /\ OpInv
  BY DEF IInv
<1>1. CASE CommitAgain \/ SwitchMbr \/ SwitchRm \/ AgainRm
  BY <1>1, MapStutter DEF CommitAgain, SwitchMbr, SwitchRm, AgainRm, SameSlots,
     SamePending, Running, Committed, envVars, bootVars
<1>2. CASE CancelEnv
  BY <1>2, MapWithdraw DEF CancelEnv, EnvWrite, SameSlots, Running, Committed, bootVars,
     Abstract!Next
<1>3. CASE AgainEnv
  <2>1. phase = "linux" /\ cur = Committed /\ upgrade_available' = 1 /\ Committed' = cur
    BY <1>3, <1>a DEF AgainEnv, EnvWrite, OpInv, Committed
  <2>2. good' = good /\ Running' = Running
    BY <1>3 DEF AgainEnv, Running, bootVars
  <2> QED
    BY <2>1, <2>2, MapArm DEF SameSlots, Abstract!Next
<1>4. ASSUME NEW force \in BOOLEAN, CommitEnv(force) PROVE Abstract!Next
  <2>1. /\ phase = "linux" /\ upgrade_available = 1 /\ upgrade_available' = 0
        /\ Committed' = cur /\ Running' = Running
        /\ good' = [good EXCEPT ![cur] = TRUE]
    BY <1>4 DEF CommitEnv, Free, EnvWrite, Committed, Running, bootVars
  <2>2. cur = Abstract!Other(Committed)
    BY <1>4, <1>a DEF CommitEnv, TrialInv, TypeOK, Committed, Slots, Other, Abstract!Other
  <2> QED
    BY <2>1, <2>2, MapCommit DEF Abstract!Next
<1>5. CASE \E force \in {f \in BOOLEAN : f => AllowForce} : CommitEnv(force)
  BY <1>4, <1>5, Zenon
<1> QED
  BY <1>1, <1>2, <1>3, <1>5, Zenon DEF CommandStep

\* The initial environment is an initial state of the promise.
LEMMA InitMaps == Init => Abstract!Init
<1> SUFFICES ASSUME Init PROVE Abstract!Init
  OBVIOUS
<1>1. Committed = "a" /\ upgrade_available # 1 /\ phase # "linux"
  BY DEF Init, Committed
<1>2. good \in [Abstract!Slots -> BOOLEAN] /\ good["a"]
  BY DEF Init, Slots, Abstract!Slots
<1> QED
  BY <1>1, <1>2 DEF Abstract!Init, Abstract!Slots

\* Commands, sessions, resets and the whole boot chain keep the promise of ABSlots:
\* what is committed is not overwritten, is left only by a commit of the running
\* trial, and nothing else is ever booted.
LEMMA NextMaps == ASSUME OneSession PROVE IInv /\ [Next]_vars => [Abstract!Next]_(Abstract!vars)
<1>1. ASSUME UNCHANGED vars PROVE UNCHANGED Abstract!vars
  BY <1>1, MapStutter DEF vars, envVars, bootVars, SameSlots, SamePending, Running,
     Committed
<1> QED
  BY <1>1, BootMaps, ResetMaps, SessionMaps, CommandMaps DEF Next

THEOREM ImplementsPromise ==
  ASSUME SplIsAB, OneSession
  PROVE  Spec => ImplementsABSlots
  BY NextMaps, InitMaps, Inductive, PTL DEF Spec, ImplementsABSlots, Abstract!Spec

-----------------------------------------------------------------------------
(* The XPI, whose SPL follows the MBR and not the environment.              *)

\* As long as no command has been cut between the environment and the MBR, the XPI
\* keeps what the 8MP keeps: the committed slot, the running slot, what is booted,
\* and with them the promise of ABSlots.
THEOREM UncutXpi ==
  ASSUME OneSession
  PROVE  Spec /\ []~cut => /\ []CommittedIntact
                           /\ []RunningSlotNotWritten
                           /\ CommittedMoves
                           /\ BootsWhatEnvSays
                           /\ ImplementsABSlots
<1>1. ~cut => SplIsAB \/ ~cut
  OBVIOUS
<1>2. Spec /\ []~cut => []IInv
  BY <1>1, Uncut, PTL
<1>3. IInv => CommittedIntact
  BY DEF IInv
<1> QED
  BY <1>2, <1>3, WritesElsewhere, NextCommits, NextBoots, NextMaps, InitMaps, PTL
  DEF Spec, CommittedMoves, BootsWhatEnvSays, ImplementsABSlots, Abstract!Spec

\* A session that may still write
Live(o) == spc[o] # "idle" /\ tryTo # "none"

LockInv ==
  /\ op # "none" => phase = "linux"
  /\ op \in WriteOps => who \in Sessions /\ stgt[who] # "none"
  /\ op \notin WriteOps => who = "none"
  /\ op \in {"commit_mbr", "cancel_mbr", "commit_rm", "cancel_rm"}
       => upgrade_available = 0 /\ \A o \in Sessions : ~Live(o)
  /\ op = "again_env" => upgrade_available = 0 /\ ab_slot = cur /\ tryTo = "none"

LiveInv == \A o \in Sessions :
  /\ Live(o) => upgrade_available = 0 /\ (~cut /\ phase = "linux" => cur = ab_slot)
  /\ stgt[o] # "none" => /\ spc[o] # "idle" /\ phase = "linux"
                         /\ ~cut \/ tryTo = "none" => cur = Committed

StartInv ==
  /\ phase = "alt" => upgrade_available = 1
  /\ ~cut /\ phase \in {"falcon", "proper", "sysboot"} /\ upgrade_available = 0 => cur = ab_slot
  /\ phase # "picked"

\* What is left of IInv once a command has been cut, and until the next mbr_set
CutInv == TypeOK /\ LockInv /\ LiveInv /\ StartInv /\ MbrAligned

\* LiveInv survives what gives no session more to write.
LEMMA LiveKept ==
  ASSUME LiveInv,
         UNCHANGED <<ab_slot, upgrade_available, phase, cur, cut, Committed>>,
         \A o \in Sessions :
           /\ Live(o)' => Live(o)
           /\ stgt'[o] # "none" => /\ stgt[o] # "none" /\ spc'[o] # "idle"
                                   /\ tryTo' = tryTo \/ cur = Committed
  PROVE  LiveInv'
<1> SUFFICES ASSUME NEW o \in Sessions
             PROVE  /\ Live(o)' => /\ upgrade_available' = 0
                                   /\ ~cut' /\ phase' = "linux" => cur' = ab_slot'
                    /\ stgt'[o] # "none" =>
                         /\ spc'[o] # "idle" /\ phase' = "linux"
                         /\ ~cut' \/ tryTo' = "none" => cur' = Committed'
  BY DEF LiveInv
<1>1. /\ Live(o) => upgrade_available = 0 /\ (~cut /\ phase = "linux" => cur = ab_slot)
      /\ stgt[o] # "none" => /\ spc[o] # "idle" /\ phase = "linux"
                             /\ ~cut \/ tryTo = "none" => cur = Committed
  BY DEF LiveInv
<1> QED
  BY <1>1

\* The boot of the XPI.
LEMMA BootCut == ASSUME ~SplIsAB, CutInv, BootStep PROVE LockInv' /\ LiveInv' /\ StartInv' /\ MbrAligned'
<1> USE DEF WriteOps, CutInv, LockInv, LiveInv, StartInv, MbrAligned, Live
<1>t. TypeOK
  OBVIOUS
<1>n. op = "none"
  BY DEF BootStep, SplPick, SplStart, OldSplStart, FalconBoot, ProperCount, AltBoot,
     Sysboot, ProperFails
<1>1. ~SplPick /\ ~SplStart
  BY DEF SplPick, SplStart
<1>2. CASE OldSplStart
  BY <1>2, <1>n DEF OldSplStart, Committed, envVars, cmdVars, sessVars
<1>3. CASE FalconBoot
  BY <1>3, <1>n DEF FalconBoot, LinuxUp, Committed, envVars, cmdVars, sessVars
<1>4. CASE ProperCount
  BY <1>4, <1>n, <1>t DEF ProperCount, SaveOrFault, EnvWrite, Committed, envVars, cmdVars,
     sessVars, TypeOK
<1>5. CASE AltBoot
  BY <1>5, <1>n DEF AltBoot, SaveOrFault, EnvWrite, FallbackSlot, Committed, envVars,
     cmdVars, sessVars
<1>6. CASE Sysboot
  BY <1>6, <1>n DEF Sysboot, LinuxUp, Committed, envVars, cmdVars, sessVars
<1>7. CASE ProperFails
  BY <1>7, <1>n DEF ProperFails, Committed, envVars, cmdVars, sessVars
<1> QED
  BY <1>1, <1>2, <1>3, <1>4, <1>5, <1>6, <1>7 DEF BootStep

\* Resets, and writes of boot_os.
LEMMA RestartCut ==
  ASSUME CutInv, Restart \/ Rearm \/ ForceProper \/ UNCHANGED vars
  PROVE  LockInv' /\ LiveInv' /\ StartInv' /\ MbrAligned'
<1> USE DEF WriteOps, CutInv, LockInv, LiveInv, StartInv, MbrAligned, Live
<1>1. CASE Restart
  BY <1>1 DEF Restart, Committed, envVars, TypeOK
<1>2. CASE Rearm \/ ForceProper
  <2>1. /\ UNCHANGED <<ab_slot, ab_fallback_slot, upgrade_available, mbr, tryTo>>
        /\ UNCHANGED <<phase, cur, op, who, spc, stgt, cut>>
    <3>1. CASE Rearm
      BY <3>1 DEF Rearm, slotVars, cmdVars, sessVars
    <3>2. CASE ForceProper
      BY <3>2 DEF ForceProper, slotVars, bootVars, cmdVars, sessVars
    <3> QED
      BY <1>2, <3>1, <3>2
  <2>2. Committed' = Committed /\ \A o \in Sessions : Live(o)' = Live(o)
    BY <2>1 DEF Committed
  <2>3. \A o \in Sessions : stgt'[o] # "none" => stgt[o] # "none" /\ spc'[o] # "idle"
    BY <2>1
  <2> HIDE DEF Live
  <2>4. LockInv' /\ StartInv' /\ MbrAligned'
    BY <2>1, <2>2
  <2> HIDE DEF LiveInv
  <2>5. LiveInv'
    BY <2>1, <2>2, <2>3, LiveKept DEF LiveInv
  <2> QED
    BY <2>4, <2>5
<1>3. CASE UNCHANGED vars
  BY <1>3 DEF vars, Committed, envVars, bootVars, cmdVars, sessVars
<1> QED
  BY <1>1, <1>2, <1>3

\* The session.
LEMMA SessionCut ==
  ASSUME OneSession, CutInv, SessionStep
  PROVE  LockInv' /\ LiveInv' /\ StartInv' /\ MbrAligned'
<1> USE DEF WriteOps, CutInv, LockInv, LiveInv, StartInv, MbrAligned, Live
<1> SUFFICES ASSUME NEW o \in Sessions,
                    TryBegin(o) \/ ReadTarget(o) \/ Abandon(o) \/ StartWrite(o)
                      \/ FinishWrite(o) \/ TryArm(o)
             PROVE  LockInv' /\ LiveInv' /\ StartInv' /\ MbrAligned'
  BY DEF SessionStep
<1>t. TypeOK
  OBVIOUS
<1>u. "none" \notin Sessions
  BY LinuxABAssumption
<1>1. CASE TryBegin(o)
  BY <1>1, <1>t DEF TryBegin, MayBegin, Free, Committed, TypeOK, envVars, bootVars, cmdVars
<1>2. CASE ReadTarget(o)
  BY <1>2, <1>t DEF ReadTarget, Committed, TypeOK, envVars, bootVars, cmdVars
<1>3. CASE Abandon(o)
  <2>1. /\ UNCHANGED <<ab_slot, ab_fallback_slot, upgrade_available, mbr, tryTo, phase, cur, cut>>
        /\ IF who = o THEN op' = "none" /\ who' = "none" ELSE UNCHANGED <<op, who>>
        /\ stgt' = [stgt EXCEPT ![o] = "none"] /\ spc' = [spc EXCEPT ![o] = "idle"]
    BY <1>3 DEF Abandon, envVars, bootVars, cmdVars
  <2>2. \A u \in Sessions : \/ spc'[u] = spc[u] /\ stgt'[u] = stgt[u]
                            \/ spc'[u] = "idle" /\ stgt'[u] = "none"
    <3>1. /\ stgt \in [Sessions -> Slots \cup {"none"}]
          /\ spc \in [Sessions -> {"idle", "begun", "rooted", "booted"}]
      BY <1>t DEF TypeOK
    <3> QED
      BY <2>1, <3>1
  <2>3. /\ Committed' = Committed /\ tryTo' = tryTo
        /\ \A u \in Sessions : Live(u)' => Live(u)
    BY <2>1, <2>2 DEF Committed
  <2>4. who = o => op \in WriteOps
    BY <1>u
  <2>5. op' \notin WriteOps /\ who' = "none"
    <3>1. op \in WriteOps => who = o
      BY DEF OneSession
    <3> QED
      BY <2>1, <3>1
  <2> HIDE DEF Live
  <2>6. LiveInv'
    <3> HIDE DEF LiveInv
    <3> QED
      BY <2>1, <2>2, <2>3, LiveKept DEF LiveInv
  <2>7. MbrAligned' /\ StartInv'
    BY <2>1, <2>3, <2>4
  <2>8. LockInv'
    BY <2>1, <2>3, <2>4, <2>5
  <2> QED
    BY <2>6, <2>7, <2>8
<1>4. CASE StartWrite(o)
  <2>1. /\ op = "none" /\ op' \in WriteOps /\ who' = o /\ phase = "linux" /\ stgt[o] # "none"
        /\ UNCHANGED <<ab_slot, ab_fallback_slot, upgrade_available, mbr, tryTo, phase, cur, cut>>
        /\ UNCHANGED <<spc, stgt>>
    BY <1>4 DEF StartWrite, Free, HasTarget, envVars, bootVars, sessVars
  <2>2. Committed' = Committed /\ \A u \in Sessions : Live(u)' = Live(u)
    BY <2>1 DEF Committed
  <2> HIDE DEF Live
  <2>3. LiveInv'
    <3>1. \A u \in Sessions : stgt'[u] # "none" => stgt[u] # "none" /\ spc'[u] # "idle"
      BY <2>1
    <3> HIDE DEF LiveInv
    <3> QED
      BY <2>1, <2>2, <3>1, LiveKept DEF LiveInv
  <2>4. LockInv' /\ StartInv' /\ MbrAligned'
    BY <2>1, <2>2
  <2> QED
    BY <2>3, <2>4
<1>5. CASE FinishWrite(o)
  <2>1. /\ op \in WriteOps /\ stgt[o] # "none" /\ spc[o] # "idle" /\ spc'[o] # "idle"
        /\ op' = "none" /\ who' = "none"
        /\ UNCHANGED <<ab_slot, ab_fallback_slot, upgrade_available, mbr, tryTo, phase, cur, cut>>
    BY <1>5, <1>t DEF FinishWrite, TypeOK, envVars, bootVars
  <2>2. \A u \in Sessions : stgt'[u] # "none" => stgt[u] # "none"
    BY <1>5, <1>t DEF FinishWrite, TypeOK
  <2>3. \A u \in Sessions : Live(u)' => Live(u)
    BY <1>5, <1>t, <2>1 DEF FinishWrite, TypeOK
  <2>4. \A u \in Sessions : spc'[u] = "idle" => spc[u] = "idle"
    BY <1>5, <1>t, <2>1 DEF FinishWrite, TypeOK
  <2> HIDE DEF Live
  <2>5. LiveInv'
    BY <2>1, <2>2, <2>3, <2>4 DEF Committed
  <2> QED
    BY <2>1, <2>3, <2>5 DEF Committed
<1>6. CASE TryArm(o)
  <2>1. \A u \in Sessions : spc'[u] = "idle" /\ stgt'[u] = "none"
    BY <1>6, <1>t DEF OneSession, TryArm, TypeOK
  <2> QED
    BY <1>6, <1>t, <2>1 DEF TryArm, Free, HasTarget, EnvWrite, MaybeReboot, Committed, TypeOK,
       bootVars
<1> QED
  BY <1>1, <1>2, <1>3, <1>4, <1>5, <1>6

\* The commands of the board.
LEMMA CommandCut ==
  ASSUME CutInv, CommandStep
  PROVE  LockInv' /\ LiveInv' /\ StartInv' /\ MbrAligned'
<1> USE DEF WriteOps, CutInv, LockInv, LiveInv, StartInv, MbrAligned, Live
<1>t. TypeOK
  OBVIOUS
<1>1. CASE CommitAgain
  BY <1>1, <1>t DEF CommitAgain, MbrSet, Free, Committed, TypeOK, envVars, bootVars, cmdVars,
     sessVars
<1>2. CASE SwitchMbr
  <2>1. /\ op \in {"commit_mbr", "cancel_mbr"} /\ op' \in {"commit_rm", "cancel_rm"}
        /\ mbr' = ab_slot /\ who' = "none" /\ upgrade_available = 0
        /\ UNCHANGED <<ab_slot, upgrade_available, tryTo, phase, cur, spc, stgt>>
    BY <1>2 DEF SwitchMbr, MbrSet, envVars, bootVars, sessVars
  <2>2. Committed' = Committed /\ \A o \in Sessions : ~Live(o)'
    BY <2>1 DEF Committed
  <2>3. \A o \in Sessions : stgt[o] # "none" => spc[o] # "idle" /\ cur = Committed
    BY <2>1
  <2> HIDE DEF Live
  <2>4. LockInv' /\ StartInv' /\ MbrAligned'
    BY <2>1, <2>2 DEF Committed
  <2>5. \A o \in Sessions : stgt'[o] # "none" => spc'[o] # "idle" /\ cur' = Committed'
    BY <2>1, <2>2, <2>3
  <2>6. \A o \in Sessions : stgt'[o] # "none" => phase' = "linux"
    BY <2>1
  <2>7. LiveInv'
    BY <2>2, <2>5, <2>6
  <2> QED
    BY <2>4, <2>7
<1>3. CASE SwitchRm
  BY <1>3, <1>t DEF SwitchRm, DropTry, MaybeReboot, Committed, TypeOK, envVars, bootVars, sessVars
<1>4. CASE CancelEnv
  BY <1>4, <1>t DEF CancelEnv, EnvWrite, Free, Committed, TypeOK, bootVars, sessVars
<1>5. CASE AgainRm
  BY <1>5, <1>t DEF AgainRm, DropTry, Free, Committed, TypeOK, envVars, bootVars, sessVars
<1>6. CASE AgainEnv
  BY <1>6, <1>t DEF AgainEnv, EnvWrite, MaybeReboot, Committed, TypeOK, bootVars, sessVars
<1>7. ASSUME NEW force \in BOOLEAN, CommitEnv(force)
      PROVE  LockInv' /\ LiveInv' /\ StartInv' /\ MbrAligned'
  BY <1>7, <1>t DEF CommitEnv, EnvWrite, Free, Committed, TypeOK, bootVars, sessVars
<1> HIDE DEF CutInv, LockInv, LiveInv, StartInv, MbrAligned, Live
<1>8. CASE \E force \in {f \in BOOLEAN : f => AllowForce} : CommitEnv(force)
  BY <1>7, <1>8, Zenon
<1> QED
  BY <1>1, <1>2, <1>3, <1>4, <1>5, <1>6, <1>8, Zenon DEF CommandStep

\* The MBR flag names the committed slot, except inside a command or after one was cut
\* there and until `ab linux commit` has been run again: on both boards.
THEOREM MbrStaysAligned == ASSUME OneSession PROVE Spec => []MbrAligned
<1>1. CASE SplIsAB
  <2>1. IInv => MbrAligned
    BY DEF IInv
  <2> QED
    BY <1>1, <2>1, Inductive, PTL
<1>2. CASE ~SplIsAB
  <2>1. Init => CutInv
    BY InitIInv DEF Init, WriteOps, IInv, CutInv, LockInv, LiveInv, StartInv, Live
  <2>2. CutInv /\ [Next]_vars => CutInv'
    <3>1. CutInv /\ [Next]_vars => TypeOK'
      BY NextType DEF CutInv
    <3> QED
      BY <1>2, <3>1, BootCut, RestartCut, SessionCut, CommandCut DEF Next, Reset, CutInv
  <2>3. CutInv => MbrAligned
    BY DEF CutInv
  <2> QED
    BY <2>1, <2>2, <2>3, PTL DEF Spec
<1> QED
  BY <1>1, <1>2

\* What a cut commit leaves on the XPI: the environment names the slot that was
\* committed, the MBR the one that was committed before, which is still whole, and no
\* session may write.
Stale ==
  /\ mbr = Other(Committed) /\ Whole(mbr) /\ boot[mbr] \in Healthy
  /\ upgrade_available = 0
  /\ \A o \in Sessions : stgt[o] = "none" /\ ~Live(o)

Aligned == mbr = Committed \/ (op = "commit_mbr" /\ Stale)

\* The board then runs the slot of the MBR, where every ab command but status is refused
Lost ==
  /\ CommittedIntact /\ Stale
  /\ op = "none" /\ who = "none" /\ phase \in {"spl", "falcon", "linux"}
  /\ phase # "spl" => cur = mbr

XpiInv ==
  /\ TypeOK /\ boot_os = "yes" /\ ~rearmed /\ phase # "picked"
  /\ (IInv /\ Aligned) \/ Lost

\* A step without a write keeps what a cut commit leaves.
LEMMA StaleKept ==
  ASSUME Stale, UNCHANGED <<slotVars, mbr, store, tryTo>>,
         \A o \in Sessions : /\ spc'[o] \in {spc[o], "idle"}
                             /\ stgt'[o] \in {stgt[o], "none"}
  PROVE  Stale'
<1>1. Committed' = Committed
  BY DEF Committed, slotVars
<1>2. \A o \in Sessions : stgt'[o] = "none" /\ ~(spc'[o] # "idle" /\ tryTo' # "none")
  BY DEF Stale, Live
<1> QED
  BY <1>1, <1>2 DEF Stale, Live, Whole, slotVars, store

\* The boot and the reset of a board whose commit was cut: it starts the old slot
\* again, which comes up.
LEMMA LostBoots ==
  ASSUME ~SplIsAB, TypeOK, Lost, boot_os = "yes", BootStep \/ Reset
  PROVE  Lost'
<1>1. CASE OldSplStart
  <2>1. Stale'
    BY <1>1, StaleKept DEF OldSplStart, Lost, slotVars, envVars, store, sessVars
  <2>2. /\ phase' = "falcon" /\ cur' = mbr /\ mbr' = mbr /\ op' = op /\ who' = who
        /\ UNCHANGED <<store, good, Committed>>
    BY <1>1 DEF OldSplStart, Lost, Stale, envVars, cmdVars, Committed
  <2> QED
    BY <2>1, <2>2 DEF Lost, CommittedIntact, Whole, store
<1>2. CASE FalconBoot
  <2>1. FalconOutcome(cur) = {"up"}
    <3>1. /\ Whole(cur) /\ boot[cur] \in FalconOk
          /\ boot[cur] # "empty" /\ boot[cur] \notin FalconAbsent
      BY <1>2, LinuxABAssumption DEF FalconBoot, Lost, Stale, Whole
    <3> QED
      BY <3>1 DEF FalconOutcome
  <2>2. /\ phase' = "linux" /\ phase = "falcon" /\ cur' = cur /\ mbr' = mbr
        /\ op' = op /\ who' = who /\ UNCHANGED <<store, good, Committed>>
    BY <1>2, <2>1 DEF FalconBoot, LinuxUp, envVars, cmdVars, Committed
  <2>3. Stale'
    BY <1>2, StaleKept DEF FalconBoot, Lost, slotVars, envVars, store, sessVars
  <2> QED
    BY <2>2, <2>3 DEF Lost, CommittedIntact, Whole, store
<1>3. CASE Reset
  <2>1. \A o \in Sessions : spc'[o] \in {spc[o], "idle"} /\ stgt'[o] = "none"
    BY <1>3 DEF Reset, Restart
  <2>2. Stale'
    BY <1>3, <2>1, StaleKept DEF Reset, Restart, Lost, slotVars, envVars, store
  <2>3. /\ phase' = "spl" /\ op' = "none" /\ who' = "none"
        /\ UNCHANGED <<store, good, Committed>>
    BY <1>3 DEF Reset, Restart, envVars, Committed
  <2> QED
    BY <2>2, <2>3 DEF Lost, CommittedIntact, Whole, store
<1>4. ~(SplPick \/ SplStart \/ ProperCount \/ AltBoot \/ Sysboot \/ ProperFails)
  BY DEF SplPick, SplStart, ProperCount, AltBoot, Sysboot, ProperFails, Lost
<1> QED
  BY <1>1, <1>2, <1>3, <1>4 DEF BootStep

\* In Linux it can do nothing: every command is refused, and no session may write.
LEMMA LostRefuses ==
  ASSUME ~SplIsAB, TypeOK, Lost, ~rearmed,
         Rearm \/ ForceProper \/ SessionStep \/ CommandStep
  PROVE  Lost'
<1>1. ~Rearm /\ ~ForceProper
  BY DEF Rearm, ForceProper
<1>2. Free => ab_slot # cur
  BY DEF Free, Lost, Stale, Committed, Other, TypeOK, Slots
<1>3. CASE SessionStep
  <2>1. PICK o \in Sessions : TryBegin(o) \/ ReadTarget(o) \/ Abandon(o) \/ StartWrite(o)
                                \/ FinishWrite(o) \/ TryArm(o)
    BY <1>3 DEF SessionStep
  <2>2. stgt[o] = "none" /\ (spc[o] = "idle" \/ tryTo = "none") /\ who # o
    BY LinuxABAssumption DEF Lost, Stale, Live
  <2>3. Abandon(o)
    BY <1>2, <2>1, <2>2 DEF TryBegin, MayBegin, ReadTarget, StartWrite, FinishWrite, TryArm,
       HasTarget
  <2>4. \A u \in Sessions : spc'[u] \in {spc[u], "idle"} /\ stgt'[u] \in {stgt[u], "none"}
    BY <2>3 DEF Abandon, TypeOK
  <2>5. Stale'
    BY <2>3, <2>4, StaleKept DEF Abandon, Lost, slotVars, envVars, store
  <2>6. UNCHANGED <<op, who, phase, cur, mbr, store, good, Committed>>
    BY <2>2, <2>3 DEF Abandon, cmdVars, envVars, bootVars, Committed
  <2> QED
    BY <2>5, <2>6 DEF Lost, CommittedIntact, Whole, store
<1>4. ~(CommitAgain \/ CancelEnv \/ SwitchMbr \/ SwitchRm \/ AgainRm \/ AgainEnv)
  <2>1. op = "none" /\ upgrade_available = 0
    BY DEF Lost, Stale
  <2> QED
    <3>1. ~CommitAgain /\ ~AgainRm
      BY <1>2, Zenon DEF CommitAgain, AgainRm
    <3>2. ~CancelEnv /\ ~SwitchMbr /\ ~SwitchRm /\ ~AgainEnv
      BY <2>1 DEF CancelEnv, SwitchMbr, SwitchRm, AgainEnv
    <3> QED
      BY <3>1, <3>2
<1>5. \A force \in BOOLEAN : ~CommitEnv(force)
  BY <1>2 DEF CommitEnv
<1>6. ~CommandStep
  BY <1>4, <1>5, Zenon DEF CommandStep
<1> QED
  BY <1>1, <1>3, <1>6

\* The MBR follows the committed slot, or a commit is between its two writes.
LEMMA AlignedSteps ==
  ASSUME ~SplIsAB, ~AllowForce, OneSession, IInv, Aligned, Next
  PROVE  Aligned' \/ Lost'
<1>a. TypeOK /\ TrialInv /\ SessionInv /\ OpInv /\ CommittedIntact /\ IInv'
  <2>1. Sure
    BY DEF Sure, Aligned, IInv, OpInv
  <2> QED
    BY <2>1, NextIInv DEF IInv
<1>1. CASE CommitAgain \/ SwitchMbr
  <2>1. CASE CommitAgain
    <3>1. mbr' = cur /\ ab_slot = cur /\ upgrade_available # 1 /\ Committed' = Committed
      BY <2>1 DEF CommitAgain, MbrSet, Committed, envVars
    <3> QED
      BY <3>1 DEF Aligned, Committed
  <2>2. CASE SwitchMbr
    <3>1. mbr' = ab_slot /\ upgrade_available = 0 /\ Committed' = Committed
      BY <1>a, <2>2 DEF SwitchMbr, MbrSet, OpInv, Committed, envVars
    <3> QED
      BY <3>1 DEF Aligned, Committed
  <2> QED
    BY <1>1, <2>1, <2>2
<1>2. ASSUME NEW force \in BOOLEAN, force => AllowForce, CommitEnv(force) PROVE Aligned'
  <2>1. /\ ChecksPass /\ upgrade_available = 1 /\ ab_slot = cur /\ op = "none"
        /\ Committed' = cur /\ upgrade_available' = 0 /\ op' = "commit_mbr"
        /\ UNCHANGED <<mbr, root, boot, tryTo, spc, stgt>>
    BY <1>2 DEF CommitEnv, Free, EnvWrite, Committed, store, sessVars
  <2>2. mbr = Committed /\ Committed = Other(cur) /\ cur = Other(mbr) /\ mbr = Other(cur)
    BY <2>1, <1>a DEF Aligned, TrialInv, Committed, Other, TypeOK, Slots
  <2>3. Whole(mbr) /\ boot[mbr] \in Healthy
    BY <2>2, <1>a DEF CommittedIntact
  <2>4. \A o \in Sessions : stgt[o] = "none" /\ ~Live(o)
    BY <2>1, <2>2, <1>a DEF SessionInv, Live, Other, TypeOK, Slots
  <2>5. \A o \in Sessions : stgt'[o] = "none" /\ ~(spc'[o] # "idle" /\ tryTo' # "none")
    BY <2>1, <2>4 DEF Live
  <2>6. Stale'
    BY <2>1, <2>2, <2>3, <2>5 DEF Stale, Live, Whole
  <2> QED
    BY <2>1, <2>6 DEF Aligned
<1>3. CASE Committed' = Committed /\ mbr' = mbr /\ mbr = Committed
  BY <1>3 DEF Aligned
<1>4. ASSUME op = "commit_mbr", Stale, mbr' = mbr,
             BootStep \/ Rearm \/ Reset \/ SessionStep \/ CommandStep \/ ForceProper
      PROVE  Aligned' \/ Lost'
  <2>1. phase = "linux" /\ who = "none" /\ ~Free
    BY <1>4, <1>a DEF OpInv, WriteOps, Free
  <2>2. ~BootStep /\ ~Rearm /\ ~ForceProper
    BY <2>1 DEF BootStep, SplPick, SplStart, OldSplStart, FalconBoot, ProperCount, AltBoot,
       Sysboot, ProperFails, Rearm, ForceProper
  <2>3. CASE Reset
    <3>1. \A o \in Sessions : spc'[o] \in {spc[o], "idle"} /\ stgt'[o] = "none"
      BY <2>3 DEF Reset, Restart
    <3>2. Stale'
      BY <1>4, <2>3, <3>1, StaleKept DEF Reset, Restart, slotVars, envVars, store
    <3> QED
      BY <1>a, <2>3, <3>2 DEF Lost, IInv, Reset, Restart
  <2>4. CASE SessionStep
    <3>1. PICK o \in Sessions : TryBegin(o) \/ ReadTarget(o) \/ Abandon(o) \/ StartWrite(o)
                                  \/ FinishWrite(o) \/ TryArm(o)
      BY <2>4 DEF SessionStep
    <3>2. who # o /\ (spc[o] = "idle" \/ tryTo = "none")
      BY <1>4, <2>1, LinuxABAssumption DEF Stale, Live
    <3>3. Abandon(o)
      BY <1>4, <2>1, <3>1, <3>2 DEF TryBegin, ReadTarget, StartWrite, FinishWrite, TryArm
    <3>4. \A u \in Sessions : spc'[u] \in {spc[u], "idle"} /\ stgt'[u] \in {stgt[u], "none"}
      BY <3>3, <1>a DEF Abandon, TypeOK
    <3>5. Stale' /\ op' = op
      BY <1>4, <3>2, <3>3, <3>4, StaleKept DEF Abandon, slotVars, envVars, store, cmdVars
    <3> QED
      BY <1>4, <3>5 DEF Aligned
  <2>5. ~(CommitAgain \/ CancelEnv \/ SwitchRm \/ AgainRm \/ AgainEnv)
    BY <1>4, <2>1 DEF CommitAgain, CancelEnv, SwitchRm, AgainRm, AgainEnv
  <2>6. \A force \in BOOLEAN : ~CommitEnv(force)
    BY <2>1 DEF CommitEnv
  <2>7. CASE SwitchMbr
    BY <1>1, <2>7
  <2> QED
    BY <1>4, <2>2, <2>3, <2>4, <2>5, <2>6, <2>7, Zenon DEF CommandStep
<1>5. CASE ~(CommitAgain \/ SwitchMbr \/ \E force \in {f \in BOOLEAN : f => AllowForce} : CommitEnv(force))
  <2>1. mbr' = mbr
    BY <1>5 DEF Next, BootStep, SplPick, SplStart, OldSplStart, FalconBoot, ProperCount,
       AltBoot, Sysboot, ProperFails, Rearm, Reset, Restart, ForceProper, SessionStep,
       TryBegin, ReadTarget, Abandon, StartWrite, FinishWrite, TryArm, CommandStep,
       CancelEnv, SwitchRm, AgainRm, AgainEnv
  <2>2. CASE mbr = Committed
    <3>1. CASE Committed' = Committed
      BY <1>3, <2>1, <2>2, <3>1
    <3> QED
      BY <1>5, <3>1, OnlyCommitMoves
  <2> QED
    BY <1>4, <2>1, <2>2 DEF Next, Aligned
<1>6. CASE \E force \in {f \in BOOLEAN : f => AllowForce} : CommitEnv(force)
  BY <1>2, <1>6, Zenon
<1> QED
  BY <1>1, <1>5, <1>6

\* The XPI without --force: what is committed stays intact, also across a cut commit.
LEMMA XpiKeeps ==
  ASSUME ~SplIsAB, ~AllowForce, OneSession
  PROVE  Spec => []XpiInv
<1>1. Init => XpiInv
  BY InitIInv DEF Init, XpiInv, Aligned, Committed, IInv
<1>2. ASSUME XpiInv, [Next]_vars PROVE XpiInv'
  <2> USE DEF XpiInv
  <2>1. TypeOK'
    BY <1>2, NextType
  <2>2. boot_os' = "yes" /\ ~rearmed' /\ phase' # "picked"
    <3>1. CASE BootStep
      BY <1>2, <3>1 DEF BootStep, SplPick, SplStart, OldSplStart, FalconBoot, LinuxUp,
         ProperCount, AltBoot, SaveOrFault, Sysboot, ProperFails, envVars
    <3>2. CASE Reset
      BY <1>2, <3>2 DEF Reset, Restart, envVars
    <3>3. CASE Rearm \/ ForceProper
      BY <1>2, <3>3, Zenon DEF Rearm, ForceProper
    <3>4. CASE SessionStep
      BY <1>2, <3>4 DEF SessionStep, TryBegin, ReadTarget, Abandon, StartWrite, FinishWrite,
         TryArm, envVars, bootVars
    <3>5. CASE CommandStep
      <4>1. CASE CommitAgain \/ CancelEnv \/ SwitchMbr \/ SwitchRm \/ AgainRm \/ AgainEnv
        <5>1. boot_os' = boot_os /\ UNCHANGED <<rearmed, phase>>
          <6>1. CASE CommitAgain \/ AgainRm
            BY <6>1, Zenon DEF CommitAgain, AgainRm, envVars, bootVars
          <6>2. CASE CancelEnv \/ SwitchMbr \/ SwitchRm \/ AgainEnv
            BY <6>2, Zenon DEF CancelEnv, SwitchMbr, SwitchRm, AgainEnv, envVars, bootVars
          <6> QED
            BY <4>1, <6>1, <6>2
        <5> QED
          BY <1>2, <5>1
      <4>2. ASSUME NEW force \in BOOLEAN, CommitEnv(force)
            PROVE  boot_os' = "yes" /\ ~rearmed' /\ phase' # "picked"
        BY <1>2, <4>2 DEF CommitEnv, bootVars
      <4> QED
        BY <3>5, <4>1, <4>2, Zenon DEF CommandStep
    <3>6. CASE UNCHANGED vars
      BY <1>2, <3>6 DEF vars, envVars, bootVars
    <3> QED
      BY <1>2, <3>1, <3>2, <3>3, <3>4, <3>5, <3>6 DEF Next
  <2>3. CASE UNCHANGED vars
    <3>1. CASE IInv /\ Aligned
      <4>1. Sure
        BY <3>1 DEF Sure, Aligned, IInv, OpInv
      <4>2. IInv'
        BY <2>3, <3>1, <4>1, NextIInv
      <4>3. Aligned'
        <5>1. CASE mbr = Committed
          BY <2>3, <5>1 DEF Aligned, Committed, vars, envVars
        <5>2. CASE op = "commit_mbr" /\ Stale
          BY <2>3, <5>2, StaleKept DEF Aligned, vars, envVars, slotVars, store, cmdVars, sessVars
        <5> QED
          BY <3>1, <5>1, <5>2 DEF Aligned
      <4> QED
        BY <1>2, <2>1, <2>2, <4>2, <4>3
    <3>2. CASE Lost
      <4>1. Stale'
        BY <2>3, <3>2, StaleKept DEF Lost, vars, envVars, slotVars, store, cmdVars, sessVars
      <4>2. Lost'
        BY <2>3, <3>2, <4>1 DEF Lost, CommittedIntact, Committed, Whole, vars, envVars,
           store, cmdVars, bootVars
      <4> QED
        BY <2>1, <2>2, <4>2
    <3> QED
      BY <1>2, <3>1, <3>2
  <2>4. CASE Next /\ IInv /\ Aligned
    <3>1. Sure
      BY <2>4 DEF Sure, Aligned, IInv, OpInv
    <3>2. IInv'
      BY <2>4, <3>1, NextIInv
    <3>3. Aligned' \/ Lost'
      BY <2>4, AlignedSteps
    <3> QED
      BY <2>1, <2>2, <3>2, <3>3
  <2>5. CASE Next /\ Lost
    <3>1. Lost'
      BY <1>2, <2>5, LostBoots, LostRefuses DEF Next
    <3> QED
      BY <2>1, <2>2, <3>1
  <2> QED
    BY <1>2, <2>3, <2>4, <2>5
<1> QED
  BY <1>1, <1>2, PTL DEF Spec

\* On the XPI too the committed slot stays a whole healthy image, also when a commit is
\* cut between the environment and the MBR and for all boots after it: what the board
\* then starts is the slot that was committed before, and there `ab` refuses to write.
THEOREM XpiCommittedIntact ==
  ASSUME ~SplIsAB, ~AllowForce, OneSession
  PROVE  Spec => []CommittedIntact
<1>1. XpiInv => CommittedIntact
  BY DEF XpiInv, Lost, IInv
<1> QED
  BY <1>1, XpiKeeps, PTL

\* Nor does it write to the slot it runs from, cut or not.
THEOREM XpiRunningSlotSafe ==
  ASSUME ~SplIsAB, ~AllowForce, OneSession
  PROVE  Spec => []RunningSlotNotWritten
<1>1. XpiInv => RunningSlotNotWritten
  BY WritesElsewhere DEF XpiInv, Lost, RunningSlotNotWritten, WriteOps
<1> QED
  BY <1>1, XpiKeeps, PTL

-----------------------------------------------------------------------------
(* The count of a trial, on both boards and for any number of sessions.     *)

\* The SPL counts before it boots a trial, so no boot of it goes uncounted except
\* by an error of env_save; what U-Boot proper adds ends in altbootcmd. MemCounted
\* is the same of the counter that the SPL still holds in RAM.
Counted == upgrade_available = 1 => tries <= bootcount + faults /\ tries <= BootLimit + faults

MemCounted == phase = "picked" =>
  /\ mem.ua = 1 => /\ tries <= mem.cnt + faults /\ tries <= BootLimit + faults
                   /\ mem.cnt <= BootLimit
  /\ SplIsAB => mem.cnt <= BootLimit + 1 + faults

CountEnds == SplIsAB =>
  /\ bootcount <= BootLimit + 1 + faults
  /\ phase \in {"picked", "falcon", "proper"} /\ upgrade_available = 1
       => bootcount <= BootLimit + faults

CountInv == Counted /\ MemCounted /\ CountEnds

\* The boot chain keeps the count.
LEMMA BootCounts == ASSUME TypeOK, CountInv, BootStep PROVE CountInv'
<1> USE LinuxABAssumption DEF CountInv, Counted, MemCounted, CountEnds, TypeOK
<1>1. CASE SplPick
  <2>1. CASE upgrade_available = 0
    BY <1>1, <2>1 DEF SplPick, SplMem, envVars
  <2>2. CASE upgrade_available = 1 /\ LimitHit(bootcount + 1)
    BY <1>1, <2>2 DEF SplPick, SplMem, SaveOrFault, EnvWrite, envVars
  <2>3. CASE upgrade_available = 1 /\ ~LimitHit(bootcount + 1)
    <3>1. /\ SplMem = [slot |-> ab_slot, ua |-> 1, cnt |-> bootcount + 1]
          /\ bootcount + 1 <= BootLimit
      BY <2>3 DEF SplMem, LimitHit, Min9
    <3> QED
      BY <1>1, <2>3, <3>1 DEF SplPick, SaveOrFault, EnvWrite, envVars
  <2> QED
    BY <2>1, <2>2, <2>3
<1>2. CASE SplStart
  BY <1>2 DEF SplStart, SaveOrFault, EnvWrite, envVars
<1>3. CASE OldSplStart
  BY <1>3 DEF OldSplStart, envVars
<1>4. CASE FalconBoot \/ Sysboot \/ ProperFails
  BY <1>4 DEF FalconBoot, Sysboot, ProperFails, LinuxUp, envVars
<1>5. CASE ProperCount
  BY <1>5 DEF ProperCount, ProperInc, LimitHit, SaveOrFault, EnvWrite, envVars
<1>6. CASE AltBoot
  BY <1>6 DEF AltBoot, SaveOrFault, EnvWrite, envVars
<1> QED
  BY <1>1, <1>2, <1>3, <1>4, <1>5, <1>6 DEF BootStep

\* So does everything else: who arms a trial sets bootcount to 0.
LEMMA OthersCount ==
  ASSUME TypeOK, CountInv,
         Rearm \/ Reset \/ ForceProper \/ SessionStep \/ CommandStep \/ UNCHANGED vars
  PROVE  CountInv'
<1> USE LinuxABAssumption DEF CountInv, Counted, MemCounted, CountEnds, TypeOK
<1>1. CASE Rearm \/ Reset \/ ForceProper \/ UNCHANGED vars
  BY <1>1 DEF Rearm, Reset, Restart, ForceProper, vars, envVars, slotVars, bootVars
<1>2. CASE SessionStep
  BY <1>2 DEF SessionStep, TryBegin, ReadTarget, Abandon, StartWrite, FinishWrite, TryArm,
     EnvWrite, envVars, bootVars
<1>3. CASE CommandStep
  <2>1. CASE CommitAgain \/ SwitchMbr \/ SwitchRm \/ AgainRm
    BY <2>1 DEF CommitAgain, SwitchMbr, SwitchRm, AgainRm, envVars, bootVars
  <2>2. CASE CancelEnv
    BY <2>2 DEF CancelEnv, EnvWrite, bootVars
  <2>3. CASE AgainEnv
    BY <2>3 DEF AgainEnv, EnvWrite, bootVars
  <2>4. ASSUME NEW force \in BOOLEAN, CommitEnv(force) PROVE CountInv'
    BY <2>4 DEF CommitEnv, EnvWrite, bootVars
  <2>5. CASE \E force \in {f \in BOOLEAN : f => AllowForce} : CommitEnv(force)
    <3> HIDE DEF CountInv
    <3> QED
      BY <2>4, <2>5, Zenon
  <2> HIDE DEF CountInv
  <2> QED
    BY <1>3, <2>1, <2>2, <2>3, <2>5, Zenon DEF CommandStep
<1> QED
  BY <1>1, <1>2, <1>3

\* No trial is booted more than bootlimit times, plus one for each failed env_save,
\* whatever commands, resets and images there are, on the 8MP and on the XPI.
THEOREM TrialsEnd == Spec => []TrialBounded
<1>1. Init => CountInv
  BY LinuxABAssumption DEF Init, CountInv, Counted, MemCounted, CountEnds
<1>2. TypeOK /\ CountInv /\ [Next]_vars => CountInv'
  BY BootCounts, OthersCount DEF Next
<1>3. CountInv => TrialBounded
  BY DEF CountInv, Counted, CountEnds, TrialBounded
<1> QED
  BY <1>1, <1>2, <1>3, TypeCorrect, PTL DEF Spec
=============================================================================
