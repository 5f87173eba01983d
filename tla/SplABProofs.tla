---------------------------- MODULE SplABProofs ----------------------------
(***************************************************************************)
(* Wherever `ab spl` is cut, killed or finds that a body came out wrong, a  *)
(* copy of the SPL is left: for every set of versions, every factory version *)
(* and every schedule of commands, resets, deaths and wrong bodies.         *)
(*                                                                          *)
(* Neither AlwaysBootable nor ProvenCopyLeft is inductive: they do not know *)
(* which copy a command is writing. WriteOrder says what is on the disk and *)
(* in unsure at each of its steps; CleanInv adds, while no body came out    *)
(* wrong, that the copy it is NOT writing is whole; SureInv, while no unsure *)
(* copy was copied, that the copy it is not writing is not unsure and has   *)
(* brought the board up. That copy A is restored is at the end.             *)
(***************************************************************************)
EXTENDS SplAB, TLAPS

Writing == {"zero", "tear", "body", "ivt", "cmp"}

WriteOrder ==
  /\ op \in {"tear", "body", "ivt"} => ~ivt[dst]
  /\ op \in {"tear", "body", "ivt", "cmp"} => dst \in unsure
  /\ op = "cmp" => ivt[dst]
  /\ op \in Writing => phase = "linux"
  /\ op \in Writing => (dst = "B" <=> new # "none")

CleanInv ==
  bad = 0 =>
    /\ \A c \in Areas : ivt[c] => body[c] \in Versions
    /\ Whole("A") \/ Whole("B")
    /\ op \in Writing => ver \in Versions
    /\ op \in Writing /\ dst = "A" => Whole("B")
    /\ op \in Writing /\ dst = "B" => Whole("A")
    /\ op \in {"ivt", "cmp"} => body[dst] = ver

Proven(c) == Whole(c) /\ body[c] \in booted

SureInv ==
  ~careless =>
    /\ \A c \in Areas \ unsure : Proven(c)
    /\ "A" \notin unsure \/ "B" \notin unsure
    /\ op \in Writing => ver \in Versions
    /\ op \in Writing /\ dst = "A" => "B" \notin unsure
    /\ op \in Writing /\ dst = "B" => "A" \notin unsure /\ ver \in booted

IInv == SplTypeOK /\ WriteOrder /\ CleanInv /\ SureInv

\* The board is flashed with two whole copies, and nothing is being written.
LEMMA InitIInv == SplInit => IInv
<1> SUFFICES ASSUME SplInit PROVE IInv
  OBVIOUS
<1>1. SplTypeOK
  BY SplABAssumption DEF SplInit, SplTypeOK, Areas
<1>2. WriteOrder
  BY DEF SplInit, WriteOrder, Writing
<1>3. CleanInv /\ SureInv
  BY SplABAssumption DEF SplInit, CleanInv, SureInv, Proven, Whole, Writing, Areas
<1> QED
  BY <1>1, <1>2, <1>3 DEF IInv

\* Every step keeps the types.
LEMMA NextTypes == SplTypeOK /\ [SplNext]_splVars => SplTypeOK'
<1> SUFFICES ASSUME SplTypeOK, [SplNext]_splVars PROVE SplTypeOK'
  OBVIOUS
<1> USE SplABAssumption DEF SplTypeOK, Areas, boot, cmd, disk, hist
<1>1. ASSUME Rom PROVE SplTypeOK'
  <2>1. RomCopy \in Areas
    BY DEF RomCopy
  <2>2. /\ phase' \in {"linux", "dead"} /\ active' = RomCopy /\ died' = FALSE
        /\ UNCHANGED <<ivt, body, healed, op, dst, ver, new, bad, careless>>
    BY <1>1 DEF Rom
  <2>3. running' \in Booting /\ booted' \subseteq Booting
    BY <1>1 DEF Rom
  <2>4. unsure' \subseteq Areas
    BY <1>1 DEF Rom
  <2> QED
    BY <2>1, <2>2, <2>3, <2>4, Zenon
<1>2. ASSUME Reset PROVE SplTypeOK'
  BY <1>2 DEF Reset, NoCommand
<1>3. ASSUME Rollback PROVE SplTypeOK'
  BY <1>3 DEF Rollback, RollbackTo, WriteCopy, TakeFrom
<1>4. ASSUME SelfHeal PROVE SplTypeOK'
  BY <1>4 DEF SelfHeal, RollbackTo, WriteCopy, TakeFrom
<1>5. ASSUME NEW v \in Versions, Update(v) PROVE SplTypeOK'
  BY <1>5 DEF Update, WriteCopy, TakeFrom
<1>6. ASSUME WriteZero \/ WriteTear \/ WriteBody \/ WriteIvt PROVE SplTypeOK'
  <2>1. UNCHANGED <<phase, active, running, healed, died, dst, ver, new, booted, careless>>
    BY <1>6 DEF WriteZero, WriteTear, WriteBody, WriteIvt
  <2>2. op' \in {"tear", "body", "ivt", "cmp"} /\ bad' \in Nat
    BY <1>6 DEF WriteZero, WriteTear, WriteBody, WriteIvt
  <2>3. unsure' \subseteq Areas
    BY <1>6 DEF WriteZero, WriteTear, WriteBody, WriteIvt
  <2>4. ivt' \in [Areas -> BOOLEAN]
    BY <1>6 DEF WriteZero, WriteTear, WriteBody, WriteIvt
  <2>5. body' \in [Areas -> Versions \cup {"torn"}]
    BY <1>6 DEF WriteZero, WriteTear, WriteBody, WriteIvt
  <2> QED
    BY <2>1, <2>2, <2>3, <2>4, <2>5, Zenon
<1>7. ASSUME ReadBack PROVE SplTypeOK'
  <2>1. UNCHANGED <<ivt, body, phase, active, running, healed, booted, bad, careless>>
    BY <1>7 DEF ReadBack
  <2>2. died' \in BOOLEAN /\ unsure' \subseteq Areas
    BY <1>7 DEF ReadBack, Dies
  <2>3. op' \in {"none", "zero"} /\ dst' \in Areas /\ ver' \in Versions /\ new' = "none"
    BY <1>7 DEF ReadBack, Dies, NoCommand, WriteCopy
  <2> QED
    BY <2>1, <2>2, <2>3, Zenon
<1>8. ASSUME Die PROVE SplTypeOK'
  BY <1>8 DEF Die, Dies, NoCommand
<1>9. ASSUME UNCHANGED splVars PROVE SplTypeOK'
  BY <1>9, Zenon DEF splVars
<1> QED
  BY <1>1, <1>2, <1>3, <1>4, <1>5, <1>6, <1>7, <1>8, <1>9 DEF SplNext, Write

\* Where a command is in its writing.
LEMMA NextOrder ==
  ASSUME SplTypeOK, WriteOrder, [SplNext]_splVars PROVE WriteOrder'
<1> USE DEF WriteOrder, Writing, disk, boot, cmd, hist
<1>1. CASE Rom \/ Reset \/ Die \/ UNCHANGED splVars
  BY <1>1 DEF Rom, Reset, Die, Dies, NoCommand, splVars
<1>2. CASE Rollback \/ SelfHeal
  BY <1>2 DEF Rollback, SelfHeal, Free, RollbackTo, WriteCopy
<1>3. ASSUME NEW v \in Versions, Update(v) PROVE WriteOrder'
  BY <1>3, SplABAssumption DEF Update, Free, WriteCopy
<1>4. CASE WriteZero
  BY <1>4 DEF WriteZero, SplTypeOK
<1>5. CASE WriteTear \/ WriteBody
  BY <1>5 DEF WriteTear, WriteBody
<1>6. CASE WriteIvt
  BY <1>6 DEF WriteIvt, SplTypeOK
<1>7. CASE ReadBack
  BY <1>7 DEF ReadBack, Dies, NoCommand, WriteCopy
<1> QED
  BY <1>1, <1>2, <1>3, <1>4, <1>5, <1>6, <1>7 DEF SplNext, Write

\* While no body came out wrong: the copy that is not written is whole.
LEMMA NextClean ==
  ASSUME SplTypeOK, WriteOrder, CleanInv, [SplNext]_splVars PROVE CleanInv'
<1> USE DEF CleanInv, Whole, Writing, Areas, disk, boot, cmd, hist
<1>1. CASE Rom \/ Reset \/ Die \/ UNCHANGED splVars
  BY <1>1 DEF Rom, Reset, Die, Dies, NoCommand, splVars
<1>2. CASE Rollback \/ SelfHeal
  BY <1>2 DEF Rollback, SelfHeal, Restorable, RollbackTo, WriteCopy
<1>3. ASSUME NEW v \in Versions, Update(v) PROVE CleanInv'
  BY <1>3 DEF Update, WriteCopy, SplTypeOK
<1>4. CASE WriteZero
  BY <1>4 DEF WriteZero, SplTypeOK
<1>5. CASE WriteTear
  BY <1>5 DEF WriteTear, WriteOrder, SplTypeOK
<1>6. CASE WriteBody
  BY <1>6 DEF WriteBody, WriteOrder, SplTypeOK
<1>7. CASE WriteIvt
  BY <1>7 DEF WriteIvt, SplTypeOK
<1>8. CASE ReadBack
  BY <1>8 DEF ReadBack, Dies, NoCommand, WriteCopy, WriteOrder, SplTypeOK
<1> QED
  BY <1>1, <1>2, <1>3, <1>4, <1>5, <1>6, <1>7, <1>8 DEF SplNext, Write

\* While no unsure copy was copied: what is not unsure has brought the board up.
LEMMA NextSure ==
  ASSUME SplTypeOK, WriteOrder, SureInv, [SplNext]_splVars PROVE SureInv'
<1> USE DEF SureInv, Proven, Whole, Writing, Areas, disk, boot, cmd, hist
<1>1. CASE Rom
  BY <1>1, SplABAssumption DEF Rom, RomCopy, WriteOrder
<1>2. CASE Reset \/ Die \/ UNCHANGED splVars
  BY <1>2 DEF Reset, Die, Dies, NoCommand, splVars
<1>3. CASE Rollback \/ SelfHeal
  BY <1>3 DEF Rollback, SelfHeal, RollbackTo, WriteCopy, TakeFrom, SplTypeOK
<1>4. ASSUME NEW v \in Versions, Update(v) PROVE SureInv'
  BY <1>4 DEF Update, WriteCopy, TakeFrom, SplTypeOK
<1>5. CASE WriteZero
  BY <1>5 DEF WriteZero, SplTypeOK
<1>6. CASE WriteTear
  BY <1>6 DEF WriteTear, WriteOrder, SplTypeOK
<1>7. CASE WriteBody
  BY <1>7 DEF WriteBody, WriteOrder, SplTypeOK
<1>8. CASE WriteIvt
  BY <1>8 DEF WriteIvt, WriteOrder, SplTypeOK
<1>9. CASE ReadBack
  BY <1>9 DEF ReadBack, Equal, Dies, NoCommand, WriteCopy, WriteOrder, SplTypeOK
<1> QED
  BY <1>1, <1>2, <1>3, <1>4, <1>5, <1>6, <1>7, <1>8, <1>9 DEF SplNext, Write

\* IInv holds in every reachable state.
THEOREM Inductive == SplSpec => []IInv
<1>1. IInv /\ [SplNext]_splVars => IInv'
  BY NextTypes, NextOrder, NextClean, NextSure DEF IInv
<1> QED
  BY InitIInv, <1>1, PTL DEF SplSpec

\* The two copies, what runs, and the command keep their types.
THEOREM TypeCorrect == SplSpec => []SplTypeOK
<1>1. IInv => SplTypeOK
  BY DEF IInv
<1> QED
  BY <1>1, Inductive, PTL

\* While no body came out wrong the copy that the ROM takes is whole, wherever a
\* command of `ab spl` or the selfheal service is cut, killed or fails, behind the
\* IVT too, and whatever commands are started after it in the same boot.
THEOREM BootableForever == SplSpec => []AlwaysBootable
<1>1. IInv => AlwaysBootable
  BY DEF IInv, SplTypeOK, CleanInv, AlwaysBootable, Whole, RomCopy, Areas
<1> QED
  BY <1>1, Inductive, PTL

\* Wrong bodies included, one copy that has brought the board up is left, until a
\* command takes for its source a copy that no boot (A) or comparison (B) has
\* confirmed since it was written.
THEOREM ProvenIsLeft == SplSpec => []ProvenCopyLeft
<1>1. IInv => ProvenCopyLeft
  BY DEF IInv, SplTypeOK, SureInv, ProvenCopyLeft, Proven, Areas
<1> QED
  BY <1>1, Inductive, PTL
-----------------------------------------------------------------------------
(* What the repair of copy A leaves.                                        *)

\* Once the service has run in a boot and no command is writing, copy A is whole, if
\* none has died in that boot and no unsure copy was ever copied.
Repaired ==
  phase = "linux" /\ healed /\ ~died /\ ~careless /\ op = "none" => Whole("A")

\* A boot from A begins with a whole A, and what a command leaves there is whole; a
\* boot from B leaves B alone, so that the service finds it restorable.
HealInv ==
  /\ phase = "rom" => ~healed
  /\ phase = "linux" /\ active = "B" => ivt["B"]
  /\ op \in Writing /\ dst = "B" => active = "A"
  /\ phase = "linux" /\ ~died /\ ~careless /\ op = "none" /\ (healed \/ active = "A")
       => Whole("A")

LEMMA NextHeal == ASSUME IInv, HealInv, [SplNext]_splVars PROVE HealInv'
<1> USE DEF HealInv, Whole, Writing
<1>t. SplTypeOK /\ WriteOrder /\ SureInv
  BY DEF IInv
<1>1. CASE Rom
  <2>1. /\ ~healed /\ active' = RomCopy /\ phase' # "rom"
        /\ UNCHANGED <<ivt, body, healed, op, dst>> /\ op = "none"
        /\ phase' = "linux" => ivt[RomCopy] /\ body[RomCopy] \in Versions
    BY <1>1, <1>t, SplABAssumption DEF Rom, WriteOrder, SplTypeOK, disk, cmd
  <2> QED
    BY <2>1 DEF RomCopy
<1>2. CASE Reset
  BY <1>2 DEF Reset, NoCommand, disk
<1>3. CASE Rollback
  BY <1>3 DEF Rollback, Free, RollbackTo, WriteCopy, disk, boot
<1>4. CASE SelfHeal
  <2>1. /\ phase = "linux" /\ UNCHANGED <<ivt, body, phase, active, died>>
        /\ \/ op' = "zero" /\ dst' = "A" /\ op = "none"
           \/ /\ UNCHANGED <<op, dst, careless>>
              /\ ~(NeedsHeal /\ op = "none" /\ Restorable /\ CopiesDiffer)
    BY <1>4 DEF SelfHeal, RollbackTo, WriteCopy, disk, cmd
  <2>2. active = "B" /\ op = "none" /\ op' = "none" => Whole("A")
    BY <2>1 DEF NeedsHeal, Restorable, CopiesDiffer
  <2>3. active \in {"A", "B"}
    BY <1>t DEF SplTypeOK, Areas
  <2> QED
    BY <2>1, <2>2, <2>3
<1>5. ASSUME NEW v \in Versions, Update(v) PROVE HealInv'
  BY <1>5 DEF Update, Free, WriteCopy, disk, boot
<1>6. CASE WriteZero \/ WriteTear \/ WriteBody \/ WriteIvt
  <2>1. /\ op \in Writing /\ op' \in Writing /\ dst' = dst
        /\ UNCHANGED <<phase, active, healed, died>>
    BY <1>6 DEF WriteZero, WriteTear, WriteBody, WriteIvt, boot
  <2>2. dst # "B" => ivt'["B"] = ivt["B"]
    BY <1>6, <1>t DEF WriteZero, WriteTear, WriteBody, WriteIvt, SplTypeOK, Areas
  <2> QED
    BY <2>1, <2>2
<1>7. CASE ReadBack
  <2>1. /\ op = "cmp" /\ dst \in {"A", "B"} /\ ivt[dst]
        /\ UNCHANGED <<ivt, body, phase, active, healed, careless>>
    BY <1>7, <1>t DEF ReadBack, WriteOrder, SplTypeOK, Areas, disk
  <2>2. ~Equal => op' = "none" /\ died'
    BY <1>7 DEF ReadBack, Dies, NoCommand
  <2>3. Equal /\ new = "none" => op' = "none" /\ died' = died /\ dst = "A"
    BY <1>7, <2>1, <1>t DEF ReadBack, NoCommand, WriteOrder
  <2>4. Equal /\ new # "none" => op' = "zero" /\ dst' = "A"
    BY <1>7 DEF ReadBack, WriteCopy
  <2>5. Equal /\ dst = "A" /\ ~careless => Whole("A")
    BY <2>1, <1>t DEF Equal, SureInv
  <2> QED
    BY <2>1, <2>2, <2>3, <2>4, <2>5
<1>8. CASE Die
  BY <1>8 DEF Die, Dies, NoCommand, disk
<1>9. CASE UNCHANGED splVars
  BY <1>9, Zenon DEF splVars, disk, boot, cmd, hist
<1>10. CASE \E v \in Versions : Update(v)
  BY <1>5, <1>10
<1> QED
  BY <1>1, <1>2, <1>3, <1>4, <1>6, <1>7, <1>8, <1>9, <1>10 DEF SplNext, Write

\* Whatever was cut before: after a boot in which nothing died copy A is whole, because
\* it was at the start, or because the service or an operator has restored it. (That
\* the writing comes to its end needs fairness: Heals, checked by TLC.)
THEOREM RepairsItself == SplSpec => []Repaired
<1>1. SplInit => HealInv
  BY DEF SplInit, HealInv, Writing
<1>2. IInv /\ HealInv /\ [SplNext]_splVars => HealInv'
  BY NextHeal
<1>3. HealInv => Repaired
  BY DEF HealInv, Repaired
<1> QED
  BY <1>1, <1>2, <1>3, Inductive, PTL DEF SplSpec
=============================================================================
