------------------------------- MODULE SplAB -------------------------------
(***************************************************************************)
(* The two copies of the SPL on the eMMC and `ab spl`: the ROM runs copy A  *)
(* unless its IVT (the first sector) is invalid, then copy B; update saves  *)
(* A to B and writes the new version to A; rollback, and the selfheal       *)
(* service after a boot from B, write B back to A. A copy is written as IVT *)
(* cleared, body, IVT, each followed by a sync, then read back and compared. *)
(* The power or the command may be cut between any two, and Linux goes on    *)
(* after a command that has died, or until its reboot takes effect.          *)
(***************************************************************************)
EXTENDS Naturals

CONSTANTS
  Versions,    (* imx-boot versions                                         *)
  Factory,     (* the one both copies are flashed with                      *)
  Booting,     (* versions that bring the board up                          *)
  MaxBad       (* bound: bodies that come out wrong without an error of dd  *)

ASSUME SplABAssumption ==
  /\ Booting \subseteq Versions
  /\ Factory \in Booting /\ "torn" \notin Versions /\ "none" \notin Versions
  /\ MaxBad \in Nat

VARIABLES
  ivt,     (* copy |-> its first sector is a valid IVT                      *)
  body,    (* copy |-> the version of the rest; "torn": part of it or wrong *)
  phase,   (* "rom", "linux" or "dead"                                      *)
  active,  (* the copy the ROM started: spl_active_copy                     *)
  running, (* the version that was started                                  *)
  healed,  (* ab-spl-selfheal.service has run in this boot                  *)
  died,    (* history: a command has died in this boot                      *)
  op,      (* what the command holding the lock does next: "zero", "tear",  *)
           (* "body", "ivt", "cmp", or "none"                               *)
  dst, ver,(* the copy it writes, and with what                             *)
  new,     (* the version that follows in A after a save to B, or "none"    *)
  booted,  (* history: versions that have brought the board up              *)
  bad,     (* history: bodies that came out wrong                           *)
  unsure,  (* history: copies written since they were last started, or, for *)
           (* B, found equal to their source                                *)
  careless (* history: a command has copied an unsure copy over the other   *)

disk == <<ivt, body>>
boot == <<phase, active, running, healed, died>>
cmd  == <<op, dst, ver, new>>
hist == <<booted, bad, unsure, careless>>
splVars == <<disk, boot, cmd, hist>>

Areas == {"A", "B"}
Whole(c) == ivt[c] /\ body[c] \in Versions

SplInit ==
  /\ ivt = [c \in Areas |-> TRUE] /\ body = [c \in Areas |-> Factory]
  /\ phase = "rom" /\ active = "A" /\ running = Factory
  /\ healed = FALSE /\ died = FALSE
  /\ op = "none" /\ dst = "A" /\ ver = Factory /\ new = "none"
  /\ booted = {Factory} /\ bad = 0 /\ unsure = {} /\ careless = FALSE
-----------------------------------------------------------------------------
RomCopy == IF ivt["A"] THEN "A" ELSE "B"

\* The boot ROM looks at the IVT only; a version that hangs, a body that is not
\* one, or no IVT at all, leave the board dead
Rom ==
  /\ phase = "rom" /\ active' = RomCopy /\ died' = FALSE
  /\ IF ivt[RomCopy] /\ body[RomCopy] \in Booting
     THEN /\ phase' = "linux" /\ running' = body[RomCopy]
          /\ booted' = booted \cup {body[RomCopy]} /\ unsure' = unsure \ {RomCopy}
     ELSE phase' = "dead" /\ UNCHANGED <<running, booted, unsure>>
  /\ UNCHANGED <<disk, healed, cmd, bad, careless>>

NoCommand == op' = "none" /\ dst' = "A" /\ ver' = Factory /\ new' = "none"

\* Power cut, or reboot by hand or by maybe_reboot
Reset ==
  /\ phase = "linux" /\ phase' = "rom" /\ healed' = FALSE /\ NoCommand
  /\ UNCHANGED <<disk, active, running, died, hist>>

Free == phase = "linux" /\ op = "none"

\* spl_write_header_last begins with version v for copy c
WriteCopy(c, v) == op' = "zero" /\ dst' = c /\ ver' = v

\* Copy c is what is written to the other one
TakeFrom(c) == careless' = (careless \/ c \in unsure)

\* spl_update: only after a boot from A, which is saved if it still has an IVT
Update(v) ==
  /\ Free /\ active = "A"
  /\ IF ivt["A"] THEN WriteCopy("B", body["A"]) /\ new' = v /\ TakeFrom("A")
                 ELSE WriteCopy("A", v) /\ new' = "none" /\ UNCHANGED careless
  /\ UNCHANGED <<disk, boot, booted, bad, unsure>>

\* Bug: the IVT of B is not looked at
RestorableAny == TRUE
Restorable == ivt["B"]

\* cmp of the two copies; two bodies that are no version may differ all the same
CopiesDiffer ==
  ivt["A"] # ivt["B"] \/ body["A"] # body["B"] \/ body["B"] \notin Versions

\* spl_rollback, by hand or by the service: B needs an IVT and has to differ
RollbackTo == WriteCopy("A", body["B"]) /\ new' = "none" /\ TakeFrom("B")

Rollback ==
  /\ Free /\ Restorable /\ CopiesDiffer /\ RollbackTo
  /\ UNCHANGED <<disk, boot, booted, bad, unsure>>

\* Bug: only an operator repairs A
HealNever == FALSE
NeedsHeal == active = "B"

\* spl_selfheal, once per boot; it gives up when the lock is taken
SelfHeal ==
  /\ phase = "linux" /\ ~healed /\ healed' = TRUE
  /\ IF NeedsHeal /\ op = "none" /\ Restorable /\ CopiesDiffer THEN RollbackTo
     ELSE UNCHANGED <<cmd, careless>>
  /\ UNCHANGED <<disk, phase, active, running, died, booted, bad, unsure>>
-----------------------------------------------------------------------------
(* spl_write_header_last, and the rest of the command.                      *)

WriteZero ==
  /\ op = "zero" /\ op' = "tear"
  /\ ivt' = [ivt EXCEPT ![dst] = FALSE] /\ unsure' = unsure \cup {dst}
  /\ UNCHANGED <<body, boot, dst, ver, new, booted, bad, careless>>

\* The body is written over many sectors: torn until the last one is synced
WriteTear ==
  /\ op = "tear" /\ op' = "body"
  /\ body' = [body EXCEPT ![dst] = "torn"]
  /\ UNCHANGED <<ivt, boot, dst, ver, new, hist>>

\* Without an error of dd the body may still be wrong: only the comparison tells
WriteBody ==
  /\ op = "body" /\ op' = "ivt"
  /\ \/ body' = [body EXCEPT ![dst] = ver] /\ UNCHANGED bad
     \/ bad < MaxBad /\ bad' = bad + 1 /\ UNCHANGED body
  /\ UNCHANGED <<ivt, boot, dst, ver, new, booted, unsure, careless>>

WriteIvt ==
  /\ op = "ivt" /\ op' = "cmp" /\ ivt' = [ivt EXCEPT ![dst] = TRUE]
  /\ UNCHANGED <<body, boot, dst, ver, new, hist>>

\* Bug: the result of cmp is lost
EqualAlways == TRUE
Equal == body[dst] = ver

\* What ends a command with an error; the lock goes with the process
Dies == NoCommand /\ died' = TRUE

\* The IVT is there when cmp finds a difference. If it finds none, the new version
\* follows, or the end: maybe_reboot, of which Linux may see a few seconds more,
\* or nothing at all with --no-reboot and in selfheal.
ReadBack ==
  /\ op = "cmp"
  /\ IF ~Equal THEN Dies /\ UNCHANGED unsure
     ELSE /\ unsure' = unsure \ ({dst} \cap {"B"}) /\ UNCHANGED died
          /\ IF new # "none" THEN WriteCopy("A", new) /\ new' = "none" ELSE NoCommand
  /\ UNCHANGED <<disk, phase, active, running, healed, booted, bad, careless>>

\* The command is killed, or dd fails, anywhere up to the end of the comparison
Die ==
  /\ op # "none" /\ Dies
  /\ UNCHANGED <<disk, phase, active, running, healed, hist>>

Write == WriteZero \/ WriteTear \/ WriteBody \/ WriteIvt \/ ReadBack

SplNext ==
  \/ Rom \/ Reset \/ Rollback \/ SelfHeal \/ Write \/ Die
  \/ \E v \in Versions : Update(v)

SplSpec == SplInit /\ [][SplNext]_splVars
-----------------------------------------------------------------------------
(* Properties.                                                              *)

\* Every variable has its type.
SplTypeOK ==
  /\ ivt \in [Areas -> BOOLEAN] /\ body \in [Areas -> Versions \cup {"torn"}]
  /\ phase \in {"rom", "linux", "dead"} /\ active \in Areas /\ running \in Booting
  /\ healed \in BOOLEAN /\ died \in BOOLEAN
  /\ op \in {"none", "zero", "tear", "body", "ivt", "cmp"} /\ dst \in Areas
  /\ ver \in Versions \cup {"torn"} /\ new \in Versions \cup {"none"}
  /\ booted \subseteq Booting /\ bad \in Nat
  /\ unsure \subseteq Areas /\ careless \in BOOLEAN

\* Wherever updates, rollbacks and repairs are cut, killed or fail with an error, and
\* whatever is started after that in the same boot: the copy the ROM takes is whole.
\* (A body that came out wrong without an error is only found behind the IVT.)
AlwaysBootable == bad = 0 => Whole(RomCopy)

\* Wrong bodies included: one copy is whole, has brought the board up, and is not one
\* a comparison or a boot is still missing for, unless a command copied such a copy.
ProvenCopyLeft ==
  careless \/ \E c \in Areas \ unsure : Whole(c) /\ body[c] \in booted

\* An update saves to B only what has brought this board up.
SavedIsProven == ivt["B"] => body["B"] \in booted

\* Left alone after a reset, a board whose copy A is broken repairs it, unless the
\* repair itself fails: then the next boot tries again. (What a command has copied
\* from an unsure copy may be no version at all.)
Heals ==
  <>[][phase' # "rom"]_splVars =>
    <>[](Whole("A") \/ phase = "dead" \/ died \/ careless)
=============================================================================
