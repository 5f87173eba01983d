------------------------------ MODULE EnvStore ------------------------------
(***************************************************************************)
(* The redundant U-Boot environment of the DEBIX 8MP: two copies on the     *)
(* eMMC, each with a CRC and an 8-bit serial number. The SPL, U-Boot proper *)
(* and fw_setenv each load both copies, take the newer valid one, and save  *)
(* to the other. The power may be cut during a save, and a write may fail.  *)
(* A value of the model is the ab_slot the whole environment carries.       *)
(***************************************************************************)
EXTENDS Naturals

CONSTANTS
  SerialMod,  (* serial numbers wrap at it: 256 on the board               *)
  MaxErrors   (* bound: failed writes                                      *)

ASSUME EnvStoreAssumption ==
  SerialMod \in Nat /\ SerialMod > 3 /\ MaxErrors \in Nat

VARIABLES
  copy,    (* copy |-> its CRC, serial number and value                     *)
  pc,      (* the program that has the environment in RAM: "off", "ready",  *)
           (* "saving"                                                      *)
  used,    (* the copy it loaded or last saved                              *)
  serial,  (* its serial number in RAM                                      *)
  ram,     (* its value in RAM                                              *)
  skipped, (* history: a save failed after it had counted the serial number *)
  errors,  (* history: failed writes                                        *)
  lost     (* history: the eMMC lost both copies, no save finished since    *)

vars == <<copy, pc, used, serial, ram, skipped, errors, lost>>

Slots == {"a", "b"}
Copies == {1, 2}
Serials == 0 .. SerialMod - 1
OtherCopy(c) == 3 - c
\* ab_slot when neither copy is valid: the built-in default has none, and the
\* SPL takes a missing ab_slot for a
DefaultSlot == "a"

\* Bug: a bigger serial number is always newer
NewerNoWrap(c, d) == copy[c].serial > copy[d].serial
Newer(c, d) ==
  \/ copy[c].serial = 0 /\ copy[d].serial = SerialMod - 1
  \/ /\ copy[c].serial > copy[d].serial
     /\ ~(copy[d].serial = 0 /\ copy[c].serial = SerialMod - 1)

\* The copy that a load takes, copy 1 when they are equal, 0 for none
Valid ==
  IF copy[1].ok /\ copy[2].ok THEN IF Newer(2, 1) THEN 2 ELSE 1
  ELSE IF copy[1].ok THEN 1 ELSE IF copy[2].ok THEN 2 ELSE 0

Read == IF Valid = 0 THEN DefaultSlot ELSE copy[Valid].val

\* A new eMMC: two equal copies of the initial environment
Init ==
  /\ copy = [c \in Copies |-> [ok |-> TRUE, serial |-> 0, val |-> "a"]]
  /\ pc = "off" /\ used = 1 /\ serial = 0 /\ ram = "a"
  /\ skipped = FALSE /\ errors = 0 /\ lost = FALSE

\* A program starts and loads the environment. The SPL does not look at the result
\* of env_load and goes on with the built-in default.
Load ==
  /\ pc = "off" /\ pc' = "ready"
  /\ used' = IF Valid = 0 THEN 1 ELSE Valid
  /\ serial' = IF Valid = 0 THEN 0 ELSE copy[Valid].serial
  /\ ram' = Read /\ skipped' = FALSE
  /\ UNCHANGED <<copy, errors, lost>>

\* Bug: the copy in use is the one that is overwritten
SaveInPlace == used
SaveTarget == OtherCopy(used)

NextSerial == (serial + 1) % SerialMod

\* env_save or fw_setenv of value v: count the serial number, begin to write
StartSave(v) ==
  /\ pc = "ready" /\ pc' = "saving"
  /\ ram' = v /\ serial' = NextSerial
  /\ copy' = [copy EXCEPT ![SaveTarget].ok = FALSE]
  /\ UNCHANGED <<used, skipped, errors, lost>>

FinishSave ==
  /\ pc = "saving" /\ pc' = "ready"
  /\ copy' = [copy EXCEPT ![SaveTarget] = [ok |-> TRUE, serial |-> serial, val |-> ram]]
  /\ used' = SaveTarget /\ lost' = FALSE
  /\ UNCHANGED <<serial, ram, skipped, errors>>

\* The write fails before it touches the copy, or in the middle; the caller goes
\* on ("save err"), and the serial number has been counted
SaveRefused(v) ==
  /\ pc = "ready" /\ errors < MaxErrors
  /\ errors' = errors + 1 /\ skipped' = TRUE
  /\ ram' = v /\ serial' = NextSerial
  /\ UNCHANGED <<copy, pc, used, lost>>

SaveError ==
  /\ pc = "saving" /\ pc' = "ready" /\ errors < MaxErrors
  /\ errors' = errors + 1 /\ skipped' = TRUE
  /\ UNCHANGED <<copy, used, serial, ram, lost>>

\* The program ends, jumps on, or the power is cut, in a save too
Stop ==
  /\ pc # "off" /\ pc' = "off"
  /\ UNCHANGED <<copy, used, serial, ram, skipped, errors, lost>>

\* The eMMC loses both copies
Rot ==
  /\ pc = "off" /\ lost' = TRUE
  /\ copy' = [c \in Copies |-> [copy[c] EXCEPT !.ok = FALSE]]
  /\ UNCHANGED <<pc, used, serial, ram, skipped, errors>>

Next ==
  \/ Load
  \/ \E v \in Slots : StartSave(v) \/ SaveRefused(v)
  \/ FinishSave \/ SaveError \/ Stop \/ Rot

Spec == Init /\ [][Next]_vars
-----------------------------------------------------------------------------
(* Properties.                                                              *)

\* Every variable has its type.
TypeOK ==
  /\ copy \in [Copies -> [ok : BOOLEAN, serial : Serials, val : Slots]]
  /\ pc \in {"off", "ready", "saving"} /\ used \in Copies
  /\ serial \in Serials /\ ram \in Slots /\ skipped \in BOOLEAN
  /\ errors \in 0..MaxErrors /\ lost \in BOOLEAN

\* No power cut and no failed write, wherever it falls, leaves the board without
\* a valid environment, and after the eMMC lost both copies one finished save
\* is enough to have one for good.
NeverDefault == ~lost => Valid # 0

\* A save that has finished is what every later load reads, and a save that has
\* not finished is never read: unless a failed write skipped a serial number.
LastSaveIsRead == pc = "ready" /\ ~skipped /\ Valid # 0 => Valid = used /\ Read = ram

\* A save is atomic: what a load would read changes only when a save finishes,
\* and then to the value being saved, or when the eMMC loses both copies: with
\* the same exception.
AtomicSave ==
  [][~skipped /\ Read' # Read => Rot \/ (FinishSave /\ Read' = ram)]_vars
=============================================================================
