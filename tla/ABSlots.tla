------------------------------ MODULE ABSlots ------------------------------
(***************************************************************************)
(* What an A/B update promises, without saying how: one slot is committed; *)
(* the other may be overwritten while it is not running, may be tried, and *)
(* becomes the committed one only by a commit from a running trial.        *)
(***************************************************************************)
VARIABLES
  committed,  (* the slot the board comes back to                      *)
  pending,    (* a trial of the other slot is pending                  *)
  running,    (* the slot Linux runs from, or "off"                    *)
  intact      (* slot |-> it holds what was committed there, untouched *)

vars == <<committed, pending, running, intact>>

Slots == {"a", "b"}
Other(s) == IF s = "a" THEN "b" ELSE "a"

Init ==
  /\ committed \in Slots /\ pending = FALSE /\ running = "off"
  /\ intact \in [Slots -> BOOLEAN] /\ intact[committed]

Boot ==
  /\ running = "off"
  /\ running' \in {committed} \cup (IF pending THEN {Other(committed)} ELSE {})
  /\ UNCHANGED <<committed, pending, intact>>

Stop ==
  /\ running' = "off"
  /\ UNCHANGED <<committed, pending, intact>>

\* A write touches neither the committed nor the running slot
Overwrite ==
  /\ running # "off"
  /\ \E s \in Slots \ {committed, running} : intact' = [intact EXCEPT ![s] = FALSE]
  /\ UNCHANGED <<committed, pending, running>>

Arm ==
  /\ running = committed /\ pending' = TRUE
  /\ UNCHANGED <<committed, running, intact>>

Commit ==
  /\ pending /\ running = Other(committed)
  /\ committed' = running /\ pending' = FALSE
  /\ intact' = [intact EXCEPT ![running] = TRUE]
  /\ UNCHANGED running

\* A trial ends without a commit: rollback, or the boot chain gives it up
Withdraw ==
  /\ pending /\ pending' = FALSE
  /\ UNCHANGED <<committed, running, intact>>

Next == Boot \/ Stop \/ Overwrite \/ Arm \/ Commit \/ Withdraw

Spec == Init /\ [][Next]_vars
=============================================================================
