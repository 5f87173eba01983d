---------------------------- MODULE McoreConfirm ----------------------------
(***************************************************************************)
(* `ab mcore confirm` judging firmware on trial by the keepalive driver: it *)
(* polls `state` once a second until it is alive, then for Stable seconds,  *)
(* and compares the counters before and after. Every read of /sys is a step *)
(* of its own, and the device may go and come back between two of them.     *)
(* McoreAB takes the outcome as its step ConfirmJudge.                      *)
(***************************************************************************)
EXTENDS McoreKeepalive

CONSTANTS
  Wait,   (* MCORE_WAIT: polls until the first keepalive                    *)
  Stable  (* MCORE_STABLE: seconds it has to go on                          *)

ASSUME McoreConfirmAssumption == Wait \in Nat \ {0} /\ Stable \in Nat \ {0}

VARIABLES
  c,       (* the next step of mcore_confirm                                *)
  i,       (* its loop counter                                              *)
  asleep,  (* it has polled in this tick                                    *)
  mark     (* g0, r0, n0, n1; history: the run of the M core heard at g0,   *)
           (* the one it was in then, the one heard at n1, and the          *)
           (* keepalives missing at n1                                      *)

confirm == <<c, i, asleep, mark>>
cvars == <<vars, confirm>>

Loops == {"wait", "stable"}
Reads == {"g0", "r0", "n0", "n1", "restarts", "gaps"}
Verdicts == {"passed", "failed"}

CInit ==
  /\ Init /\ c = "wait" /\ i = 0 /\ asleep = FALSE
  /\ mark = [g0 |-> 0, r0 |-> 0, n0 |-> 0, n1 |-> 0,
             run0 |-> 0, core0 |-> 0, run1 |-> 0, missing |-> 0]

\* ka_get: the attributes are there from the end of probe to the start of remove;
\* without them it prints nothing, which the shell takes for 0 in a sum
Shown(f) == IF dev = "bound" THEN MCKA_SHOW(f) ELSE Off
Number(n) == IF n = Off THEN 0 ELSE n
Alive == dev = "bound" /\ MCKA_SHOW("state") = "alive"

\* until [ "$(ka_get state)" = alive ]
PollWait ==
  /\ c = "wait" /\ ~asleep
  /\ \/ Alive /\ c' = "g0" /\ UNCHANGED <<i, asleep>>
     \/ ~Alive /\ i + 1 >= Wait /\ c' = "failed" /\ UNCHANGED <<i, asleep>>
     \/ ~Alive /\ i + 1 < Wait /\ i' = i + 1 /\ asleep' = TRUE /\ UNCHANGED c
  /\ hist' = [hist EXCEPT !.unbound = FALSE]
  /\ UNCHANGED <<dev, p, quiet, since, due, fired, timeout, core, now, mark>>

\* g0, r0, n0, one after the other
ReadG0 ==
  /\ c = "g0" /\ c' = "r0"
  /\ mark' = [mark EXCEPT !.g0 = Shown("gaps"), !.run0 = hist.from, !.core0 = core.run]
  /\ hist' = [hist EXCEPT !.missed = 0, !.heard = 0]
  /\ UNCHANGED <<dev, p, quiet, since, due, fired, timeout, core, now, i, asleep>>

ReadR0 ==
  /\ c = "r0" /\ c' = "n0" /\ mark' = [mark EXCEPT !.r0 = Shown("restarts")]
  /\ UNCHANGED <<vars, i, asleep>>

ReadN0 ==
  /\ c = "n0" /\ c' = "stable" /\ mark' = [mark EXCEPT !.n0 = Number(Shown("received"))]
  /\ i' = 0 /\ asleep' = TRUE
  /\ UNCHANGED vars

\* while [ $i -lt $MCORE_STABLE ]
PollStable ==
  /\ c = "stable" /\ ~asleep
  /\ i' = i + 1
  /\ IF ~Alive THEN c' = "failed" /\ UNCHANGED asleep
     ELSE IF i + 1 < Stable THEN asleep' = TRUE /\ UNCHANGED c
     ELSE c' = "n1" /\ UNCHANGED asleep
  /\ UNCHANGED <<vars, mark>>

ReadN1 ==
  /\ c = "n1" /\ c' = "restarts"
  /\ mark' = [mark EXCEPT !.n1 = Number(Shown("received")),
                          !.run1 = hist.from, !.missing = hist.heard]
  /\ UNCHANGED <<vars, i, asleep>>

\* Bug: restarts are not compared
AnyRun == TRUE
SameRun == Shown("restarts") = mark.r0

CompareRestarts ==
  /\ c = "restarts" /\ c' = IF SameRun THEN "gaps" ELSE "failed"
  /\ UNCHANGED <<vars, i, asleep, mark>>

\* Bug: one keepalive for every second
EnoughStrict == mark.n1 - mark.n0 >= Stable
Enough == mark.n1 - mark.n0 >= Stable - 1

CompareGaps ==
  /\ c = "gaps" /\ c' = IF Shown("gaps") = mark.g0 /\ Enough THEN "passed" ELSE "failed"
  /\ UNCHANGED <<vars, i, asleep, mark>>

\* It sleeps a second between two polls, and reads in no time
CTick ==
  /\ Tick /\ asleep' = FALSE
  /\ c \in Verdicts \/ (c \in Loops /\ asleep)
  /\ UNCHANGED <<c, i, mark>>

Confirm == PollWait \/ ReadG0 \/ ReadR0 \/ ReadN0 \/ PollStable \/ ReadN1
           \/ CompareRestarts \/ CompareGaps
Others == (Driver \/ Core \/ Retune) /\ UNCHANGED confirm

CNext == Confirm \/ Others \/ CTick

CSpec == CInit /\ [][CNext]_cvars
-----------------------------------------------------------------------------
(* Properties.                                                              *)

\* Every variable has its type.
CTypeOK ==
  /\ TypeOK
  /\ c \in Loops \cup Reads \cup Verdicts /\ i \in 0..(Wait + Stable) /\ asleep \in BOOLEAN
  /\ mark \in [g0 : Nat \cup {Off}, r0 : Nat \cup {Off}, n0 : Nat, n1 : Nat,
              run0 : Nat, core0 : Nat, run1 : Nat, missing : Nat]

\* When confirm passes, it has not overlooked a restart of the M core during its
\* watch, except one that lost keepalives made look like the next message or that
\* uptime_ms hid by wrapping; and it has not overlooked a lost keepalive among those
\* it counted, except with a restart. Unless the device was bound anew meanwhile.
PassedMeansStable ==
  [][c # "passed" /\ c' = "passed" =>
       \/ hist.unbound
       \/ /\ mark.run1 > mark.core0 => mark.missing > 0 \/ hist.wraps > 0
          /\ mark.missing > 0 => mark.run1 # mark.run0]_cvars

\* Firmware that keeps its period is confirmed, however its keepalives fall
\* between the polls, unless uptime_ms wraps.
HealthyPasses == c = "failed" => ~hist.smooth \/ hist.wraps > 0
=============================================================================
