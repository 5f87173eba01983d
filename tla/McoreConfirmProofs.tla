------------------------ MODULE McoreConfirmProofs -------------------------
(***************************************************************************)
(* Proofs about McoreKeepalive, for any timeouts, any wrap of the counters   *)
(* and any number of lost messages, restarts, rebinds and retunes; then about *)
(* McoreConfirm: what holds of the driver also holds while confirm looks at  *)
(* it, firmware that keeps its period is confirmed, for any MCORE_STABLE, if  *)
(* confirm polls at least twice and timeout_ms is longer than the period, and *)
(* what confirm overlooks while it passes can only be what it cannot see.     *)
(***************************************************************************)
EXTENDS McoreConfirm, TLAPS

\* The timer that the last message set runs out when timeout_ms has passed since
\* then, or has just run out and is about to be looked at
TimerMatches ==
  dev \in {"probing", "bound"} /\ p.state = "alive" /\ ~hist.stale =>
    \/ due = timeout - quiet /\ quiet <= timeout
    \/ due = Off /\ fired = timeout /\ quiet = timeout

\* A message that came during probe came after bound
HeardInProbe ==
  dev = "probing" /\ p.state = "alive" => p.received > 0 /\ quiet <= since

\* An expiry that is about to be looked at is of this timeout_ms, or a message has
\* come since
ExpiryKnown ==
  fired # Off /\ p.state = "alive" /\ ~hist.stale => fired = timeout \/ quiet = 0

\* From remove on nothing is armed before a late message
Disarmed == dev = "removing" /\ ~hist.late => due = Off /\ fired = Off

KInv == TypeOK /\ TimerMatches /\ HeardInProbe /\ ExpiryKnown /\ Disarmed /\ NoDanglingTimer

LEMMA InitKInv == Init => KInv
  BY McoreKeepaliveAssumption
  DEF Init, KInv, TypeOK, TimerMatches, HeardInProbe, ExpiryKnown, Disarmed, NoDanglingTimer,
      Fresh, HistTypes, Privs, Cores, U32, Off

\* The counters stay in their range, across the wrap.
LEMMA NextIsU32 == ASSUME NEW n \in U32 PROVE (n + 1) % Wrap \in U32
  BY McoreKeepaliveAssumption DEF U32

\* A message leaves the driver's data well typed.
LEMMA ReceiveTypes ==
  ASSUME p \in Privs, NEW up \in U32, NEW seq \in U32, Receive(up, seq) PROVE p' \in Privs
<1> DEFINE r == IF p.received > 0 /\ up < p.up THEN p.restarts + 1 ELSE p.restarts
           g == IF p.received > 0 /\ up >= p.up /\ SeqGap(seq) THEN p.gaps + 1 ELSE p.gaps
<1>1. r \in Nat /\ g \in Nat /\ p.received + 1 \in Nat
  BY DEF Privs
<1>2. p' = [p EXCEPT !.restarts = r, !.gaps = g, !.seq = seq, !.up = up,
                     !.received = p.received + 1, !.state = "alive"]
  BY DEF Receive
<1> HIDE DEF r, g
<1> QED
  BY <1>1, <1>2 DEF Privs

\* An upset is counted within its bound.
LEMMA UpsetTypes == ASSUME TypeOK, NEW h \in HistTypes, Upset(h) PROVE hist' \in HistTypes
<1>1. hist.upsets + 1 \in 0..MaxUpsets
  BY McoreKeepaliveAssumption DEF Upset, TypeOK, HistTypes
<1>2. ASSUME NEW n \in 0..MaxUpsets
      PROVE [h EXCEPT !.upsets = n, !.smooth = FALSE] \in HistTypes
  BY DEF HistTypes
<1> QED
  BY <1>1, <1>2 DEF Upset

\* Every step of the driver keeps the types.
LEMMA DriverTypes == ASSUME TypeOK, Driver PROVE TypeOK'
<1> USE McoreKeepaliveAssumption DEF TypeOK
<1>1. CASE Probe
  <2>1. p' \in Privs
    BY <1>1 DEF Probe, Fresh, Privs, U32
  <2>2. core' \in Cores
    BY <1>1 DEF Probe, Cores
  <2>3. hist' \in HistTypes
    <3>1. CASE Upset(hist)
      BY <3>1, UpsetTypes
    <3> QED
      BY <1>1, <3>1 DEF Probe
  <2> QED
    BY <1>1, <2>1, <2>2, <2>3 DEF Probe
<1>2. CASE ProbeArm
  <2>1. hist' \in HistTypes
    BY <1>2 DEF ProbeArm, HistTypes
  <2> QED
    BY <1>2, <2>1 DEF ProbeArm, Left
<1>3. CASE Remove
  <2>1. hist' \in HistTypes
    <3>1. [hist EXCEPT !.late = FALSE, !.dangling = FALSE, !.unbound = TRUE] \in HistTypes
      BY DEF HistTypes
    <3> QED
      BY <1>3, <3>1, UpsetTypes DEF Remove
  <2> QED
    BY <1>3, <2>1 DEF Remove, DeleteTimer
<1>4. CASE Freed
  <2>1. hist' \in HistTypes
    BY <1>4 DEF Freed, HistTypes
  <2> QED
    BY <1>4, <2>1 DEF Freed
<1>5. CASE TimerExpires
  BY <1>5 DEF TimerExpires
<1>6. CASE TimerRuns
  <2>1. p' \in Privs
    BY <1>6 DEF TimerRuns, Privs
  <2> QED
    BY <1>6, <2>1 DEF TimerRuns
<1> QED
  BY <1>1, <1>2, <1>3, <1>4, <1>5, <1>6 DEF Driver

\* Every step of the M core keeps the types.
LEMMA CoreTypes == ASSUME TypeOK, Core PROVE TypeOK'
<1> USE McoreKeepaliveAssumption DEF TypeOK
<1>u. core.up \in U32 /\ core.seq \in U32 /\ (core.seq + 1) % Wrap \in U32
  BY NextIsU32 DEF Cores
<1>1. CASE Keepalive
  <2>1. p' \in Privs
    <3>1. CASE dev = "none"
      BY <1>1, <3>1 DEF Keepalive
    <3>2. CASE dev # "none"
      BY <1>1, <3>2, <1>u, ReceiveTypes DEF Keepalive
    <3> QED
      BY <3>1, <3>2
  <2>2. core' \in Cores
    <3>1. core' = [core EXCEPT !.sent = TRUE, !.seq = (core.seq + 1) % Wrap]
      BY <1>1 DEF Keepalive
    <3> QED
      BY <3>1, <1>u DEF Cores
  <2>3. hist' \in HistTypes
    BY <1>1 DEF Keepalive, HistTypes, Cores
  <2> QED
    BY <1>1, <2>1, <2>2, <2>3 DEF Keepalive, Receive, Rearm
<1>2. CASE KeepaliveLost
  <2>1. core' \in Cores
    <3>1. core' = [core EXCEPT !.sent = TRUE, !.seq = (core.seq + 1) % Wrap]
      BY <1>2 DEF KeepaliveLost
    <3> QED
      BY <3>1, <1>u DEF Cores
  <2>2. [hist EXCEPT !.missed = @ + 1] \in HistTypes
    BY DEF HistTypes
  <2>3. hist' \in HistTypes
    BY <1>2, <2>2, UpsetTypes DEF KeepaliveLost
  <2> QED
    BY <1>2, <2>1, <2>3 DEF KeepaliveLost
<1>3. CASE BadMessage
  <2>1. p' \in Privs
    BY <1>3 DEF BadMessage, Privs
  <2>2. hist' \in HistTypes
    BY <1>3, UpsetTypes DEF BadMessage
  <2> QED
    BY <1>3, <2>1, <2>2 DEF BadMessage
<1>4. CASE CoreRestart
  <2>1. core' \in Cores
    <3>1. PICK k \in {FALSE, core.knows} :
            core' = [core EXCEPT !.up = 0, !.seq = 0, !.booting = BootTime, !.knows = k,
                                 !.sent = TRUE, !.run = @ + 1]
      BY <1>4 DEF CoreRestart
    <3>2. core.knows \in BOOLEAN /\ core.run + 1 \in Nat
      BY DEF Cores
    <3>3. 0 \in U32 /\ BootTime \in 0..BootTime
      BY DEF U32
    <3>4. k \in BOOLEAN
      BY <3>2, Zenon
    <3> QED
      BY <3>1, <3>2, <3>3, <3>4 DEF Cores
  <2>2. hist' \in HistTypes
    BY <1>4, UpsetTypes DEF CoreRestart
  <2> QED
    BY <1>4, <2>1, <2>2 DEF CoreRestart
<1> QED
  BY <1>1, <1>2, <1>3, <1>4 DEF Core

\* Every step keeps the types.
LEMMA NextTypes == TypeOK /\ [Next]_vars => TypeOK'
<1> SUFFICES ASSUME TypeOK, [Next]_vars PROVE TypeOK'
  OBVIOUS
<1> USE McoreKeepaliveAssumption
<1>1. CASE Retune
  <2>1. [hist EXCEPT !.stale = due # Off \/ p.state = "alive"] \in HistTypes
    BY DEF TypeOK, HistTypes
  <2>2. hist' \in HistTypes
    BY <1>1, <2>1, UpsetTypes DEF Retune
  <2> QED
    BY <1>1, <2>2 DEF Retune, TypeOK
<1>2. CASE Tick
  <2>1. core' \in Cores
    <3>1. (core.up + 1) % Wrap \in U32
      BY NextIsU32 DEF TypeOK, Cores
    <3> DEFINE b == IF core.booting > 0 THEN core.booting - 1 ELSE 0
               s == core.sent /\ core.booting > 1
    <3>2. b \in 0..BootTime /\ s \in BOOLEAN
      BY DEF TypeOK, Cores
    <3>3. core' = [core EXCEPT !.up = (core.up + 1) % Wrap, !.booting = b, !.sent = s]
      BY <1>2 DEF Tick
    <3> HIDE DEF b, s
    <3> QED
      BY <3>1, <3>2, <3>3 DEF TypeOK, Cores
  <2>2. hist' \in HistTypes
    <3> DEFINE m == hist.smooth /\ dev = "bound" /\ core.sent
               n == IF core.up = Wrap - 1 THEN hist.wraps + 1 ELSE hist.wraps
    <3>1. m \in BOOLEAN /\ n \in Nat
      BY DEF TypeOK, HistTypes, Cores
    <3>2. hist' = [hist EXCEPT !.smooth = m, !.wraps = n]
      BY <1>2 DEF Tick
    <3> HIDE DEF m, n
    <3> QED
      BY <3>1, <3>2 DEF TypeOK, HistTypes
  <2>3. quiet' \in Nat /\ since' \in Nat /\ due' \in Nat \cup {Off} /\ now' \in 0..MaxTime
    BY <1>2 DEF Tick, TypeOK, Off
  <2> QED
    BY <1>2, <2>1, <2>2, <2>3 DEF Tick, TypeOK
<1>3. CASE UNCHANGED vars
  BY <1>3 DEF vars, TypeOK
<1> QED
  BY <1>1, <1>2, <1>3, DriverTypes, CoreTypes DEF Next

\* What a message leaves behind.
LEMMA Received ==
  ASSUME TypeOK, Keepalive, dev # "none"
  PROVE /\ p'.state = "alive" /\ p'.received > 0
        /\ quiet' = 0 /\ due' = timeout
        /\ UNCHANGED <<dev, since, fired, timeout>>
        /\ hist' = [hist EXCEPT !.stale = FALSE, !.late = @ \/ dev = "removing",
                                 !.heard = hist.missed, !.from = core.run]
<1>1. Receive(core.up, core.seq) /\ p \in Privs /\ p' \in Privs
  BY CoreTypes DEF Keepalive, Core, TypeOK
<1>2. p'.state = "alive" /\ p'.received = p.received + 1
  BY <1>1 DEF Receive, Privs
<1>3. p.received + 1 > 0
  BY <1>1 DEF Privs
<1> QED
  BY <1>1, <1>2, <1>3 DEF Keepalive, Receive, Rearm

\* Every step keeps the invariant.
LEMMA NextKInv == KInv /\ [Next]_vars => KInv'
<1> SUFFICES ASSUME KInv, [Next]_vars PROVE KInv'
  OBVIOUS
<1>t. TypeOK /\ TypeOK'
  BY NextTypes DEF KInv
<1> DEFINE Rest == TimerMatches /\ HeardInProbe /\ ExpiryKnown /\ Disarmed /\ NoDanglingTimer
<1>s. SUFFICES Rest'
  BY <1>t DEF KInv
<1> USE <1>t, McoreKeepaliveAssumption
    DEF KInv, TypeOK, TimerMatches, HeardInProbe, ExpiryKnown, Disarmed, NoDanglingTimer,
        HistTypes, Privs, Off, Upset
<1>1. CASE Probe
  BY <1>1 DEF Probe, Fresh
<1>2. CASE ProbeArm
  BY <1>2 DEF ProbeArm, Left
<1>3. CASE Remove
  BY <1>3 DEF Remove, DeleteTimer
<1>4. CASE Freed
  BY <1>4 DEF Freed
<1>5. CASE TimerExpires
  BY <1>5 DEF TimerExpires
<1>6. CASE TimerRuns
  BY <1>6 DEF TimerRuns, Overdue
<1>7. CASE Keepalive
  <2>1. CASE dev = "none"
    BY <1>7, <2>1 DEF Keepalive
  <2>2. CASE dev # "none"
    <3>1. /\ ~hist'.stale /\ hist'.dangling = hist.dangling
          /\ hist'.late = (hist.late \/ dev = "removing")
      BY <1>7, <2>2, Received
    <3> QED
      BY <1>7, <2>2, <3>1, Received
  <2> QED
    BY <2>1, <2>2
<1>8. CASE KeepaliveLost
  BY <1>8 DEF KeepaliveLost
<1>9. CASE BadMessage
  BY <1>9 DEF BadMessage
<1>10. CASE CoreRestart
  BY <1>10 DEF CoreRestart
<1>11. CASE Retune
  BY <1>11 DEF Retune
<1>12. CASE Tick
  BY <1>12 DEF Tick
<1>13. CASE UNCHANGED vars
  BY <1>13 DEF vars
<1> QED
  BY <1>1, <1>2, <1>3, <1>4, <1>5, <1>6, <1>7, <1>8, <1>9, <1>10, <1>11, <1>12, <1>13
  DEF Next, Driver, Core

\* Every reachable state satisfies the invariant.
LEMMA Invariance == Spec => []KInv
  BY InitKInv, NextKInv, PTL DEF Spec

\* Every variable keeps its type, in every run of the driver.
THEOREM TypeCorrect == Spec => []TypeOK
<1>1. KInv => TypeOK
  BY DEF KInv
<1> QED
  BY <1>1, Invariance, PTL

\* While the timer is the one the last message set, no silence outlasts timeout_ms
\* with the state still alive (mcka_cb, mcka_timeout).
THEOREM LossIsReported == Spec => []SilenceReportedInTime
<1>1. KInv => SilenceReportedInTime
  BY McoreKeepaliveAssumption
  DEF KInv, TypeOK, TimerMatches, SilenceReportedInTime, SilenceReported
<1> QED
  BY <1>1, Invariance, PTL

\* Remove leaves no armed timer behind, unless a message comes after it
\* (mcka_remove).
THEOREM RemoveDisarms == Spec => []NoDanglingTimer
<1>1. KInv => NoDanglingTimer
  BY DEF KInv
<1> QED
  BY <1>1, Invariance, PTL

\* A step to lost comes timeout_ms after the last message.
LEMMA LossIsTrue ==
  ASSUME KInv, Next, p.state = "alive", p'.state = "lost", ~hist.stale
  PROVE  quiet >= timeout
<1> USE McoreKeepaliveAssumption DEF KInv, TypeOK, Upset
<1>1. CASE TimerRuns
  BY <1>1 DEF TimerRuns, Overdue, ExpiryKnown, Off
<1>2. CASE Probe
  BY <1>2 DEF Probe, Fresh
<1>3. CASE Keepalive
  <2>1. CASE dev = "none"
    BY <1>3, <2>1 DEF Keepalive
  <2>2. CASE dev # "none"
    BY <1>3, <2>2, Received
  <2> QED
    BY <2>1, <2>2
<1>4. CASE ProbeArm \/ Remove \/ Freed \/ TimerExpires
  BY <1>4 DEF ProbeArm, Remove, Freed, TimerExpires
<1>5. CASE KeepaliveLost \/ CoreRestart
  BY <1>5 DEF KeepaliveLost, CoreRestart
<1>6. CASE BadMessage
  BY <1>6 DEF BadMessage, Privs
<1>7. CASE Retune \/ Tick
  BY <1>7 DEF Retune, Tick
<1> QED
  BY <1>1, <1>2, <1>3, <1>4, <1>5, <1>6, <1>7 DEF Next, Driver, Core

\* mcka_timeout reports a loss only when timeout_ms has passed since the last
\* message, unless timeout_ms has been changed meanwhile.
THEOREM AlarmsAreTrue == Spec => NoFalseAlarm
<1>1. KInv /\ [Next]_vars
        => [p.state = "alive" /\ p'.state = "lost" => hist.stale \/ quiet >= timeout]_vars
  BY LossIsTrue
<1> QED
  BY <1>1, Invariance, PTL DEF Spec, NoFalseAlarm

-----------------------------------------------------------------------------
(* The counters of a device that nothing has gone wrong with.                *)

\* The M core knows Linux only from a probe on, its next seq follows the last one
\* heard, and every wrap of its uptime_ms counts once, as a restart or not yet.
InStep ==
  /\ core.knows => dev \in {"probing", "bound"}
  /\ p.gaps = 0
  /\ p.received = 0 => p.restarts = 0
  /\ p.received > 0 =>
       /\ core.seq = (p.seq + 1) % Wrap
       /\ p.restarts < hist.wraps \/ (p.restarts <= hist.wraps /\ core.up >= p.up)

CountInv == hist.upsets = 0 => InStep

\* Every step keeps it.
LEMMA NextCounts == TypeOK /\ CountInv /\ [Next]_vars => CountInv'
<1> SUFFICES ASSUME TypeOK, CountInv, [Next]_vars, hist'.upsets = 0 PROVE InStep'
  BY DEF CountInv
<1> USE McoreKeepaliveAssumption DEF TypeOK, InStep, HistTypes, Privs, Cores, U32
<1>0. ASSUME NEW h \in HistTypes, Upset(h) PROVE FALSE
  <2>1. hist'.upsets = hist.upsets + 1
    BY <1>0 DEF Upset
  <2> QED
    BY <2>1
<1>u. hist.upsets = 0 => InStep
  BY DEF CountInv
<1>1. CASE Probe
  <2>1. hist' = hist /\ dev' = "probing" /\ p' = Fresh
    BY <1>0, <1>1 DEF Probe
  <2>2. core'.seq = core.seq
    BY <1>1 DEF Probe
  <2> QED
    BY <2>1, <2>2 DEF Fresh
<1>2. CASE ProbeArm
  BY <1>2, <1>u DEF ProbeArm
<1>3. CASE Remove
  <2>1. [hist EXCEPT !.late = FALSE, !.dangling = FALSE, !.unbound = TRUE] \in HistTypes
    OBVIOUS
  <2> QED
    BY <1>3, <1>0, <2>1 DEF Remove
<1>4. CASE Freed
  BY <1>4, <1>u DEF Freed
<1>5. CASE TimerExpires
  BY <1>5, <1>u DEF TimerExpires
<1>6. CASE TimerRuns
  BY <1>6, <1>u DEF TimerRuns
<1>7. CASE Keepalive
  <2>1. hist.upsets = 0 /\ core.knows /\ dev # "none"
    BY <1>7, <1>u DEF Keepalive
  <2>2. /\ Receive(core.up, core.seq) /\ dev' = dev /\ hist'.wraps = hist.wraps
        /\ core'.knows = core.knows /\ core'.up = core.up
        /\ core'.seq = (core.seq + 1) % Wrap
    BY <1>7, <2>1 DEF Keepalive
  <2>3. /\ p'.seq = core.seq /\ p'.up = core.up /\ p'.received = p.received + 1
        /\ p'.gaps = p.gaps
        /\ p'.restarts = IF p.received > 0 /\ core.up < p.up THEN p.restarts + 1 ELSE p.restarts
    BY <2>1, <2>2, <1>u DEF Receive, SeqGap
  <2> QED
    BY <2>1, <2>2, <2>3, <1>u
<1>8. ~KeepaliveLost
  <2>1. [hist EXCEPT !.missed = @ + 1] \in HistTypes
    OBVIOUS
  <2> QED
    BY <1>0, <2>1 DEF KeepaliveLost
<1>9. ~BadMessage /\ ~CoreRestart
  BY <1>0 DEF BadMessage, CoreRestart
<1>10. ~Retune
  <2>1. [hist EXCEPT !.stale = due # Off \/ p.state = "alive"] \in HistTypes
    OBVIOUS
  <2> QED
    BY <1>0, <2>1 DEF Retune
<1>11. CASE Tick
  <2>1. /\ hist.upsets = 0 /\ p' = p /\ dev' = dev
        /\ core'.knows = core.knows /\ core'.seq = core.seq
        /\ core'.up = (core.up + 1) % Wrap
        /\ hist'.wraps = IF core.up = Wrap - 1 THEN hist.wraps + 1 ELSE hist.wraps
    BY <1>11 DEF Tick
  <2>2. core.up # Wrap - 1 => core'.up = core.up + 1
    BY <2>1
  <2> QED
    BY <2>1, <2>2, <1>u
<1>12. CASE UNCHANGED vars
  BY <1>12, <1>u DEF vars
<1> QED
  BY <1>1, <1>2, <1>3, <1>4, <1>5, <1>6, <1>7, <1>8, <1>9, <1>10, <1>11, <1>12
  DEF Next, Driver, Core

\* While nothing goes wrong no gap is counted, and no restart but for a wrap of
\* uptime_ms, however long the M core runs (mcka_cb).
THEOREM CountersAreReal == Spec => []CountsAreReal
<1>1. Init => CountInv
  BY McoreKeepaliveAssumption DEF Init, CountInv, InStep, Fresh
<1>2. TypeOK /\ CountInv => CountsAreReal
  BY DEF TypeOK, HistTypes, Privs, CountInv, InStep, CountsAreReal
<1> QED
  BY <1>1, <1>2, NextCounts, TypeCorrect, PTL DEF Spec

-----------------------------------------------------------------------------
(* The driver while confirm looks at it.                                    *)

DriverInv == KInv /\ CountInv

\* A step of confirm changes nothing but what the history keeps for it.
LEMMA ConfirmWatches ==
  ASSUME TypeOK, Confirm
  PROVE  /\ UNCHANGED <<dev, p, quiet, since, due, fired, timeout, core, now>>
         /\ hist' \in HistTypes
         /\ hist'.upsets = hist.upsets /\ hist'.wraps = hist.wraps /\ hist'.from = hist.from
         /\ hist'.stale = hist.stale /\ hist'.late = hist.late
         /\ hist'.dangling = hist.dangling /\ hist'.smooth = hist.smooth
<1>1. CASE PollWait
  BY <1>1 DEF PollWait, TypeOK, HistTypes
<1>2. CASE ReadG0
  BY <1>2 DEF ReadG0, TypeOK, HistTypes
<1>3. CASE ReadR0 \/ ReadN0 \/ PollStable \/ ReadN1 \/ CompareRestarts \/ CompareGaps
  BY <1>3 DEF ReadR0, ReadN0, PollStable, ReadN1, CompareRestarts, CompareGaps, TypeOK, vars
<1> QED
  BY <1>1, <1>2, <1>3 DEF Confirm

\* What is proved of the driver survives confirm's steps.
LEMMA CNextDriver == DriverInv /\ [CNext]_cvars => DriverInv'
<1> SUFFICES ASSUME DriverInv, [CNext]_cvars PROVE DriverInv'
  OBVIOUS
<1>1. CASE Confirm
  <2>1. TypeOK' /\ TimerMatches' /\ HeardInProbe' /\ ExpiryKnown' /\ Disarmed' /\ NoDanglingTimer'
    BY <1>1, ConfirmWatches DEF DriverInv, KInv, TypeOK, TimerMatches, HeardInProbe,
       ExpiryKnown, Disarmed, NoDanglingTimer
  <2>2. CountInv'
    BY <1>1, ConfirmWatches DEF DriverInv, KInv, CountInv, InStep
  <2> QED
    BY <2>1, <2>2 DEF DriverInv, KInv
<1>2. CASE Others \/ CTick \/ UNCHANGED cvars
  <2>1. [Next]_vars
    BY <1>2 DEF Others, CTick, cvars, Next
  <2> QED
    BY <2>1, NextKInv, NextCounts DEF DriverInv, KInv
<1> QED
  BY <1>1, <1>2 DEF CNext

\* The driver's invariant in every run of confirm.
LEMMA DriverStays == CSpec => []DriverInv
<1>1. CInit => DriverInv
  <2>1. Init => CountInv
    BY McoreKeepaliveAssumption DEF Init, CountInv, InStep, Fresh
  <2> QED
    BY <2>1, InitKInv DEF CInit, DriverInv
<1> QED
  BY <1>1, CNextDriver, PTL DEF CSpec

\* While confirm looks on, no silence outlasts timeout_ms with the state still alive.
THEOREM LossIsSeen == CSpec => []SilenceReportedInTime
<1>1. DriverInv => SilenceReportedInTime
  BY McoreKeepaliveAssumption
  DEF DriverInv, KInv, TypeOK, TimerMatches, SilenceReportedInTime, SilenceReported
<1> QED
  BY <1>1, DriverStays, PTL

\* While confirm looks on, the counters it compares count only what happened.
THEOREM CountsSeenAreReal == CSpec => []CountsAreReal
<1>1. DriverInv => CountsAreReal
  BY DEF DriverInv, KInv, TypeOK, HistTypes, Privs, CountInv, InStep, CountsAreReal
<1> QED
  BY <1>1, DriverStays, PTL

\* While confirm looks on, a loss is reported only when timeout_ms has passed.
THEOREM AlarmsSeenAreTrue == CSpec => NoFalseAlarm
<1>1. DriverInv /\ [CNext]_cvars
        => [p.state = "alive" /\ p'.state = "lost" => hist.stale \/ quiet >= timeout]_vars
  <2> SUFFICES ASSUME DriverInv, CNext, p.state = "alive", p'.state = "lost", ~hist.stale
               PROVE  quiet >= timeout
    BY DEF cvars
  <2>1. CASE Confirm
    BY <2>1, ConfirmWatches DEF DriverInv, KInv
  <2>2. CASE Others \/ CTick
    BY <2>2, LossIsTrue DEF Others, CTick, Next, DriverInv
  <2> QED
    BY <2>1, <2>2 DEF CNext
<1> QED
  BY <1>1, DriverStays, PTL DEF CSpec, NoFalseAlarm

-----------------------------------------------------------------------------
(* Firmware that keeps its period.                                          *)

\* With a keepalive in every tick the timer is never due: it has two ticks or more
\* when a message has set it, and a tick passes only after the next message.
SmoothRun ==
  /\ hist.upsets = 0 /\ ~hist.stale /\ timeout = Default /\ core.booting = 0
  /\ dev # "removing" /\ fired = Off /\ since = 0
  /\ p.state # "lost"
  /\ p.state = "alive" => dev # "none" /\ quiet <= 1
  /\ p.state = "waiting" => due = IF dev = "bound" THEN Default ELSE Off
  /\ core.sent => p.state = "alive" /\ quiet = 0
  /\ now > 0 => dev = "bound" /\ p.state = "alive"

SmoothInv == hist.smooth => SmoothRun

\* Something that goes wrong ends a smooth run.
LEMMA UpsetEnds == ASSUME NEW h \in HistTypes, Upset(h) PROVE ~hist'.smooth
  BY DEF Upset, HistTypes

\* So none of these is a step of one.
LEMMA NoUpset ==
  ASSUME hist \in HistTypes, hist'.smooth
  PROVE  ~Remove /\ ~KeepaliveLost /\ ~BadMessage /\ ~CoreRestart /\ ~Retune
<1>u. ~ \E h \in HistTypes : Upset(h)
  BY UpsetEnds
<1>1. ~Remove
  BY <1>u DEF Remove, HistTypes
<1>2. ~KeepaliveLost
  BY <1>u DEF KeepaliveLost, HistTypes
<1>3. ~BadMessage /\ ~CoreRestart
  BY <1>u DEF BadMessage, CoreRestart
<1>4. ~Retune
  <2>1. ASSUME NEW b \in BOOLEAN PROVE [hist EXCEPT !.stale = b] \in HistTypes
    BY DEF HistTypes
  <2>2. (due # Off \/ p.state = "alive") \in BOOLEAN
    OBVIOUS
  <2> QED
    BY <1>u, <2>1, <2>2 DEF Retune
<1> QED
  BY <1>1, <1>2, <1>3, <1>4

\* Every step of the driver and the M core keeps SmoothInv.
LEMMA NextSmooth ==
  ASSUME \A t \in Timeouts : t >= 2, DriverInv, SmoothInv, Next
  PROVE  SmoothInv'
<1> SUFFICES ASSUME hist'.smooth PROVE SmoothRun'
  BY DEF SmoothInv
<1>a. TypeOK /\ TypeOK' /\ TimerMatches
  BY NextTypes DEF DriverInv, KInv
<1>b. Default \in Nat /\ Default >= 2
  BY McoreKeepaliveAssumption
<1>u. ~ \E h \in HistTypes : Upset(h)
  BY UpsetEnds
<1>s. hist.smooth => SmoothRun /\ InStep
  BY DEF SmoothInv, SmoothRun, DriverInv, CountInv
<1>h. hist \in HistTypes
  BY <1>a DEF TypeOK
<1> USE <1>a, <1>b, <1>s DEF SmoothRun, TypeOK, HistTypes, Privs, Cores, Off
<1>1. CASE Probe
  <2>1. hist' = hist
    BY <1>1, <1>u, <1>h DEF Probe
  <2>2. /\ p'.state = "waiting" /\ core'.booting = core.booting /\ core'.sent = core.sent
        /\ since' = 0 /\ dev = "none" /\ dev' = "probing"
    BY <1>1 DEF Probe, Fresh
  <2> QED
    BY <1>1, <2>1, <2>2 DEF Probe
<1>2. CASE ProbeArm
  <2>1. hist.smooth /\ ~hist'.stale /\ hist'.upsets = hist.upsets
    BY <1>2 DEF ProbeArm
  <2> QED
    BY <1>2, <2>1 DEF ProbeArm, Left
<1>3. ~Remove
  BY <1>h, NoUpset
<1>4. ~Freed
  BY DEF Freed
<1>5. ~TimerExpires
  BY DEF TimerExpires, TimerMatches
<1>6. ~TimerRuns
  BY DEF TimerRuns
<1>7. CASE Keepalive
  <2>1. hist.smooth /\ dev # "none"
    BY <1>7 DEF Keepalive, InStep
  <2>2. /\ hist'.upsets = hist.upsets /\ ~hist'.stale
        /\ core'.booting = core.booting
    BY <1>7, <2>1 DEF Keepalive
  <2> QED
    BY <1>7, <2>1, <2>2, Received DEF Keepalive
<1>8. ~KeepaliveLost /\ ~BadMessage /\ ~CoreRestart /\ ~Retune
  BY <1>h, NoUpset
<1>9. CASE Tick
  <2>1. hist.smooth /\ dev = "bound" /\ core.sent
    BY <1>9 DEF Tick
  <2>2. hist'.upsets = hist.upsets /\ hist'.stale = hist.stale
    BY <1>9 DEF Tick
  <2>3. core'.booting = 0 /\ ~core'.sent
    BY <1>9, <2>1 DEF Tick
  <2> QED
    BY <1>9, <2>1, <2>2, <2>3 DEF Tick
<1> QED
  BY <1>1, <1>2, <1>3, <1>4, <1>5, <1>6, <1>7, <1>8, <1>9 DEF Next, Driver, Core

\* So does every step of confirm.
LEMMA CNextSmooth ==
  ASSUME \A t \in Timeouts : t >= 2, DriverInv, SmoothInv, [CNext]_cvars
  PROVE  SmoothInv'
<1>1. CASE Confirm
  BY <1>1, ConfirmWatches DEF SmoothInv, SmoothRun, DriverInv, KInv
<1>2. CASE Others \/ CTick
  BY <1>2, NextSmooth DEF Others, CTick, Next
<1>3. CASE UNCHANGED cvars
  BY <1>3 DEF cvars, vars, SmoothInv, SmoothRun
<1> QED
  BY <1>1, <1>2, <1>3 DEF CNext

Marks == {"g0", "r0", "n0", "n1", "run0", "core0", "run1", "missing"}
MarkTypes ==
  /\ DOMAIN mark = Marks /\ mark.n0 \in Nat /\ mark.n1 \in Nat
  /\ i \in Nat

\* Ticks of the second loop that have passed, and the keepalive of this tick
Ticks == IF asleep THEN i ELSE i + 1
OfThisTick == IF core.sent THEN 1 ELSE 0

\* What confirm has seen of a smooth run: the device is there from g0 on, nothing is
\* counted, and each tick of the second loop has brought a keepalive but the first,
\* which may have come before n0.
OnTheWay ==
  /\ c # "failed"
  /\ c = "wait" /\ now = 0 => i = 0 \/ asleep
  /\ c # "wait" => dev = "bound" /\ p.state = "alive"
  /\ c \notin {"wait", "g0"} => mark.g0 = 0
  /\ c \notin {"wait", "g0", "r0"} => mark.r0 = 0
  /\ c = "stable" => p.received - OfThisTick >= mark.n0 - 1 + Ticks
  /\ c = "n1" => p.received >= mark.n0 + Stable - 1
  /\ c \in {"restarts", "gaps"} => mark.n1 >= mark.n0 + Stable - 1

WayInv == MarkTypes /\ (hist.smooth /\ hist.wraps = 0 => OnTheWay)

\* Nothing is counted in a smooth run without a wrap.
LEMMA NothingCounted ==
  ASSUME DriverInv, SmoothInv, hist.smooth, hist.wraps = 0
  PROVE  p.gaps = 0 /\ p.restarts = 0
BY DEF DriverInv, KInv, SmoothInv, SmoothRun, CountInv, InStep, TypeOK, HistTypes, Privs

\* The types that the proof needs of confirm's variables.
LEMMA NextMarks == ASSUME DriverInv, MarkTypes, [CNext]_cvars PROVE MarkTypes'
<1>a. TypeOK
  BY DEF DriverInv, KInv
<1>1. CASE PollWait \/ PollStable
  BY <1>1 DEF PollWait, PollStable, MarkTypes
<1>4. CASE ReadG0 \/ ReadR0
  BY <1>4 DEF ReadG0, ReadR0, MarkTypes, Marks
<1>5. CASE CompareRestarts \/ CompareGaps
  BY <1>5 DEF CompareRestarts, CompareGaps, MarkTypes
<1>2. CASE ReadN0 \/ ReadN1
  <2>1. Number(Shown("received")) \in Nat
    BY <1>a DEF Number, Shown, MCKA_SHOW, TypeOK, Privs, Off
  <2> DEFINE n == Number(Shown("received"))
  <2>2. n \in Nat
    BY <2>1
  <2> HIDE DEF n
  <2>3. CASE ReadN0
    <3>1. mark' = [mark EXCEPT !.n0 = n] /\ i' = 0
      BY <2>3 DEF ReadN0, n
    <3> QED
      BY <2>2, <3>1 DEF MarkTypes, Marks
  <2>4. CASE ReadN1
    <3>1. /\ mark' = [mark EXCEPT !.n1 = n, !.run1 = hist.from, !.missing = hist.heard]
          /\ i' = i
      BY <2>4 DEF ReadN1, n
    <3> QED
      BY <2>2, <3>1 DEF MarkTypes, Marks
  <2> QED
    BY <1>2, <2>3, <2>4
<1>3. CASE Others \/ CTick \/ UNCHANGED cvars
  BY <1>3 DEF Others, CTick, cvars, confirm, MarkTypes, Marks
<1> QED
  BY <1>1, <1>2, <1>3, <1>4, <1>5 DEF CNext, Confirm

\* Confirm's own steps keep it on the way.
LEMMA ConfirmOnTheWay ==
  ASSUME Wait >= 2, DriverInv, SmoothInv, WayInv, Confirm, hist'.smooth, hist'.wraps = 0
  PROVE  OnTheWay'
<1>t. TypeOK /\ MarkTypes /\ MarkTypes'
  BY NextMarks DEF DriverInv, KInv, WayInv, CNext
<1>w. /\ UNCHANGED <<dev, p, core, now>>
      /\ hist'.smooth = hist.smooth /\ hist'.wraps = hist.wraps
  BY ConfirmWatches, <1>t
<1>s. SmoothRun /\ OnTheWay
  BY <1>w DEF SmoothInv, WayInv
<1>c. p.gaps = 0 /\ p.restarts = 0 /\ p.received \in Nat
  BY <1>w, <1>t, NothingCounted DEF TypeOK, Privs
<1> USE <1>t, <1>w, <1>s, <1>c, McoreConfirmAssumption
    DEF OnTheWay, MarkTypes, Marks, Ticks, OfThisTick, Alive, MCKA_SHOW, Shown, Number, Off
<1>1. CASE PollWait
  <2>1. now = 0 \/ Alive
    BY DEF SmoothRun, TypeOK
  <2> QED
    BY <1>1, <2>1 DEF PollWait
<1>2. CASE ReadG0
  BY <1>2 DEF ReadG0
<1>3. CASE ReadR0
  BY <1>3 DEF ReadR0, vars
<1>4. CASE ReadN0
  BY <1>4 DEF ReadN0, vars
<1>5. CASE PollStable
  BY <1>5 DEF PollStable, vars
<1>6. CASE ReadN1
  BY <1>6 DEF ReadN1, vars
<1>7. CASE CompareRestarts
  BY <1>7 DEF CompareRestarts, SameRun, vars
<1>8. CASE CompareGaps
  BY <1>8 DEF CompareGaps, Enough, vars
<1> QED
  BY <1>1, <1>2, <1>3, <1>4, <1>5, <1>6, <1>7, <1>8 DEF Confirm

\* The driver, the M core and the clock keep it there.
LEMMA NextOnTheWay ==
  ASSUME DriverInv, SmoothInv, WayInv, Others \/ CTick, hist'.smooth, hist'.wraps = 0
  PROVE  OnTheWay'
<1>t. TypeOK /\ TypeOK' /\ MarkTypes /\ MarkTypes'
  BY NextMarks, CNextDriver DEF DriverInv, KInv, WayInv, CNext
<1>u. ~ \E h \in HistTypes : Upset(h)
  BY UpsetEnds
<1>h. hist \in HistTypes /\ p \in Privs /\ core \in Cores /\ hist' \in HistTypes
      /\ now \in Nat /\ now' \in Nat
  BY <1>t DEF TypeOK
<1> USE <1>t, <1>h, McoreConfirmAssumption
    DEF OnTheWay, MarkTypes, Marks, Ticks, OfThisTick, HistTypes, Privs, Cores, Off, confirm
<1>1. CASE Probe /\ UNCHANGED confirm
  <2>1. hist' = hist /\ core'.sent = core.sent
    BY <1>1, <1>u DEF Probe
  <2>2. OnTheWay
    BY <2>1 DEF WayInv
  <2> QED
    BY <1>1, <2>1, <2>2 DEF Probe
<1>2. CASE ProbeArm /\ UNCHANGED confirm
  <2>1. OnTheWay
    BY <1>2 DEF WayInv, ProbeArm
  <2> QED
    BY <1>2, <2>1 DEF ProbeArm
<1>3. ~Remove
  BY <1>h, NoUpset
<1>4. ~Freed
  BY DEF Freed, SmoothInv, SmoothRun
<1>5. CASE TimerExpires /\ UNCHANGED confirm
  BY <1>5 DEF TimerExpires, WayInv
<1>6. ~TimerRuns
  BY DEF TimerRuns, SmoothInv, SmoothRun
<1>7. CASE Keepalive /\ UNCHANGED confirm
  <2>5. hist.smooth /\ hist.wraps = 0
    BY <1>7 DEF Keepalive
  <2>1. hist.smooth /\ hist.wraps = 0 /\ OnTheWay
    BY <2>5 DEF WayInv
  <2>2. ~core.sent /\ core'.sent
    BY <1>7 DEF Keepalive
  <2>3. CASE dev = "none"
    BY <1>7, <2>1, <2>2, <2>3 DEF Keepalive
  <2>4. CASE dev # "none"
    <3>1. p'.received = p.received + 1
      BY <1>7, <2>4 DEF Keepalive, Receive
    <3>2. p'.state = "alive" /\ dev' = dev
      BY <1>7, <2>4, Received
    <3>3. now' = now
      BY <1>7 DEF Keepalive
    <3> QED
      BY <1>7, <2>1, <2>2, <3>1, <3>2, <3>3
  <2> QED
    BY <2>3, <2>4
<1>8. ~KeepaliveLost /\ ~BadMessage /\ ~CoreRestart /\ ~Retune
  BY <1>h, NoUpset
<1>9. CASE CTick
  <2>1. /\ hist.smooth /\ hist.wraps = 0 /\ core.sent
        /\ p' = p /\ dev' = dev /\ now' = now + 1
    BY <1>9 DEF CTick, Tick
  <2>2. ~core'.sent
    BY <1>9, <2>1 DEF CTick, Tick, SmoothInv, SmoothRun
  <2>3. OnTheWay
    BY <2>1 DEF WayInv
  <2>4. c = "stable" => asleep
    BY <1>9 DEF CTick, Verdicts, Loops
  <2> QED
    BY <1>9, <2>1, <2>2, <2>3, <2>4 DEF CTick
<1> QED
  BY <1>1, <1>2, <1>3, <1>4, <1>5, <1>6, <1>7, <1>8, <1>9 DEF Others, Driver, Core

\* Firmware that sends its keepalive in every period is confirmed, however the
\* keepalives fall between the polls of mcore_confirm.
THEOREM HealthyIsConfirmed ==
  ASSUME Wait >= 2, \A t \in Timeouts : t >= 2
  PROVE  CSpec => []HealthyPasses
<1>1. CInit => SmoothInv /\ WayInv
  <2> SUFFICES ASSUME CInit PROVE SmoothInv /\ WayInv
    OBVIOUS
  <2>1. SmoothRun
    BY McoreKeepaliveAssumption DEF CInit, Init, SmoothRun, Fresh, Off
  <2>2. MarkTypes
    BY DEF CInit, MarkTypes, Marks
  <2>3. OnTheWay
    BY DEF CInit, OnTheWay
  <2> QED
    BY <2>1, <2>2, <2>3 DEF SmoothInv, WayInv
<1>2. DriverInv /\ SmoothInv /\ [CNext]_cvars => SmoothInv'
  BY CNextSmooth
<1>3. DriverInv /\ SmoothInv /\ WayInv /\ [CNext]_cvars => WayInv'
  <2> SUFFICES ASSUME DriverInv, SmoothInv, WayInv, [CNext]_cvars PROVE WayInv'
    OBVIOUS
  <2>1. MarkTypes'
    BY NextMarks DEF WayInv
  <2>2. CASE UNCHANGED cvars
    BY <2>1, <2>2 DEF cvars, vars, confirm, WayInv, OnTheWay, Ticks, OfThisTick
  <2>3. CASE CNext
    BY <2>1, <2>3, ConfirmOnTheWay, NextOnTheWay DEF CNext, WayInv
  <2> QED
    BY <2>2, <2>3
<1>4. DriverInv /\ WayInv => HealthyPasses
  BY DEF DriverInv, KInv, TypeOK, HistTypes, WayInv, OnTheWay, HealthyPasses
<1> QED
  BY <1>1, <1>2, <1>3, <1>4, DriverStays, PTL DEF CSpec
-----------------------------------------------------------------------------
(* What confirm overlooks. Six kinds of steps of the driver, the M core and  *)
(* the clock, by what they do to the counters and to the history.           *)

Counters == <<p.received, p.gaps, p.restarts, p.seq, p.up>>
Sender == <<core.run, core.seq, core.up, core.sent>>
Stays == hist'.unbound = hist.unbound /\ (dev = "bound" => dev' = "bound")

\* Nothing
Still ==
  /\ UNCHANGED <<Counters, Sender, now>> /\ (p'.state = "alive" => p.state = "alive")
  /\ UNCHANGED <<hist.wraps, hist.missed, hist.heard, hist.from>>
  /\ Stays \/ hist'.unbound

\* A new device counts from 0
Anew ==
  /\ dev = "none" /\ dev' = "probing" /\ p'.received = 0 /\ p'.state # "alive"
  /\ UNCHANGED <<Sender, now>>
  /\ UNCHANGED <<hist.wraps, hist.missed, hist.heard, hist.from, hist.unbound>>

\* The M core has sent
Sends ==
  /\ ~core.sent /\ core'.sent /\ core'.seq = (core.seq + 1) % Wrap
  /\ UNCHANGED <<core.run, core.up, now, hist.wraps>> /\ Stays

\* A keepalive is counted
Heard ==
  /\ Sends /\ dev # "none"
  /\ p'.received = p.received + 1 /\ p'.seq = core.seq /\ p'.up = core.up
  /\ p'.restarts = IF p.received > 0 /\ core.up < p.up THEN p.restarts + 1 ELSE p.restarts
  /\ p'.gaps = IF p.received > 0 /\ core.up >= p.up /\ core.seq # (p.seq + 1) % Wrap
               THEN p.gaps + 1 ELSE p.gaps
  /\ hist'.missed = hist.missed /\ hist'.heard = hist.missed /\ hist'.from = core.run

\* Or lost
Lost ==
  /\ Sends /\ UNCHANGED <<Counters, p.state, hist.heard, hist.from>>
  /\ hist'.missed = hist.missed + 1 \/ (hist'.missed = hist.missed /\ dev # "bound")

\* Another run of the M core
Restarted ==
  /\ core'.run = core.run + 1 /\ core'.seq = 0 /\ core'.up = 0 /\ core'.sent
  /\ UNCHANGED <<Counters, p.state, now>> /\ Stays
  /\ UNCHANGED <<hist.wraps, hist.missed, hist.heard, hist.from>>

Ticked ==
  /\ now < MaxTime /\ now' = now + 1
  /\ core'.up = (core.up + 1) % Wrap /\ (core'.sent => core.sent)
  /\ hist'.wraps = IF core.up = Wrap - 1 THEN hist.wraps + 1 ELSE hist.wraps
  /\ UNCHANGED <<core.run, core.seq, Counters, p.state>> /\ Stays
  /\ UNCHANGED <<hist.missed, hist.heard, hist.from>>

\* What goes wrong changes no more of the history than it says.
LEMMA UpsetKeeps ==
  ASSUME NEW h \in HistTypes, Upset(h)
  PROVE  /\ hist'.unbound = h.unbound /\ hist'.wraps = h.wraps /\ hist'.missed = h.missed
         /\ hist'.heard = h.heard /\ hist'.from = h.from
BY DEF Upset, HistTypes

\* Every step of the driver, the M core or the clock is of one of these kinds.
LEMMA SixKinds ==
  ASSUME TypeOK, Next
  PROVE  Still \/ Anew \/ Heard \/ Lost \/ Restarted \/ Ticked
<1>t. p \in Privs /\ core \in Cores /\ hist \in HistTypes
  BY DEF TypeOK
<1>1. CASE Probe
  <2>1. UNCHANGED <<hist.wraps, hist.missed, hist.heard, hist.from, hist.unbound>>
    BY <1>1, <1>t, UpsetKeeps DEF Probe
  <2>2. UNCHANGED <<Sender, now>>
    BY <1>1, <1>t DEF Probe, Sender, Cores
  <2> QED
    BY <1>1, <2>1, <2>2 DEF Probe, Fresh, Anew
<1>2. CASE ProbeArm
  BY <1>2, <1>t DEF ProbeArm, Still, Stays, Counters, Sender, HistTypes
<1>3. CASE Remove
  <2> DEFINE h == [hist EXCEPT !.late = FALSE, !.dangling = FALSE, !.unbound = TRUE]
  <2>1. /\ h \in HistTypes /\ h.unbound /\ h.wraps = hist.wraps /\ h.missed = hist.missed
        /\ h.heard = hist.heard /\ h.from = hist.from
    BY <1>t DEF HistTypes
  <2>2. Upset(h)
    BY <1>3 DEF Remove
  <2> HIDE DEF h
  <2>3. hist'.unbound /\ UNCHANGED <<hist.wraps, hist.missed, hist.heard, hist.from>>
    BY <2>1, <2>2, UpsetKeeps
  <2> QED
    BY <1>3, <2>3 DEF Remove, Still, Counters, Sender
<1>4. CASE Freed
  BY <1>4, <1>t DEF Freed, Still, Stays, Counters, Sender, HistTypes
<1>5. CASE TimerExpires
  BY <1>5 DEF TimerExpires, Still, Stays, Counters, Sender
<1>6. CASE TimerRuns
  <2>1. UNCHANGED Counters /\ (p'.state = "alive" => p.state = "alive")
    BY <1>6, <1>t DEF TimerRuns, Counters, Privs
  <2> QED
    BY <1>6, <2>1 DEF TimerRuns, Still, Stays, Sender
<1>7. CASE Keepalive
  <2>1. Sends
    BY <1>7, <1>t DEF Keepalive, Sends, Stays, Cores, HistTypes
  <2>2. CASE dev = "none"
    BY <1>7, <2>1, <2>2 DEF Keepalive, Lost, Counters
  <2>3. CASE dev # "none"
    <3>1. /\ p'.received = p.received + 1 /\ p'.seq = core.seq /\ p'.up = core.up
          /\ p'.restarts = IF p.received > 0 /\ core.up < p.up
                           THEN p.restarts + 1 ELSE p.restarts
          /\ p'.gaps = IF p.received > 0 /\ core.up >= p.up /\ core.seq # (p.seq + 1) % Wrap
                       THEN p.gaps + 1 ELSE p.gaps
      BY <1>7, <2>3, <1>t DEF Keepalive, Receive, SeqGap, Privs
    <3>2. hist'.missed = hist.missed /\ hist'.heard = hist.missed /\ hist'.from = core.run
      BY <1>7, <2>3, <1>t DEF Keepalive, HistTypes
    <3> QED
      BY <2>1, <2>3, <3>1, <3>2 DEF Heard
  <2> QED
    BY <2>2, <2>3
<1>8. CASE KeepaliveLost
  <2> DEFINE h == [hist EXCEPT !.missed = @ + 1]
  <2>1. /\ h \in HistTypes /\ h.unbound = hist.unbound /\ h.wraps = hist.wraps
        /\ h.missed = hist.missed + 1 /\ h.heard = hist.heard /\ h.from = hist.from
    BY <1>t DEF HistTypes
  <2>2. Upset(h)
    BY <1>8 DEF KeepaliveLost
  <2> HIDE DEF h
  <2>3. /\ hist'.missed = hist.missed + 1
        /\ UNCHANGED <<hist.unbound, hist.wraps, hist.heard, hist.from>>
    BY <2>1, <2>2, UpsetKeeps
  <2>4. Sends
    BY <1>8, <1>t, <2>3 DEF KeepaliveLost, Sends, Stays, Cores
  <2> QED
    BY <1>8, <2>3, <2>4 DEF KeepaliveLost, Lost, Counters
<1>9. CASE BadMessage
  <2>1. UNCHANGED Counters /\ p'.state = p.state
    BY <1>9, <1>t DEF BadMessage, Counters, Privs
  <2>2. UNCHANGED <<hist.wraps, hist.missed, hist.heard, hist.from, hist.unbound>>
    BY <1>9, <1>t, UpsetKeeps DEF BadMessage
  <2> QED
    BY <1>9, <2>1, <2>2 DEF BadMessage, Still, Stays, Sender
<1>10. CASE CoreRestart
  <2>1. core'.run = core.run + 1 /\ core'.seq = 0 /\ core'.up = 0 /\ core'.sent
    BY <1>10, <1>t DEF CoreRestart, Cores
  <2>2. UNCHANGED <<hist.wraps, hist.missed, hist.heard, hist.from, hist.unbound>>
    BY <1>10, <1>t, UpsetKeeps DEF CoreRestart
  <2> QED
    BY <1>10, <2>1, <2>2 DEF CoreRestart, Restarted, Stays, Counters
<1>11. CASE Retune
  <2> DEFINE h == [hist EXCEPT !.stale = due # Off \/ p.state = "alive"]
  <2>1. /\ h \in HistTypes /\ h.unbound = hist.unbound /\ h.wraps = hist.wraps
        /\ h.missed = hist.missed /\ h.heard = hist.heard /\ h.from = hist.from
    BY <1>t DEF HistTypes
  <2>2. Upset(h)
    BY <1>11 DEF Retune
  <2> HIDE DEF h
  <2>3. UNCHANGED <<hist.wraps, hist.missed, hist.heard, hist.from, hist.unbound>>
    BY <2>1, <2>2, UpsetKeeps
  <2> QED
    BY <1>11, <2>3 DEF Retune, Still, Stays, Counters, Sender
<1>12. CASE Tick
  <2>1. /\ core'.up = (core.up + 1) % Wrap /\ (core'.sent => core.sent)
        /\ core'.run = core.run /\ core'.seq = core.seq
    BY <1>12, <1>t DEF Tick, Cores
  <2>2. /\ hist'.wraps = IF core.up = Wrap - 1 THEN hist.wraps + 1 ELSE hist.wraps
        /\ UNCHANGED <<hist.missed, hist.heard, hist.from, hist.unbound>>
    BY <1>12, <1>t DEF Tick, HistTypes
  <2> QED
    BY <1>12, <2>1, <2>2 DEF Tick, Ticked, Stays, Counters
<1> QED
  BY <1>1, <1>2, <1>3, <1>4, <1>5, <1>6, <1>7, <1>8, <1>9, <1>10, <1>11, <1>12
  DEF Next, Driver, Core

\* What the runs of the M core, its counters and the latest device have to do with
\* each other: while uptime_ms has not wrapped, seq does not pass it.
InRuns ==
  /\ 1 <= hist.from /\ hist.from <= core.run
  /\ hist.heard <= hist.missed
  /\ p.state = "alive" => p.received > 0
  /\ hist.wraps = 0 =>
       /\ core.seq <= core.up + OfThisTick
       /\ p.received > 0 => p.seq <= p.up
       /\ core.run > 1 => core.up <= now

\* Of the run that was heard last, seq has run ahead by what was lost since, and by
\* less than it takes to wrap
Ahead ==
  hist.from = core.run /\ p.received > 0 =>
    \E k \in 0..(now + OfThisTick) :
      /\ hist.missed - hist.heard <= k
      /\ core.seq = p.seq + 1 + k \/ core.seq + Wrap = p.seq + 1 + k

\* What PassedMeansStable says of a run heard and the keepalives missing by then
Seen(run, missing) ==
  /\ run > mark.core0 => missing > 0 \/ hist.wraps > 0
  /\ missing > 0 => run # mark.run0

Watching == {"r0", "n0", "stable", "n1", "restarts", "gaps"}

\* The device has been there since confirm saw it alive, and its counters have grown
\* since they were read
SinceG0 ==
  c \in Watching =>
    /\ mark.g0 \in Nat /\ mark.g0 <= p.gaps
    /\ mark.core0 \in Nat /\ mark.core0 <= core.run
    /\ mark.run0 \in Nat /\ mark.run0 <= hist.from
    /\ c = "r0" => /\ hist.heard = 0 /\ hist.from <= mark.core0
                   /\ hist.missed > 0 \/ core.run > mark.core0 => core.sent
    /\ c # "r0" => mark.r0 \in Nat /\ mark.r0 <= p.restarts
    /\ core.run > mark.core0 /\ hist.from < core.run /\ hist.missed = 0 => core.seq = 0

\* As long as they show nothing, nothing was overlooked
NothingOverlooked ==
  /\ c \in {"n0", "stable", "n1"} /\ p.gaps = mark.g0 /\ p.restarts = mark.r0 =>
       Seen(hist.from, hist.heard)
  /\ c = "restarts" /\ p.gaps = mark.g0 /\ p.restarts = mark.r0 =>
       Seen(mark.run1, mark.missing)
  /\ c = "gaps" /\ p.gaps = mark.g0 => Seen(mark.run1, mark.missing)

WatchInv ==
  c \in Watching \cup {"g0"} /\ ~hist.unbound =>
    dev = "bound" /\ p.received > 0 /\ SinceG0 /\ NothingOverlooked

\* The types that these proofs need.
LEMMA Numbers ==
  ASSUME TypeOK
  PROVE  /\ p.received \in Nat /\ p.gaps \in Nat /\ p.restarts \in Nat
         /\ p.seq \in U32 /\ p.up \in U32 /\ core.seq \in U32 /\ core.up \in U32
         /\ core.run \in Nat /\ core.sent \in BOOLEAN /\ now \in Nat /\ now <= MaxTime
         /\ hist.wraps \in Nat /\ hist.missed \in Nat /\ hist.heard \in Nat
         /\ hist.from \in Nat /\ hist.unbound \in BOOLEAN
BY McoreKeepaliveAssumption DEF TypeOK, Privs, Cores, HistTypes

\* The next of a counter of 32 bits.
LEMMA Successor ==
  ASSUME NEW n \in U32
  PROVE  (n + 1) % Wrap = IF n = Wrap - 1 THEN 0 ELSE n + 1
BY McoreKeepaliveAssumption DEF U32

\* Confirm changes nothing that these speak of, except when it begins to count.
LEMMA ConfirmCounts ==
  ASSUME TypeOK, Confirm
  PROVE  /\ UNCHANGED <<dev, p, core, now, hist.wraps, hist.from>>
         /\ ~ReadG0 => UNCHANGED <<hist.missed, hist.heard>>
         /\ ReadG0 => hist'.missed = 0 /\ hist'.heard = 0
         /\ ~PollWait => hist'.unbound = hist.unbound
<1>0. hist \in HistTypes
  BY DEF TypeOK
<1>1. CASE PollWait
  BY <1>0, <1>1, ConfirmWatches DEF PollWait, HistTypes, ReadG0
<1>2. CASE ReadG0
  BY <1>0, <1>2, ConfirmWatches DEF ReadG0, HistTypes
<1>3. CASE ReadR0 \/ ReadN0 \/ PollStable \/ ReadN1 \/ CompareRestarts \/ CompareGaps
  BY <1>3 DEF ReadR0, ReadN0, PollStable, ReadN1, CompareRestarts, CompareGaps, ReadG0, vars
<1> QED
  BY <1>1, <1>2, <1>3 DEF Confirm

\* Every step keeps the runs and the counters related.
LEMMA NextRuns == TypeOK /\ InRuns /\ [CNext]_cvars => InRuns'
<1> SUFFICES ASSUME TypeOK, InRuns, [CNext]_cvars PROVE InRuns'
  OBVIOUS
<1>n. TypeOK' /\ Wrap \in Nat /\ Wrap > 2
  <2>1. CASE Confirm
    BY <2>1, ConfirmWatches, McoreKeepaliveAssumption DEF TypeOK
  <2>2. CASE Others \/ CTick \/ UNCHANGED cvars
    BY <2>2, NextTypes, McoreKeepaliveAssumption DEF Others, CTick, cvars, Next
  <2> QED
    BY <2>1, <2>2 DEF CNext
<1>s. /\ (core.seq + 1) % Wrap = IF core.seq = Wrap - 1 THEN 0 ELSE core.seq + 1
      /\ (core.up + 1) % Wrap = IF core.up = Wrap - 1 THEN 0 ELSE core.up + 1
  BY Numbers, Successor
<1>1. CASE Confirm
  BY <1>1, ConfirmCounts, Numbers DEF InRuns, OfThisTick
<1>2. CASE Others \/ CTick
  <2>1. Still \/ Anew \/ Heard \/ Lost \/ Restarted \/ Ticked
    BY <1>2, SixKinds DEF Others, CTick, Next
  <2> USE <1>n, Numbers DEF InRuns, OfThisTick, Counters, Sender, U32
  <2>2. CASE Still
    BY <2>2 DEF Still
  <2>3. CASE Anew
    BY <2>3 DEF Anew
  <2>4. CASE Heard
    <3>1. core'.seq = IF core.seq = Wrap - 1 THEN 0 ELSE core.seq + 1
      BY <2>4, <1>s DEF Heard, Sends
    <3> QED
      BY <2>4, <3>1 DEF Heard, Sends
  <2>5. CASE Lost
    <3>1. core'.seq = IF core.seq = Wrap - 1 THEN 0 ELSE core.seq + 1
      BY <2>5, <1>s DEF Lost, Sends
    <3>2. UNCHANGED <<core.run, core.up, now, hist.wraps, hist.heard, hist.from>>
      BY <2>5 DEF Lost, Sends
    <3>3. p'.received = p.received /\ p'.seq = p.seq /\ p'.up = p.up /\ p'.state = p.state
      BY <2>5 DEF Lost
    <3>4. ~core.sent /\ core'.sent /\ hist'.missed \in {hist.missed, hist.missed + 1}
      BY <2>5 DEF Lost, Sends
    <3> QED
      BY <3>1, <3>2, <3>3, <3>4
  <2>6. CASE Restarted
    BY <2>6 DEF Restarted
  <2>7. CASE Ticked
    <3>1. core'.up = IF core.up = Wrap - 1 THEN 0 ELSE core.up + 1
      BY <2>7, <1>s DEF Ticked
    <3>2. hist'.wraps = 0 => hist.wraps = 0 /\ core.up # Wrap - 1
      BY <2>7 DEF Ticked
    <3>3. p'.received = p.received /\ p'.seq = p.seq /\ p'.up = p.up /\ p'.state = p.state
      BY <2>7 DEF Ticked
    <3>4. UNCHANGED <<core.run, core.seq, hist.missed, hist.heard, hist.from>>
      BY <2>7 DEF Ticked
    <3>5. now' = now + 1
      BY <2>7 DEF Ticked
    <3> QED
      BY <3>1, <3>2, <3>3, <3>4, <3>5
  <2> QED
    BY <2>1, <2>2, <2>3, <2>4, <2>5, <2>6, <2>7
<1>3. CASE UNCHANGED cvars
  BY <1>3 DEF cvars, vars, InRuns, OfThisTick
<1> QED
  BY <1>1, <1>2, <1>3 DEF CNext

\* Every step keeps seq ahead of the last one heard by what was lost.
LEMMA NextAhead ==
  ASSUME MaxTime < Wrap - 1
  PROVE  TypeOK /\ InRuns /\ Ahead /\ [CNext]_cvars => Ahead'
<1> SUFFICES ASSUME TypeOK, InRuns, Ahead, [CNext]_cvars,
                    hist'.from = core'.run, p'.received > 0
             PROVE  \E k \in 0..(now' + OfThisTick') :
                      /\ hist'.missed - hist'.heard <= k
                      /\ core'.seq = p'.seq + 1 + k \/ core'.seq + Wrap = p'.seq + 1 + k
  BY DEF Ahead
<1> DEFINE Gap(k) == /\ hist.missed - hist.heard <= k
                     /\ core.seq = p.seq + 1 + k \/ core.seq + Wrap = p.seq + 1 + k
<1>a. hist.from = core.run /\ p.received > 0 => \E k \in 0..(now + OfThisTick) : Gap(k)
  BY DEF Ahead
<1>n. Wrap \in Nat /\ Wrap > 2 /\ MaxTime \in Nat /\ MaxTime < Wrap - 1
  BY McoreKeepaliveAssumption
<1>s. (core.seq + 1) % Wrap = IF core.seq = Wrap - 1 THEN 0 ELSE core.seq + 1
  BY Numbers, Successor
<1>1. CASE Confirm
  <2>1. PICK k \in 0..(now + OfThisTick) : Gap(k)
    BY <1>1, <1>a, ConfirmCounts
  <2>2. hist'.missed - hist'.heard <= k
    BY <1>1, <2>1, ConfirmCounts, Numbers
  <2>3. k \in 0..(now' + OfThisTick')
    BY <1>1, ConfirmCounts DEF OfThisTick
  <2> QED
    BY <1>1, <2>1, <2>2, <2>3, ConfirmCounts
<1>2. CASE Others \/ CTick
  <2>1. Still \/ Anew \/ Heard \/ Lost \/ Restarted \/ Ticked
    BY <1>2, SixKinds DEF Others, CTick, Next
  <2> USE <1>n, Numbers DEF OfThisTick, Counters, Sender, U32
  <2>2. CASE Still
    <3>1. PICK k \in 0..(now + OfThisTick) : Gap(k)
      BY <2>2, <1>a DEF Still
    <3> QED
      BY <2>2, <3>1 DEF Still
  <2>3. ~Anew
    BY DEF Anew
  <2>4. CASE Heard
    <3>1. hist'.missed - hist'.heard <= 0 /\ 0 \in 0..(now' + OfThisTick')
      BY <2>4 DEF Heard, Sends
    <3>2. p'.seq = core.seq /\ core'.seq = IF core.seq = Wrap - 1 THEN 0 ELSE core.seq + 1
      BY <2>4, <1>s DEF Heard, Sends
    <3>3. core'.seq = p'.seq + 1 + 0 \/ core'.seq + Wrap = p'.seq + 1 + 0
      BY <3>2
    <3> QED
      BY <3>1, <3>3
  <2>5. CASE Lost
    <3>1. PICK k \in 0..(now + OfThisTick) : Gap(k)
      BY <2>5, <1>a DEF Lost, Sends
    <3>2. core'.seq = IF core.seq = Wrap - 1 THEN 0 ELSE core.seq + 1
      BY <2>5, <1>s DEF Lost, Sends
    <3>3. p'.seq = p.seq /\ hist'.heard = hist.heard /\ now' = now
      BY <2>5 DEF Lost, Sends
    <3>4. ~core.sent /\ core'.sent /\ hist'.missed \in {hist.missed, hist.missed + 1}
      BY <2>5 DEF Lost, Sends
    <3>5. hist'.missed - hist'.heard <= k + 1 /\ k + 1 \in 0..(now' + OfThisTick')
      BY <3>1, <3>3, <3>4
    <3>k. k \in Nat /\ k < Wrap - 1
      BY <3>4
    <3>6. core'.seq = p'.seq + 1 + (k + 1) \/ core'.seq + Wrap = p'.seq + 1 + (k + 1)
      BY <3>1, <3>2, <3>3, <3>k
    <3> QED
      BY <3>5, <3>6
  <2>6. ~Restarted
    BY DEF Restarted, InRuns
  <2>7. CASE Ticked
    <3>1. PICK k \in 0..(now + OfThisTick) : Gap(k)
      BY <2>7, <1>a DEF Ticked
    <3>2. k \in 0..(now' + OfThisTick')
      BY <2>7 DEF Ticked
    <3> QED
      BY <2>7, <3>1, <3>2 DEF Ticked
  <2> QED
    BY <2>1, <2>2, <2>3, <2>4, <2>5, <2>6, <2>7
<1>3. CASE UNCHANGED cvars
  <2>1. PICK k \in 0..(now + OfThisTick) : Gap(k)
    BY <1>3, <1>a DEF cvars, vars
  <2> QED
    BY <1>3, <2>1 DEF cvars, vars, OfThisTick
<1> QED
  BY <1>1, <1>2, <1>3 DEF CNext

\* Confirm's own steps keep it.
LEMMA ConfirmWatch ==
  ASSUME TypeOK, MarkTypes, InRuns, WatchInv, Confirm PROVE WatchInv'
<1>n. /\ p.received \in Nat /\ p.gaps \in Nat /\ p.restarts \in Nat
      /\ core.run \in Nat /\ hist.from \in Nat /\ hist.heard \in Nat
  BY Numbers
<1>k. /\ UNCHANGED <<dev, p, core, now, hist.wraps, hist.from>>
      /\ ~ReadG0 => UNCHANGED <<hist.missed, hist.heard>>
      /\ ReadG0 => hist'.missed = 0 /\ hist'.heard = 0
      /\ ~PollWait => hist'.unbound = hist.unbound
  BY ConfirmCounts
<1>1. CASE PollWait
  <2>1. c' = "g0" => dev = "bound" /\ p.received > 0
    BY <1>1 DEF PollWait, Alive, MCKA_SHOW, InRuns
  <2>2. c' \notin Watching
    BY <1>1 DEF PollWait, Watching
  <2> QED
    BY <1>k, <2>1, <2>2 DEF WatchInv, SinceG0, NothingOverlooked, Watching
<1> SUFFICES ASSUME ~PollWait, c' \in Watching \cup {"g0"}, ~hist.unbound
             PROVE  dev = "bound" /\ p.received > 0 /\ SinceG0' /\ NothingOverlooked'
  BY <1>1, <1>k DEF WatchInv
<1>w. /\ c \in Watching \cup {"g0"} => dev = "bound" /\ p.received > 0
      /\ c \in Watching => SinceG0 /\ NothingOverlooked
  BY DEF WatchInv
<1> USE <1>n, <1>k DEF Watching
<1>2. CASE ReadG0
  <2>1. c = "g0" /\ c' = "r0" /\ dev = "bound" /\ p.received > 0
    BY <1>2, <1>w DEF ReadG0
  <2>2. mark'.g0 = p.gaps /\ mark'.run0 = hist.from /\ mark'.core0 = core.run
    BY <1>2, <2>1 DEF ReadG0, Shown, MCKA_SHOW, MarkTypes, Marks
  <2>3. SinceG0'
    BY <1>2, <2>1, <2>2 DEF SinceG0, InRuns
  <2>4. NothingOverlooked'
    BY <2>1 DEF NothingOverlooked
  <2> QED
    BY <2>1, <2>3, <2>4
<1>3. CASE ReadR0
  <2>1. c = "r0" /\ c' = "n0" /\ dev = "bound" /\ p.received > 0 /\ SinceG0
    BY <1>3, <1>w DEF ReadR0
  <2>2. /\ mark'.r0 = p.restarts /\ mark'.g0 = mark.g0
        /\ mark'.run0 = mark.run0 /\ mark'.core0 = mark.core0
    BY <1>3, <2>1 DEF ReadR0, Shown, MCKA_SHOW, MarkTypes, Marks
  <2>3. hist' = hist /\ ~ReadG0
    BY <1>3, <2>1 DEF ReadR0, ReadG0, vars
  <2>4. SinceG0'
    BY <2>1, <2>2, <2>3 DEF SinceG0
  <2>5. NothingOverlooked'
    BY <2>1, <2>2, <2>3 DEF SinceG0, NothingOverlooked, Seen
  <2> QED
    BY <2>1, <2>4, <2>5
<1>4. CASE ReadN0 \/ PollStable
  <2>1. /\ c \in {"n0", "stable"} /\ c' \in {"stable", "n1", "failed"} /\ hist' = hist
        /\ dev = "bound" /\ p.received > 0 /\ SinceG0 /\ NothingOverlooked
    BY <1>4, <1>w DEF ReadN0, PollStable, vars
  <2>2. /\ mark'.r0 = mark.r0 /\ mark'.g0 = mark.g0
        /\ mark'.run0 = mark.run0 /\ mark'.core0 = mark.core0
    BY <1>4 DEF ReadN0, PollStable, MarkTypes, Marks
  <2>3. SinceG0'
    BY <2>1, <2>2 DEF SinceG0
  <2>4. NothingOverlooked'
    BY <2>1, <2>2 DEF NothingOverlooked, Seen
  <2> QED
    BY <2>1, <2>3, <2>4
<1>5. CASE ReadN1
  <2>1. /\ c = "n1" /\ c' = "restarts" /\ hist' = hist
        /\ dev = "bound" /\ p.received > 0 /\ SinceG0 /\ NothingOverlooked
    BY <1>5, <1>w DEF ReadN1, vars
  <2>2. /\ mark'.r0 = mark.r0 /\ mark'.g0 = mark.g0
        /\ mark'.run0 = mark.run0 /\ mark'.core0 = mark.core0
        /\ mark'.run1 = hist.from /\ mark'.missing = hist.heard
    BY <1>5 DEF ReadN1, MarkTypes, Marks
  <2>3. SinceG0'
    BY <2>1, <2>2 DEF SinceG0
  <2>4. NothingOverlooked'
    BY <2>1, <2>2 DEF NothingOverlooked, Seen
  <2> QED
    BY <2>1, <2>3, <2>4
<1>6. CASE CompareRestarts
  <2>1. /\ c = "restarts" /\ c' \in {"gaps", "failed"} /\ hist' = hist /\ mark' = mark
        /\ dev = "bound" /\ p.received > 0 /\ SinceG0 /\ NothingOverlooked
    BY <1>6, <1>w DEF CompareRestarts, vars
  <2>2. c' = "gaps" => p.restarts = mark.r0
    BY <1>6, <2>1 DEF CompareRestarts, SameRun, Shown, MCKA_SHOW
  <2>3. SinceG0'
    BY <2>1 DEF SinceG0
  <2>4. NothingOverlooked'
    BY <2>1, <2>2 DEF NothingOverlooked, Seen
  <2> QED
    BY <2>1, <2>3, <2>4
<1>7. ~CompareGaps
  BY DEF CompareGaps
<1> QED
  BY <1>2, <1>3, <1>4, <1>5, <1>6, <1>7 DEF Confirm

\* A message that shows neither a restart nor a gap follows the one before it, in the
\* same run; or it is the first of a run, and others of that run were lost.
LEMMA NothingHidden ==
  ASSUME MaxTime < Wrap - 1, TypeOK, InRuns, Ahead, SinceG0, Heard, p.received > 0,
         c \in Watching, c # "r0", p'.gaps = p.gaps, p'.restarts = p.restarts,
         Seen(hist.from, hist.heard)
  PROVE  Seen(core.run, hist.missed)
<1> USE Numbers DEF U32
<1>n. Wrap \in Nat /\ Wrap > 2 /\ MaxTime \in Nat /\ MaxTime < Wrap - 1
  BY McoreKeepaliveAssumption
<1>h. ~core.sent
  BY DEF Heard, Sends
<1>1. core.up >= p.up
  BY DEF Heard
<1>2. core.seq = IF p.seq = Wrap - 1 THEN 0 ELSE p.seq + 1
  <2>1. core.seq = (p.seq + 1) % Wrap
    BY <1>1 DEF Heard
  <2>2. p.seq \in U32
    OBVIOUS
  <2> QED
    BY <2>1, <2>2, Successor
<1>m. hist.from <= core.run /\ hist.from >= 1 /\ mark.run0 \in Nat /\ mark.run0 <= hist.from
  BY DEF InRuns, SinceG0, Watching
<1>3. CASE hist.from = core.run
  <2>1. PICK k \in 0..(now + OfThisTick) :
          /\ hist.missed - hist.heard <= k
          /\ core.seq = p.seq + 1 + k \/ core.seq + Wrap = p.seq + 1 + k
    BY <1>3 DEF Ahead
  <2>2. k \in Nat /\ k < Wrap - 1
    BY <1>h, <1>n, <2>1 DEF OfThisTick
  <2>3. k = 0
    BY <1>2, <1>n, <2>1, <2>2
  <2>4. hist.missed = hist.heard
    BY <2>1, <2>3 DEF InRuns
  <2> QED
    BY <1>3, <2>4
<1>4. CASE hist.from < core.run
  <2>1. core.run # mark.run0
    BY <1>4, <1>m
  <2>2. core.run > mark.core0 /\ hist.missed = 0 => hist.wraps > 0
    <3> SUFFICES ASSUME core.run > mark.core0, hist.missed = 0, hist.wraps = 0 PROVE FALSE
      OBVIOUS
    <3>1. core.seq = 0
      BY <1>4 DEF SinceG0, Watching
    <3>2. p.seq <= p.up /\ core.up <= now
      BY <1>4, <1>m DEF InRuns
    <3> QED
      BY <1>1, <1>2, <1>n, <3>1, <3>2
  <2> QED
    BY <2>1, <2>2 DEF Seen
<1> QED
  BY <1>3, <1>4, <1>m

\* Nor is anything overlooked while the driver, the M core and the clock go on.
LEMMA NextWatch ==
  ASSUME MaxTime < Wrap - 1, TypeOK, InRuns, Ahead, WatchInv, Others \/ CTick
  PROVE  WatchInv'
<1>1. Still \/ Anew \/ Heard \/ Lost \/ Restarted \/ Ticked
  BY SixKinds DEF Others, CTick, Next
<1>m. UNCHANGED <<c, mark>>
  BY DEF Others, CTick, confirm
<1>t. Ticked => c \notin {"g0", "r0"}
  <2>1. Ticked => now' # now
    BY Numbers DEF Ticked
  <2>2. Others => now' = now
    BY DEF Others, Driver, Core, Probe, ProbeArm, Remove, Freed, TimerExpires, TimerRuns,
       Keepalive, KeepaliveLost, BadMessage, CoreRestart, Retune
  <2> QED
    BY <2>1, <2>2 DEF CTick, Verdicts, Loops
<1> SUFFICES ASSUME c \in Watching \cup {"g0"}, ~hist'.unbound
             PROVE  dev' = "bound" /\ p'.received > 0 /\ SinceG0' /\ NothingOverlooked'
  BY <1>m DEF WatchInv
<1>a. dev = "bound" /\ p.received > 0 /\ SinceG0 /\ NothingOverlooked
  <2>1. ~hist.unbound
    BY <1>1 DEF Still, Anew, Heard, Lost, Restarted, Ticked, Sends, Stays
  <2> QED
    BY <2>1 DEF WatchInv
<1> USE <1>m, <1>a, Numbers DEF Watching
<1>2. CASE Still
  <2>1. p'.received = p.received /\ p'.gaps = p.gaps /\ p'.restarts = p.restarts
    BY <1>2 DEF Still, Counters
  <2>2. core'.run = core.run /\ core'.seq = core.seq /\ core'.sent = core.sent
    BY <1>2 DEF Still, Sender
  <2>3. dev' = "bound" /\ UNCHANGED <<hist.wraps, hist.missed, hist.heard, hist.from>>
    BY <1>2 DEF Still, Stays
  <2> QED
    BY <2>1, <2>2, <2>3 DEF SinceG0, NothingOverlooked, Seen
<1>3. ~Anew
  BY DEF Anew
<1>4. CASE Heard
  <2>1. /\ dev' = "bound" /\ p'.received > 0
        /\ hist'.wraps = hist.wraps /\ hist'.missed = hist.missed
        /\ hist'.heard = hist.missed /\ hist'.from = core.run
        /\ core'.run = core.run /\ ~core.sent /\ core'.sent
    BY <1>4 DEF Heard, Sends, Stays
  <2>2. /\ p'.gaps \in {p.gaps, p.gaps + 1} /\ p'.restarts \in {p.restarts, p.restarts + 1}
    BY <1>4 DEF Heard
  <2>3. SinceG0'
    BY <2>1, <2>2 DEF SinceG0, InRuns
  <2>4. CASE c \in {"n0", "stable", "n1"}
    <3>1. ASSUME p'.gaps = mark.g0, p'.restarts = mark.r0 PROVE Seen(core.run, hist.missed)
      <4>1. p'.gaps = p.gaps /\ p'.restarts = p.restarts
        BY <2>2, <2>4, <3>1 DEF SinceG0
      <4>2. Seen(hist.from, hist.heard)
        BY <2>4, <3>1, <4>1 DEF NothingOverlooked
      <4> QED
        BY <1>4, <2>4, <4>1, <4>2, NothingHidden
    <3> QED
      BY <2>1, <2>3, <2>4, <3>1 DEF NothingOverlooked, Seen
  <2>5. CASE c \notin {"n0", "stable", "n1"}
    <3>1. CASE c \in {"restarts", "gaps"}
      <4>1. p'.gaps = mark.g0 => p.gaps = mark.g0
        BY <2>2, <3>1 DEF SinceG0
      <4>2. p'.restarts = mark.r0 => p.restarts = mark.r0
        BY <2>2, <3>1 DEF SinceG0
      <4> QED
        BY <2>1, <2>3, <3>1, <4>1, <4>2 DEF NothingOverlooked, Seen
    <3>2. CASE c \in {"g0", "r0"}
      BY <2>1, <2>3, <3>2 DEF NothingOverlooked
    <3> QED
      BY <2>5, <3>1, <3>2
  <2> QED
    BY <2>1, <2>3, <2>4, <2>5
<1>5. CASE Lost
  <2>1. p'.received = p.received /\ p'.gaps = p.gaps /\ p'.restarts = p.restarts
    BY <1>5 DEF Lost, Counters
  <2>2. core'.run = core.run /\ core'.sent /\ dev' = "bound" /\ hist'.missed = hist.missed + 1
    BY <1>5 DEF Lost, Sends, Stays
  <2>3. UNCHANGED <<hist.wraps, hist.heard, hist.from>>
    BY <1>5 DEF Lost, Sends
  <2> QED
    BY <2>1, <2>2, <2>3 DEF SinceG0, NothingOverlooked, Seen
<1>6. CASE Restarted
  <2>1. p'.received = p.received /\ p'.gaps = p.gaps /\ p'.restarts = p.restarts
    BY <1>6 DEF Restarted, Counters
  <2>2. core'.run = core.run + 1 /\ core'.seq = 0 /\ core'.sent /\ dev' = "bound"
    BY <1>6 DEF Restarted, Stays
  <2>3. UNCHANGED <<hist.wraps, hist.missed, hist.heard, hist.from>>
    BY <1>6 DEF Restarted
  <2> QED
    BY <2>1, <2>2, <2>3 DEF SinceG0, NothingOverlooked, Seen
<1>7. CASE Ticked
  <2>1. p'.received = p.received /\ p'.gaps = p.gaps /\ p'.restarts = p.restarts
    BY <1>7 DEF Ticked, Counters
  <2>2. core'.run = core.run /\ core'.seq = core.seq /\ dev' = "bound" /\ c # "r0"
    BY <1>7, <1>t DEF Ticked, Stays
  <2>3. hist'.wraps \in {hist.wraps, hist.wraps + 1}
    BY <1>7 DEF Ticked
  <2>4. UNCHANGED <<hist.missed, hist.heard, hist.from>>
    BY <1>7 DEF Ticked
  <2> QED
    BY <2>1, <2>2, <2>3, <2>4 DEF SinceG0, NothingOverlooked, Seen
<1> QED
  BY <1>1, <1>2, <1>3, <1>4, <1>5, <1>6, <1>7

\* A watch that is shorter than a wrap of the counters overlooks no restart but one
\* masked by lost keepalives, and no lost keepalive but one masked by a restart
\* (mcore_confirm, mcka_cb).
THEOREM StableIsStable ==
  ASSUME MaxTime < Wrap - 1
  PROVE  CSpec => PassedMeansStable
<1> DEFINE I == DriverInv /\ MarkTypes /\ InRuns /\ Ahead /\ WatchInv
<1>1. CInit => MarkTypes /\ InRuns /\ Ahead /\ WatchInv
  <2> SUFFICES ASSUME CInit PROVE MarkTypes /\ InRuns /\ Ahead /\ WatchInv
    OBVIOUS
  <2>1. MarkTypes
    BY DEF CInit, MarkTypes, Marks
  <2>2. InRuns /\ Ahead
    BY McoreKeepaliveAssumption DEF CInit, Init, InRuns, Ahead, OfThisTick, Fresh
  <2> QED
    BY <2>1, <2>2 DEF CInit, WatchInv, Watching
<1>2. I /\ [CNext]_cvars => MarkTypes' /\ InRuns' /\ Ahead' /\ WatchInv'
  <2> SUFFICES ASSUME I, [CNext]_cvars PROVE MarkTypes' /\ InRuns' /\ Ahead' /\ WatchInv'
    OBVIOUS
  <2>0. TypeOK
    BY DEF DriverInv, KInv
  <2>1. WatchInv'
    <3>1. CASE UNCHANGED cvars
      BY <3>1 DEF cvars, vars, confirm, WatchInv, SinceG0, NothingOverlooked, Seen, Watching
    <3> QED
      BY <2>0, <3>1, ConfirmWatch, NextWatch DEF CNext
  <2> QED
    BY <2>0, <2>1, NextMarks, NextRuns, NextAhead
<1>3. I /\ [CNext]_cvars
        => [c # "passed" /\ c' = "passed" =>
              \/ hist.unbound
              \/ /\ mark.run1 > mark.core0 => mark.missing > 0 \/ hist.wraps > 0
                 /\ mark.missing > 0 => mark.run1 # mark.run0]_cvars
  <2> SUFFICES ASSUME I, CNext, c # "passed", c' = "passed", ~hist.unbound
               PROVE  Seen(mark.run1, mark.missing)
    BY DEF cvars, Seen
  <2>1. CompareGaps
    BY DEF CNext, Confirm, PollWait, ReadG0, ReadR0, ReadN0, PollStable, ReadN1,
       CompareRestarts, Others, CTick, confirm
  <2>2. c = "gaps" /\ dev = "bound" /\ NothingOverlooked
    BY <2>1 DEF CompareGaps, WatchInv, Watching
  <2>3. p.gaps = mark.g0
    BY <2>1, <2>2 DEF CompareGaps, Shown, MCKA_SHOW
  <2> QED
    BY <2>2, <2>3 DEF NothingOverlooked
<1> QED
  BY <1>1, <1>2, <1>3, DriverStays, PTL DEF CSpec, PassedMeansStable
=============================================================================
