--------------------------- MODULE McoreKeepalive ---------------------------
(***************************************************************************)
(* The kernel module mcore-keepalive: it greets the M core when the rpmsg   *)
(* channel is bound, counts the keepalives, and a timer reports that they   *)
(* have stopped. Message callback, timer, probe, remove and the parameter   *)
(* timeout_ms act on different CPUs; what runs under the spinlock is one    *)
(* step. One tick is one second, the period of the keepalive.               *)
(***************************************************************************)
EXTENDS Integers

CONSTANTS
  Timeouts,   (* values of timeout_ms, in ticks                            *)
  Default,    (* the one it starts with                                    *)
  Wrap,       (* seq and uptime_ms count modulo it: 2^32 on the board      *)
  BootTime,   (* ticks from a restart of the M core to its first keepalive *)
  MaxTime,    (* bound: ticks                                              *)
  MaxUpsets   (* bound: lost and bad messages, restarts, rebinds, retunes  *)

ASSUME McoreKeepaliveAssumption ==
  /\ Timeouts \subseteq Nat \ {0} /\ Default \in Timeouts
  /\ Wrap \in Nat /\ Wrap > 2 /\ BootTime \in Nat \ {0}
  /\ MaxTime \in Nat /\ MaxUpsets \in Nat

VARIABLES
  dev,      (* "none", "probing", "bound", "removing"                      *)
  p,        (* the driver's struct mcka_priv, of the latest device         *)
  quiet,    (* ticks since last_rx, while alive                            *)
  since,    (* ticks since bound, while probing                            *)
  due,      (* ticks until the timer expires, or Off                       *)
  fired,    (* it has expired and mcka_timeout, which has read this         *)
            (* timeout_ms, is about to take the lock; or Off                *)
  timeout,  (* the module parameter                                        *)
  core,     (* the M core: uptime, next seq, boot ticks left, whether it knows *)
            (* where to send, whether it has sent in this tick, its runs   *)
  now,      (* ticks so far                                                *)
  hist      (* history, see HistTypes                                      *)

vars == <<dev, p, quiet, since, due, fired, timeout, core, now, hist>>

Off == -1
U32 == 0 .. Wrap - 1

Privs ==
  [state : {"waiting", "alive", "lost"}, warned : BOOLEAN, seq : U32, up : U32,
   received : Nat, gaps : Nat, restarts : Nat, bad : Nat]

Cores ==
  [up : U32, seq : U32, booting : 0..BootTime, knows : BOOLEAN, sent : BOOLEAN, run : Nat]

HistTypes ==
  [upsets : 0..MaxUpsets,
   unbound : BOOLEAN,  \* removed since confirm saw it alive
   wraps : Nat,        \* how often uptime_ms has wrapped
   stale : BOOLEAN,    \* the timer is not set by the last message and timeout
   late : BOOLEAN,     \* a message came after remove had deleted the timer
   dangling : BOOLEAN, \* the device was freed with its timer armed
   smooth : BOOLEAN,   \* bound at once, a keepalive in every tick, no upset
   missed : Nat,       \* keepalives lost since confirm began to count,
   heard : Nat,        \* of those, sent before the last one received
   from : Nat]         \* the run of the M core that sent the last one received

Fresh == [state |-> "waiting", warned |-> FALSE, seq |-> 0, up |-> 0,
          received |-> 0, gaps |-> 0, restarts |-> 0, bad |-> 0]

\* The M core was released before Linux; a long-running one is near the wrap
Init ==
  /\ dev = "none" /\ p = Fresh /\ quiet = 0 /\ since = 0 /\ due = Off
  /\ fired = Off /\ timeout = Default /\ now = 0
  /\ \E n \in {0, Wrap - 2} :
       core = [up |-> n, seq |-> n, booting |-> 0, knows |-> FALSE,
               sent |-> FALSE, run |-> 1]
  /\ hist = [upsets |-> 0, unbound |-> FALSE, wraps |-> 0, stale |-> FALSE, late |-> FALSE,
             dangling |-> FALSE, smooth |-> TRUE, missed |-> 0,
             heard |-> 0, from |-> 1]

\* Something goes wrong
Upset(h) ==
  /\ hist.upsets < MaxUpsets
  /\ hist' = [h EXCEPT !.upsets = hist.upsets + 1, !.smooth = FALSE]
-----------------------------------------------------------------------------
(* mcka_probe and mcka_remove.                                              *)

\* The callback may run from here on. rpmsg_send of "hi" may fail, which is logged
Probe ==
  /\ dev = "none" /\ dev' = "probing" /\ p' = Fresh /\ since' = 0
  /\ \/ core' = [core EXCEPT !.knows = @ \/ core.booting = 0] /\ UNCHANGED hist
     \/ Upset(hist) /\ UNCHANGED core
  /\ UNCHANGED <<quiet, due, fired, timeout, now>>

\* What is left of the timeout after n ticks
Left(n) == IF n < timeout THEN timeout - n ELSE 0

ProbeArm ==
  /\ dev = "probing" /\ dev' = "bound"
  /\ due' = Left(since)
  /\ hist' = [hist EXCEPT !.stale = @ \/ (p.received > 0 /\ quiet < since)]
  /\ UNCHANGED <<p, quiet, since, fired, timeout, core, now>>

\* timer_delete_sync, which waits for a callback that runs
DeleteTimer == Off

Remove ==
  /\ dev = "bound" /\ fired = Off /\ dev' = "removing"
  /\ due' = DeleteTimer
  /\ Upset([hist EXCEPT !.late = FALSE, !.dangling = FALSE, !.unbound = TRUE])
  /\ UNCHANGED <<p, quiet, since, fired, timeout, core, now>>

\* The rpmsg core destroys the endpoint and frees what probe allocated
Freed ==
  /\ dev = "removing" /\ dev' = "none"
  /\ hist' = [hist EXCEPT !.dangling = due # Off \/ fired # Off]
  /\ due' = Off /\ fired' = Off
  /\ UNCHANGED <<p, quiet, since, timeout, core, now>>

\* Bug: the message count decides, in arithmetic that does not wrap
SeqNoWrap(seq) == seq # p.seq + 1
SeqGap(seq) == seq # (p.seq + 1) % Wrap

\* Bug: a message leaves the timer as it is
RearmNothing == due
\* mod_timer after a message
Rearm == timeout

\* mcka_cb with a keepalive (up, seq)
Receive(up, seq) ==
  /\ p' = [p EXCEPT
       !.restarts = IF p.received > 0 /\ up < p.up THEN @ + 1 ELSE @,
       !.gaps = IF p.received > 0 /\ up >= p.up /\ SeqGap(seq) THEN @ + 1 ELSE @,
       !.seq = seq, !.up = up, !.received = @ + 1, !.state = "alive"]
  /\ quiet' = 0 /\ due' = Rearm

\* The M core sends its keepalive of this tick, and it arrives if there is a
\* device to receive it
Keepalive ==
  /\ core.knows /\ ~core.sent
  /\ core' = [core EXCEPT !.sent = TRUE, !.seq = (@ + 1) % Wrap]
  /\ IF dev = "none"
     THEN UNCHANGED <<p, quiet, due, hist>>
     ELSE /\ Receive(core.up, core.seq)
          /\ hist' = [hist EXCEPT !.stale = FALSE, !.late = @ \/ dev = "removing",
                                   !.heard = hist.missed, !.from = core.run]
  /\ UNCHANGED <<dev, since, fired, timeout, now>>

\* The vring is full
KeepaliveLost ==
  /\ core.knows /\ ~core.sent
  /\ core' = [core EXCEPT !.sent = TRUE, !.seq = (@ + 1) % Wrap]
  /\ Upset([hist EXCEPT !.missed = @ + 1])
  /\ UNCHANGED <<dev, p, quiet, since, due, fired, timeout, now>>

\* mcka_cb with a message of another form
BadMessage ==
  /\ dev # "none" /\ core.knows /\ p' = [p EXCEPT !.bad = @ + 1] /\ Upset(hist)
  /\ UNCHANGED <<dev, quiet, since, due, fired, timeout, core, now>>

\* The M core restarts alone. It may have kept the address of Linux.
CoreRestart ==
  /\ \E k \in {FALSE, core.knows} :
       core' = [core EXCEPT !.up = 0, !.seq = 0, !.booting = BootTime, !.knows = k,
                            !.sent = TRUE, !.run = @ + 1]
  /\ Upset(hist)
  /\ UNCHANGED <<dev, p, quiet, since, due, fired, timeout, now>>

\* Somebody writes /sys/module/mcore_keepalive/parameters/timeout_ms
Retune ==
  /\ timeout' \in Timeouts \ {timeout}
  /\ Upset([hist EXCEPT !.stale = due # Off \/ p.state = "alive"])
  /\ UNCHANGED <<dev, p, quiet, since, due, fired, core, now>>
-----------------------------------------------------------------------------
(* The timer.                                                               *)

TimerExpires ==
  /\ due = 0 /\ due' = Off /\ fired' = timeout
  /\ UNCHANGED <<dev, p, quiet, since, timeout, core, now, hist>>

\* Bug: an expiry that a message has overtaken counts
OverdueAlways == TRUE
Overdue == quiet >= fired

\* mcka_timeout
TimerRuns ==
  /\ fired # Off /\ fired' = Off
  /\ p' = IF p.state = "alive"
          THEN IF Overdue THEN [p EXCEPT !.state = "lost"] ELSE p
          ELSE IF p.state = "waiting" THEN [p EXCEPT !.warned = TRUE] ELSE p
  /\ UNCHANGED <<dev, quiet, since, due, timeout, core, now, hist>>

\* A second passes; timers are not late by one
Tick ==
  /\ now < MaxTime /\ now' = now + 1
  /\ due # 0 /\ fired = Off
  /\ due' = IF due = Off THEN Off ELSE due - 1
  /\ quiet' = IF p.state = "alive" THEN quiet + 1 ELSE quiet
  /\ since' = IF dev = "probing" THEN since + 1 ELSE 0
  /\ core' = [core EXCEPT !.up = (@ + 1) % Wrap,
                           !.booting = IF @ > 0 THEN @ - 1 ELSE 0,
                           !.sent = @ /\ core.booting > 1]
  /\ hist' = [hist EXCEPT !.smooth = @ /\ dev = "bound" /\ core.sent,
                          !.wraps = IF core.up = Wrap - 1 THEN @ + 1 ELSE @]
  /\ UNCHANGED <<dev, p, fired, timeout>>

\* A read of one file under /sys, under the spinlock
MCKA_SHOW(f) == p[f]

Driver == Probe \/ ProbeArm \/ Remove \/ Freed \/ TimerExpires \/ TimerRuns
Core == Keepalive \/ KeepaliveLost \/ BadMessage \/ CoreRestart

Next == Driver \/ Core \/ Retune \/ Tick

Spec == Init /\ [][Next]_vars
-----------------------------------------------------------------------------
(* Properties.                                                              *)

\* Every variable has its type.
TypeOK ==
  /\ dev \in {"none", "probing", "bound", "removing"}
  /\ p \in Privs
  /\ quiet \in Nat /\ since \in Nat /\ due \in Nat \cup {Off} /\ fired \in Timeouts \cup {Off}
  /\ timeout \in Timeouts /\ now \in 0..MaxTime /\ hist \in HistTypes
  /\ core \in Cores

\* No silence outlasts timeout_ms with the state still alive.
SilenceReported == dev = "bound" /\ p.state = "alive" => quiet <= timeout

\* The same, unless the timer was set by something else than the last message:
\* by a probe that was overtaken by it, or under another timeout_ms.
SilenceReportedInTime == ~hist.stale => SilenceReported

\* Nobody reports a loss within timeout_ms of a message, not even an expiry that
\* raced with it, as long as nobody changes timeout_ms meanwhile.
NoFalseAlarm ==
  [][p.state = "alive" /\ p'.state = "lost" => hist.stale \/ quiet >= timeout]_vars

\* No timer is armed when the device is freed, unless a message comes after
\* remove has deleted the timer and before the endpoint is gone.
NoDanglingTimer == hist.dangling => hist.late

\* seq_gaps and restarts count only what happened: a lost keepalive, an M core
\* that restarted, or its uptime_ms wrapping, and nothing else however long it runs.
CountsAreReal == hist.upsets = 0 => p.gaps = 0 /\ p.restarts <= hist.wraps
=============================================================================
