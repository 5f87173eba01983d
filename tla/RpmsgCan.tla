------------------------------ MODULE RpmsgCan ------------------------------
(***************************************************************************)
(* The driver rpmsg-can: a SocketCAN device whose controller is the M core. *)
(* Settings, start and stop go to the gateway as messages that a full vring *)
(* drops; the gateway sends frames and reports its CAN state. Open, stop, a  *)
(* restart by hand and the removal of the device hold the RTNL; the restart  *)
(* work and the rpmsg callback do not, so they run between any two writes of  *)
(* those.                                                                  *)
(***************************************************************************)
EXTENDS Naturals, Sequences, FiniteSets

CONSTANTS
  Rates,      (* bitrates                                                   *)
  Modes,      (* "normal", "listen"                                         *)
  VringLen,   (* messages a vring holds                                     *)
  MaxRx,      (* bound: frames on their way to Linux at once                *)
  MaxOpens,   (* bound: times the interface is brought up                   *)
  MaxFaults   (* bound: error states of the bus and restarts of the M core   *)

ASSUME RpmsgCanAssumption ==
  /\ Rates # {} /\ Modes \subseteq {"normal", "listen"} /\ "normal" \in Modes
  /\ VringLen \in Nat \ {0} /\ MaxRx \in Nat /\ MaxOpens \in Nat /\ MaxFaults \in Nat

VARIABLES
  dev,      (* the device: "bound", "leaving" (in remove) or "gone"          *)
  rtnl,     (* what its holder does: nothing ("down", "up"), open ("send",  *)
            (* "set"), stop ("stop", "close"), restart ("again")            *)
  state,    (* priv->can.state                                              *)
  carrier, txq,          (* netif carrier and queue                         *)
  rate, mode, auto,      (* bitrate, ctrlmode, restart-ms > 0               *)
  todo,     (* messages that rpmsg_can_open has still to send               *)
  work,     (* the restart work: "idle", "pending", "running", or "rerun":  *)
            (* running and pending again                                    *)
  toM, toL, (* the vrings: what the gateway, and Linux, will receive        *)
  gw,       (* the gateway: its CAN state, rate and mode                    *)
  hist      (* history, see HistTypes                                       *)

settings == <<rate, mode, auto>>
netdev == <<state, carrier, txq>>
vars == <<dev, rtnl, todo, netdev, settings, work, toM, toL, gw, hist>>

Errors == {"passive", "busoff"}
States == {"active", "stopped"} \cup Errors
Setting == {<<"rate", r>> : r \in Rates} \cup {<<"mode", m>> : m \in Modes}
Control == Setting \cup {<<"start">>, <<"stop">>}
\* A frame of Linux, and one of the gateway
Frame == <<"frame">>
Rx == "frame"

HistTypes ==
  [opens : 0..MaxOpens, faults : 0..MaxFaults,
   dropped : BOOLEAN,  \* a message was dropped since an open found the gateway at rest
   crossed : BOOLEAN]  \* since then a state event or restart crossed a start or stop

\* 500000, whatever was set before
DefaultRate == CHOOSE r \in Rates : TRUE
\* A gateway that has just started, with settings of its own
NewGateways == [state : {"stopped"}, rate : Rates, mode : Modes]

\* rpmsg_can_probe: a fresh candev, whose restart-ms is 0
NewDevice ==
  /\ rtnl = "down" /\ todo = <<>> /\ state = "stopped" /\ carrier = FALSE /\ txq = FALSE
  /\ rate = DefaultRate /\ mode = "normal" /\ auto = FALSE /\ work = "idle"

Init ==
  /\ dev = "bound" /\ NewDevice
  /\ toM = <<>> /\ toL = <<>> /\ gw \in NewGateways
  /\ hist = [opens |-> 0, faults |-> 0, dropped |-> FALSE, crossed |-> FALSE]
-----------------------------------------------------------------------------
(* Messages of Linux.                                                       *)

Full(q) == Len(q) = VringLen
\* rpmsg_trysend
Sent(q, m) == IF Full(q) THEN q ELSE Append(q, m)

EventUnderWay == \E k \in 1..Len(toL) : toL[k] # Rx

\* Nobody looks at the result. A state event that is under way crosses the message.
CtrlSend(h, m) ==
  /\ toM' = Sent(toM, m)
  /\ hist' = [h EXCEPT !.dropped = @ \/ Full(toM),
                       !.crossed = @ \/ EventUnderWay]

\* Bug: the gateway is started before it has its settings
OpenStartFirst == <<<<"start">>, <<"rate", rate>>, <<"mode", mode>>>>
OpenMessages == <<<<"rate", rate>>, <<"mode", mode>>, <<"start">>>>
-----------------------------------------------------------------------------
(* ip link, under the RTNL.                                                 *)

Configure ==
  /\ dev = "bound" /\ rtnl = "down" /\ rate' \in Rates /\ mode' \in Modes /\ auto' \in BOOLEAN
  /\ UNCHANGED <<dev, rtnl, todo, netdev, work, toM, toL, gw, hist>>

\* The gateway has stopped and has nothing to read
AtRest == gw.state = "stopped" /\ toM = <<>>

\* open_candev
Open ==
  /\ dev = "bound" /\ rtnl = "down" /\ rtnl' = "send" /\ hist.opens < MaxOpens
  /\ carrier' = TRUE /\ todo' = OpenMessages
  /\ hist' = [hist EXCEPT !.opens = @ + 1,
                          !.dropped = @ /\ ~AtRest,
                          !.crossed = (@ /\ ~AtRest) \/ EventUnderWay \/ work # "idle"]
  /\ UNCHANGED <<dev, state, txq, settings, work, toM, toL, gw>>

OpenSend ==
  /\ rtnl = "send" /\ todo' = Tail(todo)
  /\ rtnl' = IF todo' = <<>> THEN "set" ELSE "send"
  /\ CtrlSend(hist, Head(todo))
  /\ UNCHANGED <<dev, netdev, settings, work, toL, gw>>

OpenSet ==
  /\ rtnl = "set" /\ rtnl' = "up" /\ state' = "active" /\ txq' = TRUE
  /\ UNCHANGED <<dev, todo, carrier, settings, work, toM, toL, gw, hist>>

\* Bug: the gateway is told to start
StopByStart == <<"start">>
StopMessage == <<"stop">>

StopSend ==
  /\ rtnl = "up" /\ rtnl' = "stop" /\ txq' = FALSE
  /\ CtrlSend([hist EXCEPT !.crossed = @ \/ work # "idle"], StopMessage)
  /\ UNCHANGED <<dev, todo, state, carrier, settings, work, toL, gw>>

Stop == dev = "bound" /\ StopSend

StopSet ==
  /\ rtnl = "stop" /\ rtnl' = "close" /\ state' = "stopped"
  /\ UNCHANGED <<dev, todo, carrier, txq, settings, work, toM, toL, gw, hist>>

\* close_candev: cancel_delayed_work_sync
StopClose ==
  /\ rtnl = "close" /\ rtnl' = "down" /\ work \in {"idle", "pending"} /\ work' = "idle"
  /\ UNCHANGED <<dev, todo, netdev, settings, toM, toL, gw, hist>>

\* ip link set ... type can restart
MayRestart == ~auto /\ state = "busoff"

Restart ==
  /\ dev = "bound" /\ rtnl = "up" /\ MayRestart /\ rtnl' = "again" /\ carrier' = TRUE
  /\ CtrlSend(hist, <<"start">>)
  /\ UNCHANGED <<dev, todo, state, txq, settings, work, toL, gw>>

\* Bug: rpmsg_can_set_mode leaves the state
StateKept == state
StateAfterStart == "active"

RestartSet ==
  /\ rtnl = "again" /\ rtnl' = "up" /\ state' = StateAfterStart /\ txq' = TRUE
  /\ UNCHANGED <<dev, todo, carrier, settings, work, toM, toL, gw, hist>>
-----------------------------------------------------------------------------
(* The M core is restarted: the channel goes, and comes back when the new    *)
(* gateway has announced it.                                                *)

\* rpmsg_can_remove: unregister_candev takes the interface down first
Remove ==
  /\ dev = "bound" /\ rtnl \in {"up", "down"} /\ hist.faults < MaxFaults
  /\ dev' = "leaving" /\ hist' = [hist EXCEPT !.faults = @ + 1]
  /\ UNCHANGED <<rtnl, todo, netdev, settings, work, toM, toL, gw>>

RemoveStop == dev = "leaving" /\ StopSend

\* free_candev, and the end of the endpoint, its vrings and the gateway. A restart that
\* an event has scheduled since close_candev is left behind.
Free ==
  /\ dev = "leaving" /\ rtnl = "down" /\ dev' = "gone"
  /\ toM' = <<>> /\ toL' = <<>> /\ gw' = [gw EXCEPT !.state = "stopped"]
  /\ UNCHANGED <<rtnl, todo, netdev, settings, work, hist>>

Probe ==
  /\ dev = "gone" /\ dev' = "bound" /\ state' = "stopped" /\ carrier' = FALSE
  /\ rate' = DefaultRate /\ mode' = "normal" /\ auto' = FALSE /\ work' = "idle"
  /\ gw' \in NewGateways
  /\ hist' = [hist EXCEPT !.dropped = FALSE, !.crossed = FALSE]
  /\ UNCHANGED <<rtnl, todo, txq, toM, toL>>
-----------------------------------------------------------------------------
(* The restart work, frames, and the callback.                              *)

Work ==
  /\ dev # "gone" /\ work = "pending" /\ work' = "running" /\ carrier' = TRUE
  /\ CtrlSend([hist EXCEPT !.crossed = @ \/ rtnl # "up"], <<"start">>)
  /\ UNCHANGED <<dev, todo, rtnl, state, txq, settings, toL, gw>>

WorkSet ==
  /\ \/ work = "running" /\ work' = "idle"
     \/ work = "rerun" /\ work' = "pending"
  /\ state' = StateAfterStart /\ txq' = TRUE
  /\ UNCHANGED <<dev, todo, rtnl, carrier, settings, toM, toL, gw, hist>>

\* rpmsg_can_xmit, which drops a frame when the vring is full. can_dropped_invalid_skb
\* lets a frame pass in listen-only mode too
Xmit ==
  /\ rtnl \in {"up", "again"} /\ carrier /\ txq
  /\ toM' = Sent(toM, Frame)
  /\ UNCHANGED <<dev, todo, rtnl, netdev, settings, work, toL, gw, hist>>

\* To the sockets; dropped if the interface is down or without memory. Nothing depends
\* on which.
RxFrame ==
  /\ toL # <<>> /\ Head(toL) = Rx /\ toL' = Tail(toL)
  /\ UNCHANGED <<dev, todo, rtnl, netdev, settings, work, toM, gw, hist>>

\* rpmsg_can_rx_ctrl
RxState ==
  /\ toL # <<>> /\ Head(toL) # Rx /\ toL' = Tail(toL)
  /\ state' = Head(toL)
  /\ IF state # "busoff" /\ Head(toL) = "busoff"
     THEN /\ carrier' = FALSE
          /\ work' = IF ~auto THEN work
                     ELSE IF work \in {"idle", "pending"} THEN "pending" ELSE "rerun"
     ELSE UNCHANGED <<carrier, work>>
  /\ hist' = [hist EXCEPT !.crossed = @ \/ rtnl # "up" \/ work # "idle"
                                        \/ \E k \in 1..Len(toM) : toM[k] # Frame]
  /\ UNCHANGED <<dev, todo, rtnl, txq, settings, toM, gw>>

\* At any time from probe to remove; the length tells frames and events apart
rpmsg_can_cb == RxFrame \/ RxState
-----------------------------------------------------------------------------
(* The gateway, which is not in this repository.                            *)

\* It reports a state, unless the vring is full
Report(s) ==
  IF s = gw.state THEN UNCHANGED toL ELSE toL' = Sent(toL, s)

GwReceive ==
  /\ toM # <<>> /\ toM' = Tail(toM)
  /\ LET m == Head(toM)
     IN \/ m \in Setting /\ gw' = [gw EXCEPT ![m[1]] = m[2]] /\ UNCHANGED toL
        \/ m = <<"start">> /\ gw' = [gw EXCEPT !.state = "active"] /\ Report("active")
        \/ m = <<"stop">> /\ gw' = [gw EXCEPT !.state = "stopped"] /\ UNCHANGED toL
        \/ m = Frame /\ UNCHANGED <<toL, gw>>
  /\ hist' = [hist EXCEPT !.dropped = @ \/ (Head(toM) = <<"start">> /\ Full(toL))]
  /\ UNCHANGED <<dev, rtnl, todo, netdev, settings, work>>

FramesToLinux == {k \in 1..Len(toL) : toL[k] = Rx}
\* A frame from the bus, as long as there is room
GwFrame ==
  /\ dev # "gone" /\ gw.state \in {"active", "passive"} /\ Cardinality(FramesToLinux) < MaxRx
  /\ toL' = Sent(toL, Rx)
  /\ UNCHANGED <<dev, rtnl, todo, netdev, settings, work, toM, gw, hist>>

\* The bus gets worse; bus-off ends by a start only. The report may not get through.
BusError ==
  /\ gw.state \in {"active", "passive"} /\ hist.faults < MaxFaults
  /\ \E s \in Errors \ {gw.state} : gw' = [gw EXCEPT !.state = s] /\ Report(s)
  /\ hist' = [hist EXCEPT !.faults = @ + 1,
                          !.dropped = @ \/ Full(toL),
                          !.crossed = @ \/ rtnl # "up"
                                        \/ \E k \in 1..Len(toM) : toM[k] # Frame]
  /\ UNCHANGED <<dev, todo, rtnl, netdev, settings, work, toM>>

Admin == Configure \/ Open \/ Stop \/ Restart
RtnlHolder == OpenSend \/ OpenSet \/ StopSet \/ StopClose \/ RestartSet \/ RemoveStop \/ Free
Binding == Remove \/ Probe
Worker == Work \/ WorkSet
Gateway == GwReceive \/ GwFrame \/ BusError

Next == Admin \/ RtnlHolder \/ Binding \/ Worker \/ Xmit \/ rpmsg_can_cb \/ Gateway

Spec == Init /\ [][Next]_vars

\* Whoever holds the RTNL goes on, works and messages get their turn
FairSpec ==
  Spec /\ WF_vars(RtnlHolder) /\ WF_vars(Worker) /\ WF_vars(rpmsg_can_cb) /\ WF_vars(GwReceive)
-----------------------------------------------------------------------------
(* Properties.                                                              *)

\* Every variable has its type.
TypeOK ==
  /\ dev \in {"bound", "leaving", "gone"}
  /\ rtnl \in {"down", "send", "set", "up", "stop", "close", "again"}
  /\ state \in States /\ carrier \in BOOLEAN /\ txq \in BOOLEAN
  /\ rate \in Rates /\ mode \in Modes /\ auto \in BOOLEAN
  /\ work \in {"idle", "pending", "running", "rerun"}
  /\ todo \in Seq(Control)
  /\ toM \in Seq(Control \cup {Frame}) /\ Len(toM) <= VringLen
  /\ toL \in Seq(States \cup {Rx}) /\ Len(toL) <= VringLen
  /\ gw \in [state : States, rate : Rates, mode : Modes]
  /\ hist \in HistTypes

\* Nothing is under way
Settled == dev = "bound" /\ rtnl \in {"up", "down"} /\ work = "idle" /\ toM = <<>> /\ toL = <<>>

\* Once everything has arrived, the gateway runs exactly if the interface is up, with
\* the settings of the interface and in the state it shows: unless a message was
\* dropped or an event or a restart crossed a start or stop since an open last found
\* the gateway at rest.
BothEndsAgree ==
  Settled /\ ~hist.dropped /\ ~hist.crossed =>
    IF rtnl = "down" THEN gw.state = "stopped"
    ELSE gw.state = state /\ gw.rate = rate /\ gw.mode = mode

\* While the interface is up the gateway never runs without its settings, unless a
\* message was dropped or the gateway has still to read the stop before; where events
\* or restarts cross, once it has read all that was sent.
RunsAsConfigured ==
  /\ dev = "bound" /\ rtnl = "up" /\ ~hist.dropped /\ gw.state # "stopped"
  /\ toM = <<>> \/ (~hist.crossed /\ \A k \in 1..Len(toM) : toM[k] # <<"stop">>)
  => gw.rate = rate /\ gw.mode = mode

\* With restart-ms, an interface that goes bus-off and stays up is started again.
BusOffEnds == (rtnl = "up" /\ auto /\ state = "busoff") ~> (state # "busoff" \/ rtnl # "up")
=============================================================================
