------------------------------ MODULE Display ------------------------------
(***************************************************************************)
(* What is on the panel from the SPL's logo to the GUI: weston with         *)
(* kiosk-shell, its clients splash-wl, wl-image-view and the GUI kmm         *)
(* (external), and the systemd units that start them all at once and respawn *)
(* those that fail. Weston and systemd are external but for the patch of     *)
(* kiosk-shell, which is for weston 12, and the unit files.                  *)
(***************************************************************************)
EXTENDS DrmOutput, Sequences, SequencesExt

CONSTANT MaxFaults   (* bound: deaths and restarts of weston and kmm         *)

ASSUME DisplayAssumption == MaxFaults \in Nat

VARIABLES
  weston,   (* "off", "starting", "up"                                      *)
  output,   (* its repaint loop: painted (frame committed last), awaiting    *)
            (* (an event), modeset (its next commit needs one)              *)
  seat,     (* libinput has found a seat                                    *)
  layer,    (* views on the normal layer, the front one first               *)
  client,   (* st, and whether its connection is that of the weston that runs *)
  hist      (* history, see DisplayInit                                     *)

westonVars == <<weston, output, seat, layer>>
dvars == <<drmVars, westonVars, client, hist>>

Clients == {"splash", "view", "kmm"}
Units == {"splash", "kmm"}

NewOutput == [painted |-> "none", awaiting |-> FALSE, modeset |-> TRUE]
To(c, st) == [client EXCEPT ![c].st = st]

\* All units are started at once; wl-image-view is started by hand
DisplayInit ==
  /\ DrmInit
  /\ weston = "starting" /\ output = NewOutput /\ seat = FALSE /\ layer = <<>>
  /\ client = [c \in Clients |-> [st |-> IF c \in Units THEN "connect" ELSE "off", live |-> FALSE]]
  /\ hist = [faults |-> 0,
             stopped |-> FALSE,    \* somebody has stopped weston, and kmm with it
             died |-> FALSE,       \* weston has died and has not been up again
             covers |-> FALSE]     \* splash-wl has shown its logo when the GUI was there

Fault(h) == hist.faults < MaxFaults /\ hist' = [h EXCEPT !.faults = hist.faults + 1]
-----------------------------------------------------------------------------
(* kiosk-shell.                                                             *)

Foremost == IF layer = <<>> THEN "background" ELSE Head(layer)

\* Bug: without a seat nobody puts the view on a layer (weston 12 as it is)
MapWithSeat(c) == IF seat THEN <<c>> \o layer ELSE layer
\* A surface gets its first frame: with a seat it is activated, which raises it,
\* and without one it is put on the layer by hand
MapView(c) == <<c>> \o layer

\* Bug: it gives the focus to the view at the other end
RaiseLast(views) == <<Last(views)>> \o Front(views)
\* The topmost view gets the focus, which raises it
RaiseTop(views) == <<Head(views)>> \o Tail(views)

SeatCreated ==
  /\ weston # "off" /\ ~seat /\ seat' = TRUE
  /\ layer' = IF layer = <<>> THEN layer ELSE RaiseTop(layer)
  /\ UNCHANGED <<drmVars, weston, output, client, hist>>

Unmap(c) == layer' = RemoveFirst(layer, c)
-----------------------------------------------------------------------------
(* Weston.                                                                  *)

WestonUp ==
  /\ weston = "starting" /\ weston' = "up" /\ hist' = [hist EXCEPT !.died = FALSE]
  /\ UNCHANGED <<drmVars, output, seat, layer, client>>

Lost(cs) == [c \in Clients |-> [cs[c] EXCEPT !.live = FALSE]]

\* Whoever was connected finds out later
WestonGone ==
  /\ output' = NewOutput /\ seat' = FALSE /\ layer' = <<>>
  /\ drm' = Closed /\ shim' = [shim EXCEPT !.first_done = FALSE]
  /\ UNCHANGED <<iv, errors>>

WestonDies ==
  /\ weston # "off" /\ weston' = "off" /\ WestonGone
  /\ client' = Lost(client) /\ Fault([hist EXCEPT !.died = TRUE])

\* Both units start again: PartOf and Requires pass a restart on
PartOfWeston(cs) ==
  [c \in Clients |-> IF c \in Units THEN [st |-> "connect", live |-> FALSE] ELSE Lost(cs)[c]]

RestartWeston ==
  /\ weston = "up" /\ weston' = "starting" /\ WestonGone
  /\ client' = PartOfWeston(client) /\ Fault(hist)

\* systemctl stop weston, to run drm-image-view
StopWeston ==
  /\ weston = "up" /\ weston' = "off" /\ WestonGone
  /\ client' = [Lost(client) EXCEPT !["splash"].st = "dead", !["kmm"].st = "dead"]
  /\ Fault([hist EXCEPT !.stopped = TRUE])

\* The repaint loop: one commit, then its event. A refused commit is tried again.
Repaint ==
  /\ weston = "up" /\ ~output.awaiting /\ output.painted # Foremost
  /\ \E failed \in BOOLEAN :
       /\ Commit(Foremost, output.modeset, failed)
       /\ output' = IF failed THEN output
                    ELSE [painted |-> Foremost, awaiting |-> TRUE, modeset |-> FALSE]
  /\ UNCHANGED <<iv, weston, seat, layer, client, hist>>

Presented ==
  /\ weston = "up" /\ drm.events > 0
  /\ drm' = ReadEvents(drm) /\ output' = [output EXCEPT !.awaiting = FALSE]
  /\ UNCHANGED <<shim, iv, errors, weston, seat, layer, client, hist>>
-----------------------------------------------------------------------------
(* splash-wl and wl-image-view.                                             *)

\* What systemd does with a unit that ends: Restart=on-failure
Failed(c) == IF c \in Units THEN "respawn" ELSE "off"
Done(c) == IF c \in Units THEN "dead" ELSE "off"

\* wl_display_connect finds the socket within 1000 tries, 10 ms apart; or the tries
\* are over. A start of weston takes less, unless it began late.
Connect(c) ==
  /\ client[c].st = "connect"
  /\ \/ weston = "up" /\ client' = [client EXCEPT ![c] = [st |-> "bind", live |-> TRUE]]
     \/ /\ weston # "up" /\ (weston = "off" \/ hist.died)
        /\ client' = To(c, Failed(c))
  /\ UNCHANGED <<drmVars, westonVars, hist>>

\* The next step needs the connection, or it ends the program
NeedsWeston(c, st, next) ==
  /\ client[c].st = st /\ client' = To(c, IF client[c].live THEN next ELSE Failed(c))
  /\ UNCHANGED <<drmVars, westonVars, hist>>

GuiThere == client["kmm"].st = "resident" /\ client["kmm"].live

\* The picture is committed, and nobody notices if weston is gone
Commits(c, st) ==
  /\ client[c].st = st /\ client' = To(c, "resident")
  /\ IF client[c].live
     THEN /\ layer' = MapView(c)
          /\ hist' = [hist EXCEPT !.covers = IF c = "splash" THEN GuiThere ELSE @]
     ELSE UNCHANGED <<layer, hist>>
  /\ UNCHANGED <<drmVars, weston, output, seat>>

\* dispatch fails: exit 0, which systemd takes for success
Resident(c) ==
  /\ client[c].st = "resident" /\ ~client[c].live
  /\ client' = To(c, Done(c))
  /\ UNCHANGED <<drmVars, westonVars, hist>>

SplashConnect == Connect("splash")
\* The globals, a fullscreen toplevel, and the commit that asks for its size
SplashBind == NeedsWeston("splash", "bind", "wait")
\* dispatch until the first configure
SplashConfigured == NeedsWeston("splash", "wait", "draw")
\* A buffer of that size, the logo, and the commit
SplashShow == Commits("splash", "draw")
SplashResident == Resident("splash")

Splash == SplashConnect \/ SplashBind \/ SplashConfigured \/ SplashShow \/ SplashResident

\* By hand; a file that is not there, or too short, ends it
ViewStart ==
  /\ client["view"].st = "off" /\ client' = To("view", "connect")
  /\ UNCHANGED <<drmVars, westonVars, hist>>

ViewConnect == Connect("view")
ViewBind == NeedsWeston("view", "bind", "wait")
ViewConfigured == NeedsWeston("view", "wait", "draw")

\* The picture is in its buffer; --delay-ms sleeps before the commit
ViewDraw ==
  /\ client["view"].st = "draw" /\ client' = To("view", "delay")
  /\ UNCHANGED <<drmVars, westonVars, hist>>

ViewShow == Commits("view", "delay")
ViewResident == Resident("view")

ViewKill ==
  /\ client["view"].st = "resident" /\ client["view"].live
  /\ client' = To("view", "off") /\ Unmap("view")
  /\ UNCHANGED <<drmVars, weston, output, seat, hist>>

View == ViewConnect \/ ViewBind \/ ViewConfigured \/ ViewDraw \/ ViewShow \/ ViewResident
-----------------------------------------------------------------------------
(* Units: RestartSec is over. The GUI pulls weston up, splash-wl does not.   *)

\* Bug: the GUI unit does not require weston
StartsNothing == weston
StartsWeston == IF weston = "off" THEN "starting" ELSE weston

RespawnSplash ==
  /\ client["splash"].st = "respawn" /\ client' = To("splash", "connect")
  /\ UNCHANGED <<drmVars, westonVars, hist>>

RespawnKmm ==
  /\ client["kmm"].st = "respawn" /\ iv.pc = "off" /\ client' = To("kmm", "connect")
  /\ weston' = StartsWeston
  /\ UNCHANGED <<drmVars, output, seat, layer, hist>>

\* The operator who has stopped weston starts it with its units
StartAgain ==
  /\ hist.stopped /\ weston = "off" /\ iv.pc = "off" /\ weston' = "starting"
  /\ client' = PartOfWeston(client)
  /\ hist' = [hist EXCEPT !.stopped = FALSE]
  /\ UNCHANGED <<drmVars, output, seat, layer>>

\* The GUI waits for the socket; nothing orders its first frame and the logo
KmmShown ==
  /\ client["kmm"].st = "connect" /\ weston = "up"
  /\ client' = [client EXCEPT !["kmm"] = [st |-> "resident", live |-> TRUE]]
  /\ layer' = MapView("kmm") /\ hist' = [hist EXCEPT !.covers = FALSE]
  /\ UNCHANGED <<drmVars, weston, output, seat>>

\* It loses weston, or TimeoutStartSec is over without it
KmmFails ==
  /\ \/ client["kmm"].st = "resident" /\ ~client["kmm"].live
     \/ client["kmm"].st = "connect" /\ weston = "off"
  /\ client' = To("kmm", "respawn")
  /\ UNCHANGED <<drmVars, westonVars, hist>>

KmmDies ==
  /\ client["kmm"].st = "resident" /\ client["kmm"].live
  /\ client' = To("kmm", "respawn") /\ Unmap("kmm") /\ Fault(hist)
  /\ UNCHANGED <<drmVars, weston, output, seat>>
-----------------------------------------------------------------------------
DrmImageView ==
  /\ IvLoop \/ IvTimeout \/ IvKill \/ (IvStart /\ weston = "off" /\ hist.stopped)
  /\ UNCHANGED <<westonVars, client, hist>>

PanelVblank == Vblank /\ UNCHANGED <<westonVars, client, hist>>

Weston == WestonUp \/ SeatCreated \/ Repaint \/ Presented
Systemd == RespawnSplash \/ RespawnKmm
Kmm == KmmShown \/ KmmFails
Upsets == WestonDies \/ RestartWeston \/ StopWeston \/ StartAgain \/ KmmDies \/ ViewStart \/ ViewKill

DisplayNext ==
  \/ Weston \/ PanelVblank \/ Systemd \/ Kmm \/ Splash \/ View \/ DrmImageView \/ Upsets

DisplaySpec == DisplayInit /\ [][DisplayNext]_dvars

\* Processes run, the panel scans, units respawn; operators and faults owe nothing
FairDisplay ==
  /\ DisplaySpec
  /\ WF_dvars(WestonUp) /\ WF_dvars(Repaint) /\ WF_dvars(Presented) /\ WF_dvars(PanelVblank)
  /\ WF_dvars(RespawnSplash) /\ WF_dvars(RespawnKmm) /\ WF_dvars(KmmShown) /\ WF_dvars(KmmFails)
  /\ WF_dvars(Splash) /\ WF_dvars(View)
-----------------------------------------------------------------------------
(* Properties.                                                              *)

\* No dark boot: a client that has shown its picture is on the layer, whether or not
\* there was a seat by then.
MappedIsShown ==
  \A c \in Clients :
    client[c].st = "resident" /\ client[c].live <=> \E k \in 1..Len(layer) : layer[k] = c

Before(c, d) ==
  \A j, k \in 1..Len(layer) : layer[j] = c /\ layer[k] = d => j < k

GuiHidesLogo == Before("kmm", "splash")

\* Whenever the seat comes and whoever dies or is respawned, the logo is in front of the
\* GUI only if splash-wl has shown its picture after the GUI had shown its first frame.
GuiOverLogo == hist.covers \/ GuiHidesLogo

\* Weston waits for an event exactly while one is under way, whatever the shim has
\* made of its first commit: it never hangs, and no event comes twice.
OneEventEach ==
  weston = "up" =>
    drm.events + (IF drm.wanted THEN 1 ELSE 0) = (IF output.awaiting THEN 1 ELSE 0)

\* Whatever is in front gets to the panel, as long as it stays there.
ScreenFollows ==
  \A f \in Clients \cup {"background"} :
    (weston = "up" /\ Foremost = f) ~> (drm.front = f \/ Foremost # f \/ weston # "up")

\* The GUI comes back after whatever happens to it or to weston.
GuiBack == ~hist.stopped ~> (hist.stopped \/ client["kmm"].st = "resident")
=============================================================================
