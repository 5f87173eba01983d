--------------------------- MODULE DisplayProofs ---------------------------
(***************************************************************************)
(* Proofs about Display and DrmOutput: the events of the panel, the two       *)
(* buffers of drm-image-view, and the views in the layer of kiosk-shell, for  *)
(* any rewriting of commits and any number of deaths, refusals, late vblanks  *)
(* and seats that come and go; and what the liveness of the screen rests on.  *)
(***************************************************************************)
EXTENDS Display, TLAPS

Pcs == {"off", "setcrtc", "pause", "draw", "flip", "poll"}

\* Which frames there are is not of interest, but for those of drm-image-view
DrmType(d) ==
  /\ DOMAIN d = {"front", "flip", "wanted", "events"}
  /\ d.wanted \in BOOLEAN /\ d.events \in Nat

DrmTypes == DrmType(drm)

ShimTypes == DOMAIN shim = {"mode", "first_done"} /\ shim.mode \in Rewrites

IvTypes ==
  /\ DOMAIN iv = {"pc", "back", "late", "lead", "torn"}
  /\ iv.pc \in Pcs /\ iv.back \in {0, 1} /\ iv.late \in BOOLEAN /\ iv.lead \in Int
  /\ iv.torn \in BOOLEAN

OutputTypes == DOMAIN output = {"painted", "awaiting", "modeset"} /\ output.awaiting \in BOOLEAN

Types == DrmTypes /\ ShimTypes /\ IvTypes /\ OutputTypes

\* Weston and drm-image-view are never master at once
OneMaster == weston # "off" => iv.pc = "off"

\* Whoever starts finds nothing under way
Still == drm.flip = None /\ ~drm.wanted /\ drm.events = 0

StillBefore ==
  /\ weston = "off" /\ iv.pc = "off" => Still
  /\ weston = "starting" => Still
  /\ weston # "up" => ~output.awaiting
  /\ iv.pc \in {"setcrtc", "pause"} => Still
  /\ iv.pc = "setcrtc" => iv.back = 1

\* A flip counted is a flip of the panel, but for the one that is under way
LeadExact ==
  iv.lead = IF iv.pc \in {"draw", "flip", "poll"} /\ drm.flip # None
            THEN (IF iv.pc = "poll" THEN 0 ELSE 1)
            ELSE (IF iv.pc = "poll" THEN -1 ELSE 0)

\* The buffer at the back is not on the panel, until it is flipped to
BackIsFree ==
  ~iv.late =>
    /\ iv.pc \in {"draw", "flip"} => Still /\ drm.front = Buffer(Swap(iv.back))
    /\ iv.pc = "poll" => \/ drm.flip = Buffer(iv.back) /\ drm.wanted /\ drm.events = 0
                         \/ drm.flip = None /\ ~drm.wanted /\ drm.front = Buffer(iv.back)

DInv ==
  /\ Types /\ OneMaster /\ StillBefore /\ OneEventEach /\ LeadExact /\ BackIsFree /\ DrawsBehind

\* What the calls of the driver do to its record.
LEMMA PageFlipIs ==
  ASSUME NEW d, DrmType(d), NEW fb
  PROVE  /\ DrmType(PageFlip(d, fb))
         /\ PageFlip(d, fb).front = d.front /\ PageFlip(d, fb).flip = fb
         /\ PageFlip(d, fb).wanted /\ PageFlip(d, fb).events = d.events
  BY DEF PageFlip, DrmType

LEMMA ModeSetIs ==
  ASSUME NEW d, DrmType(d), NEW fb
  PROVE  /\ DrmType(ModeSet(d, fb))
         /\ ModeSet(d, fb).front = fb /\ ModeSet(d, fb).flip = d.flip
         /\ (ModeSet(d, fb).wanted <=> d.wanted) /\ ModeSet(d, fb).events = d.events
  BY DEF ModeSet, DrmType

LEMMA TwoBuffers ==
  ASSUME NEW b \in {0, 1}
  PROVE  Swap(b) \in {0, 1} /\ Swap(Swap(b)) = b /\ Buffer(b) # None /\ Buffer(b) # Buffer(Swap(b))
<1>1. Buffer(0) = "buffer 0" /\ Buffer(1) = "buffer 1"
  BY DEF Buffer, Buffers
<1>2. CASE b = 0
  <2>1. Swap(b) = 1 /\ Swap(1) = 0
    BY <1>2 DEF Swap
  <2> QED
    BY <1>1, <1>2, <2>1 DEF None
<1>3. CASE b = 1
  <2>1. Swap(b) = 0 /\ Swap(0) = 1
    BY <1>3 DEF Swap
  <2> QED
    BY <1>1, <1>3, <2>1 DEF None
<1> QED
  BY <1>2, <1>3

LEMMA InitDInv == DisplayInit => DInv
<1> SUFFICES ASSUME DisplayInit PROVE DInv
  OBVIOUS
<1>1. DrmTypes /\ Still
  BY DEF DisplayInit, DrmInit, DrmTypes, DrmType, Still
<1>2. ShimTypes
  BY DEF DisplayInit, DrmInit, ShimTypes
<1>3. IvTypes /\ iv.pc = "off" /\ iv.lead = 0 /\ ~iv.torn
  <2>1. iv = [pc |-> "off", back |-> 0, late |-> FALSE, lead |-> 0, torn |-> FALSE]
    BY DEF DisplayInit, DrmInit
  <2> QED
    BY <2>1 DEF IvTypes, Pcs
<1>4. OutputTypes /\ ~output.awaiting /\ weston = "starting"
  BY DEF DisplayInit, NewOutput, OutputTypes
<1> QED
  BY <1>1, <1>2, <1>3, <1>4
  DEF DInv, Types, OneMaster, StillBefore, OneEventEach, LeadExact, BackIsFree, DrawsBehind

\* A commit that succeeds leaves one event to come, and one that fails none, however the
\* shim has rewritten it.
LEMMA CommitOwesOne ==
  ASSUME Types, Still, NEW fb, NEW modeset, NEW failed \in BOOLEAN,
         Commit(fb, modeset, failed)
  PROVE  /\ DrmTypes' /\ ShimTypes'
         /\ drm'.events = 0 /\ (drm'.wanted <=> ~failed)
<1> DEFINE Unflipped(d) == DrmType(d) /\ ~d.wanted /\ d.events = 0
           Flipping(d) == DrmType(d) /\ d.wanted /\ d.events = 0
           Good(r) == IF r.failed THEN Unflipped(r.drm) ELSE Flipping(r.drm)
<1>1. Unflipped(drm)
  BY DEF Types, DrmTypes, DrmType, Still
<1>2. Unflipped(ModeSet(drm, fb))
  BY <1>1, ModeSetIs
<1>3. Flipping(PageFlip(drm, fb)) /\ Flipping(PageFlip(ModeSet(drm, fb), fb))
  <2>1. ASSUME NEW d, Unflipped(d) PROVE Flipping(PageFlip(d, fb))
    BY <2>1, PageFlipIs
  <2> QED
    BY <1>1, <1>2, <2>1
<1> HIDE DEF Unflipped, Flipping
<1>4. \A r \in RealAtomic(fb) : Good(r)
  BY <1>1, <1>3 DEF RealAtomic, Result
<1>5. \A r \in do_setcrtc(fb) : Good(r)
  <2>1. Good(Result(PageFlip(ModeSet(drm, fb), fb), FALSE)) /\ Good(Result(drm, TRUE))
        /\ Good(Result(ModeSet(drm, fb), TRUE))
    BY <1>1, <1>2, <1>3 DEF Result
  <2> HIDE DEF Good
  <2> QED
    BY <1>4, <2>1 DEF do_setcrtc
<1>6. \A r \in do_noevent(fb) : Good(r)
  BY <1>1, <1>2, <1>3 DEF do_noevent, Result
<1>7. shim.mode # "" => shim.mode \in {"setcrtc", "noevent", "strip"}
  BY DrmOutputAssumption DEF Types, ShimTypes
<1>8. shim.mode # "" => \A r \in Rewritten(fb) : Good(r)
  BY <1>4, <1>5, <1>6, <1>7 DEF Rewritten, do_strip
<1>9. PICK r : Good(r) /\ drm' = r.drm /\ failed = r.failed
  BY <1>4, <1>8 DEF Commit
<1>10. DrmTypes' /\ drm'.events = 0 /\ (drm'.wanted <=> ~failed)
  BY <1>9 DEF Unflipped, Flipping, DrmTypes
<1>11. ShimTypes'
  BY DEF Commit, Types, ShimTypes
<1> QED
  BY <1>10, <1>11

\* What does not touch the panel, who is on it and the repaint loop.
LEMMA Elsewhere ==
  ASSUME DInv, UNCHANGED <<drmVars, weston, output>> PROVE DInv'
  BY DEF drmVars, DInv, Types, DrmTypes, DrmType, ShimTypes, IvTypes, OutputTypes,
     OneMaster, Still, StillBefore, OneEventEach, LeadExact, BackIsFree, DrawsBehind

\* Weston ends or starts anew.
LEMMA GoneDInv ==
  ASSUME DInv, weston # "off", weston' \in {"off", "starting"}, WestonGone PROVE DInv'
<1>1. iv.pc = "off" /\ iv' = iv
  BY DEF DInv, OneMaster, WestonGone
<1>2. Types'
  BY <1>1 DEF DInv, Types, DrmTypes, DrmType, ShimTypes, IvTypes, OutputTypes, WestonGone, NewOutput, Closed
<1>3. Still' /\ ~output'.awaiting
  BY DEF WestonGone, Closed, NewOutput, Still
<1> QED
  BY <1>1, <1>2, <1>3 DEF DInv, OneMaster, StillBefore, OneEventEach, LeadExact, BackIsFree, DrawsBehind

LEMMA WestonDInv ==
  ASSUME DInv, Weston PROVE DInv'
<1>1. CASE WestonUp
  BY <1>1 DEF WestonUp, drmVars, DInv, Types, DrmTypes, DrmType, ShimTypes, IvTypes, OutputTypes,
     OneMaster, Still, StillBefore, OneEventEach, LeadExact, BackIsFree, DrawsBehind
<1>2. CASE SeatCreated
  BY <1>2, Elsewhere DEF SeatCreated
<1>3. CASE Repaint
  <2>1. PICK failed \in BOOLEAN :
          /\ Commit(Foremost, output.modeset, failed)
          /\ output' = IF failed THEN output
                       ELSE [painted |-> Foremost, awaiting |-> TRUE, modeset |-> FALSE]
    BY <1>3 DEF Repaint
  <2>2. weston = "up" /\ weston' = "up" /\ ~output.awaiting /\ iv.pc = "off" /\ iv' = iv
    BY <1>3 DEF Repaint, DInv, OneMaster
  <2>3. Still
    <3>1. drm.wanted \in BOOLEAN /\ drm.events \in Nat /\ drm.flip = None
      BY <2>1 DEF Commit, DInv, Types, DrmTypes, DrmType
    <3> QED
      BY <2>2, <3>1 DEF DInv, OneEventEach, Still
  <2>4. /\ DrmTypes' /\ ShimTypes'
        /\ drm'.events = 0 /\ (drm'.wanted <=> ~failed)
    BY <2>1, <2>3, CommitOwesOne DEF DInv, Types, OutputTypes
  <2>5. OutputTypes' /\ (output'.awaiting <=> ~failed)
    BY <2>1, <2>2 DEF DInv, Types, OutputTypes
  <2>6. OneEventEach'
    BY <2>2, <2>4, <2>5 DEF OneEventEach
  <2> QED
    BY <2>2, <2>4, <2>5, <2>6
    DEF DInv, Types, IvTypes, OneMaster, StillBefore, LeadExact, BackIsFree, DrawsBehind
<1>4. CASE Presented
  <2>1. weston = "up" /\ weston' = "up" /\ drm.events > 0 /\ drm' = ReadEvents(drm)
        /\ iv' = iv /\ shim' = shim /\ iv.pc = "off"
    BY <1>4 DEF Presented, DInv, OneMaster
  <2>2. drm.wanted \in BOOLEAN /\ drm.events \in Nat
    BY DEF DInv, Types, DrmTypes, DrmType
  <2>3. ~drm.wanted /\ output.awaiting
    BY <2>1, <2>2 DEF DInv, OneEventEach
  <2>4. DrmTypes' /\ (drm'.wanted <=> drm.wanted) /\ drm'.events = 0
    BY <2>1 DEF DInv, Types, DrmTypes, DrmType, ReadEvents
  <2>5. OutputTypes' /\ ~output'.awaiting
    BY <1>4 DEF Presented, DInv, Types, OutputTypes
  <2> QED
    BY <2>1, <2>3, <2>4, <2>5 DEF DInv, Types, ShimTypes, IvTypes, OneMaster, StillBefore,
       OneEventEach, LeadExact, BackIsFree, DrawsBehind
<1> QED
  BY <1>1, <1>2, <1>3, <1>4 DEF Weston

\* The vblank makes an event of a flip, and the buffer at the back that of the panel.
LEMMA VblankDInv ==
  ASSUME DInv, PanelVblank PROVE DInv'
<1>1. drm.flip # None /\ drm.flip = drm'.front /\ drm'.flip = None /\ ~drm'.wanted
      /\ drm'.events = (IF drm.wanted THEN drm.events + 1 ELSE drm.events)
      /\ weston' = weston /\ output' = output /\ shim' = shim
  BY DEF PanelVblank, Vblank, westonVars
<1>2. iv'.pc = iv.pc /\ iv'.back = iv.back /\ (iv'.late <=> iv.late) /\ (iv'.torn <=> iv.torn)
      /\ iv'.lead = (IF iv.pc = "off" THEN 0 ELSE iv.lead - 1)
  BY DEF PanelVblank, Vblank, DInv, Types, IvTypes
<1>3. Types'
  <2>1. DrmTypes'
    BY DEF PanelVblank, Vblank, DInv, Types, DrmTypes, DrmType
  <2>2. IvTypes'
    BY DEF PanelVblank, Vblank, DInv, Types, IvTypes
  <2> QED
    BY <1>1, <2>1, <2>2 DEF DInv, Types, ShimTypes, OutputTypes
<1>4. iv.pc \in Pcs /\ iv.pc \notin {"setcrtc", "pause"}
  BY <1>1 DEF DInv, Types, IvTypes, StillBefore, Still
<1>5. OneMaster' /\ StillBefore'
  BY <1>1, <1>2, <1>4 DEF DInv, OneMaster, StillBefore, Still
<1>6. OneEventEach'
  BY <1>1 DEF DInv, Types, DrmTypes, DrmType, OneEventEach
<1>7. LeadExact'
  BY <1>1, <1>2, <1>4 DEF DInv, LeadExact, Pcs
<1>8. BackIsFree' /\ DrawsBehind'
  BY <1>1, <1>2 DEF DInv, BackIsFree, Still, DrawsBehind
<1> QED
  BY <1>3, <1>5, <1>6, <1>7, <1>8 DEF DInv

\* Each step of drm-image-view.
LEMMA IvDInv ==
  ASSUME DInv, DrmImageView PROVE DInv'
<1>0. weston' = weston /\ output' = output
  BY DEF DrmImageView, westonVars
<1>1. CASE IvStart /\ weston = "off"
  <2>1. iv'.pc = "setcrtc" /\ iv'.back = 1 /\ ~iv'.late /\ iv'.lead = 0 /\ ~iv'.torn
        /\ Still /\ UNCHANGED <<drm, shim>>
    BY <1>1 DEF IvStart, DInv, StillBefore
  <2>2. Types'
    BY <1>0, <1>1, <2>1 DEF IvStart, DInv, Types, DrmTypes, DrmType, ShimTypes, IvTypes, Pcs, OutputTypes
  <2> QED
    BY <1>0, <1>1, <2>1, <2>2 DEF DInv, OneMaster, Still, StillBefore, OneEventEach, LeadExact,
       BackIsFree, DrawsBehind
<1>2. CASE iv.pc # "off" /\ weston = "off"
  <2>0. OneMaster' /\ OneEventEach' /\ OutputTypes' /\ weston' = "off" /\ ~output'.awaiting
    BY <1>0, <1>2 DEF OneMaster, OneEventEach, StillBefore, DInv, Types, OutputTypes
  <2>1. /\ DrmType(drm)
        /\ iv.pc \in Pcs /\ iv.back \in {0, 1} /\ iv.late \in BOOLEAN /\ iv.lead \in Int
        /\ ~iv.torn
    BY DEF DInv, Types, DrmTypes, DrmType, IvTypes, DrawsBehind
  <2>2. SUFFICES ASSUME IvSetCrtc \/ IvRefused \/ IvDraw \/ IvFlip \/ IvRead \/ IvTimeout \/ IvKill
                 PROVE  DrmTypes' /\ IvTypes' /\ StillBefore' /\ LeadExact' /\ BackIsFree' /\ DrawsBehind'
    <3>1. IvSetCrtc \/ IvRefused \/ IvDraw \/ IvFlip \/ IvRead \/ IvTimeout \/ IvKill
      BY <1>2 DEF DrmImageView, IvLoop, IvStart
    <3>2. ShimTypes'
      BY <3>1 DEF IvSetCrtc, IvRefused, IvDraw, IvFlip, IvRead, IvTimeout, IvKill, DInv, Types, ShimTypes
    <3> QED
      BY <2>0, <2>0, <2>2, <3>1, <3>2 DEF DInv, Types
  <2> USE DEF Still, StillBefore, LeadExact, BackIsFree, DrawsBehind
  <2>3. CASE IvSetCrtc
    <3>1. Still /\ iv.back = 1 /\ iv.lead = 0 /\ drm' = ModeSet(drm, Buffer(0))
      BY <2>3 DEF IvSetCrtc, DInv
    <3>2. /\ iv'.pc \in {"pause", "draw"} /\ iv'.back = 1 /\ (iv'.late <=> iv.late)
          /\ iv'.lead = 0 /\ ~iv'.torn /\ IvTypes'
      BY <2>1, <2>3, <3>1 DEF IvSetCrtc, DInv, Types, IvTypes, Pcs
    <3>3. Still' /\ drm'.front = Buffer(0) /\ DrmTypes'
      BY <2>1, <3>1, ModeSetIs DEF DrmTypes
    <3> QED
      BY <1>0, <2>0, <3>2, <3>3, TwoBuffers DEF Swap
  <2>4. CASE IvRefused
    <3>1. Still /\ iv.lead = 0 /\ drm' = drm
      BY <2>4 DEF IvRefused, DInv
    <3>2. iv'.pc = "off" /\ iv'.lead = 0 /\ ~iv'.torn /\ IvTypes'
      BY <2>1, <2>4, <3>1 DEF IvRefused, DInv, Types, IvTypes, Pcs
    <3> QED
      BY <2>0, <2>1, <3>1, <3>2 DEF DrmTypes
  <2>5. CASE IvDraw
    <3>1. iv.pc = "draw" /\ drm' = drm
      BY <2>5 DEF IvDraw
    <3>2. ~iv.late => Still /\ drm.front = Buffer(Swap(iv.back))
      BY <3>1 DEF DInv
    <3>3. ~iv.late => Buffer(iv.back) # drm.front /\ Buffer(iv.back) # drm.flip
      BY <2>1, <3>2, TwoBuffers DEF Still
    <3>4. /\ iv'.pc = "flip" /\ iv'.back = iv.back /\ (iv'.late <=> iv.late) /\ iv'.lead = iv.lead
          /\ ~iv'.torn /\ IvTypes'
      BY <2>1, <2>5, <3>3 DEF IvDraw, DInv, Types, IvTypes, Pcs
    <3> QED
      BY <2>0, <2>1, <3>1, <3>2, <3>4 DEF DInv, DrmTypes
  <2>6. CASE IvFlip
    <3>1. Buffer(iv.back) # None /\ iv.pc = "flip"
      BY <2>1, <2>6, TwoBuffers DEF IvFlip
    <3>2. CASE drm.flip = None
      <4>1. drm' = PageFlip(drm, Buffer(iv.back))
        BY <2>6, <3>2 DEF IvFlip
      <4>2. /\ drm'.front = drm.front /\ drm'.flip = Buffer(iv.back) /\ drm'.wanted
            /\ drm'.events = drm.events /\ DrmTypes'
        BY <2>1, <4>1, PageFlipIs DEF DrmTypes
      <4>3. /\ iv'.pc = "poll" /\ iv'.back = iv.back /\ (iv'.late <=> iv.late) /\ iv'.lead = iv.lead
            /\ ~iv'.torn /\ IvTypes'
        BY <2>1, <2>6, <3>2 DEF IvFlip, DInv, Types, IvTypes, Pcs
      <4> QED
        BY <2>0, <3>1, <3>2, <4>2, <4>3 DEF DInv
    <3>3. CASE drm.flip # None
      <4>1. drm' = drm /\ iv.late
        BY <2>1, <2>6, <3>1, <3>3 DEF IvFlip, DInv
      <4>2. /\ iv'.pc = "draw" /\ iv'.back = iv.back /\ (iv'.late <=> iv.late) /\ iv'.lead = iv.lead
            /\ ~iv'.torn /\ IvTypes'
        BY <2>1, <2>6, <3>3 DEF IvFlip, Busy, DInv, Types, IvTypes, Pcs
      <4> QED
        BY <2>0, <2>1, <3>1, <3>3, <4>1, <4>2 DEF DInv, DrmTypes
    <3> QED
      BY <3>2, <3>3
  <2>7. CASE IvRead
    <3>1. iv.pc = "poll" /\ drm.events > 0 /\ drm' = ReadEvents(drm)
      BY <2>7 DEF IvRead
    <3>2. /\ drm'.front = drm.front /\ drm'.flip = drm.flip /\ (drm'.wanted <=> drm.wanted)
          /\ drm'.events = 0 /\ DrmTypes'
      BY <2>1, <3>1 DEF ReadEvents, DrmTypes, DrmType
    <3>3. /\ iv'.pc = "draw" /\ iv'.back = Swap(iv.back) /\ (iv'.late <=> iv.late)
          /\ iv'.lead = iv.lead + 1 /\ ~iv'.torn /\ IvTypes'
      BY <2>1, <2>7 DEF IvRead, Flipped, Swap, DInv, Types, IvTypes, Pcs
    <3>4. Swap(Swap(iv.back)) = iv.back
      BY <2>1, TwoBuffers
    <3> QED
      BY <2>0, <2>1, <3>1, <3>2, <3>3, <3>4 DEF DInv
  <2>8. CASE IvTimeout
    <3>1. iv.pc = "poll" /\ drm' = drm
      BY <2>8 DEF IvTimeout
    <3>2. /\ iv'.pc = "draw" /\ iv'.late /\ iv'.lead = iv.lead + 1 /\ ~iv'.torn
          /\ IvTypes'
      BY <2>1, <2>8 DEF IvTimeout, Flipped, Swap, DInv, Types, IvTypes, Pcs
    <3> QED
      BY <2>0, <2>1, <3>1, <3>2 DEF DInv, DrmTypes
  <2>9. CASE IvKill
    <3>1. iv'.pc = "off" /\ iv'.lead = 0 /\ ~iv'.torn /\ IvTypes'
      BY <2>1, <2>9 DEF IvKill, DInv, Types, IvTypes, Pcs
    <3>2. Still' /\ DrmTypes'
      BY <2>9 DEF IvKill, Closed, DrmTypes, DrmType
    <3> QED
      BY <1>0, <2>0, <3>1, <3>2
  <2> QED
    BY <2>2, <2>3, <2>4, <2>5, <2>6, <2>7, <2>8, <2>9
<1>3. (IvStart /\ weston = "off") \/ iv.pc # "off"
  BY DEF DrmImageView, IvLoop, IvSetCrtc, IvRefused, IvDraw, IvFlip, IvRead, IvTimeout, IvKill
<1> QED
  BY <1>1, <1>2, <1>3 DEF DInv, OneMaster

\* Clients and units: those that start weston find the panel still.
LEMMA OthersDInv ==
  ASSUME DInv, Systemd \/ Kmm \/ Splash \/ View \/ Upsets PROVE DInv'
<1>1. CASE UNCHANGED <<drmVars, weston, output>>
  BY <1>1, Elsewhere
<1>2. CASE weston # "off" /\ weston' \in {"off", "starting"} /\ WestonGone
  BY <1>2, GoneDInv
<1>3. CASE weston' = StartsWeston /\ iv.pc = "off" /\ UNCHANGED <<drmVars, output>>
  BY <1>3 DEF StartsWeston, drmVars, DInv, Types, DrmTypes, DrmType, ShimTypes, IvTypes, OutputTypes,
     OneMaster, Still, StillBefore, OneEventEach, LeadExact, BackIsFree, DrawsBehind
<1>4. Systemd => UNCHANGED <<drmVars, weston, output>> \/
                 (weston' = StartsWeston /\ iv.pc = "off" /\ UNCHANGED <<drmVars, output>>)
  BY DEF Systemd, RespawnSplash, RespawnKmm, westonVars
<1>5. Kmm \/ Splash \/ View => UNCHANGED <<drmVars, weston, output>>
  BY DEF Kmm, KmmShown, KmmFails, Splash, SplashConnect, SplashBind, SplashConfigured, SplashShow,
     SplashResident, View, ViewConnect, ViewBind, ViewConfigured, ViewDraw, ViewShow, ViewResident,
     Connect, NeedsWeston, Commits, Resident, westonVars
<1>6. KmmDies \/ ViewStart \/ ViewKill => UNCHANGED <<drmVars, weston, output>>
  BY DEF KmmDies, ViewStart, ViewKill, westonVars
<1>7. WestonDies \/ RestartWeston \/ StopWeston =>
        weston # "off" /\ weston' \in {"off", "starting"} /\ WestonGone
  BY DEF WestonDies, RestartWeston, StopWeston
<1>8. StartAgain => weston' = StartsWeston /\ iv.pc = "off" /\ UNCHANGED <<drmVars, output>>
  BY DEF StartAgain, StartsWeston
<1> QED
  BY <1>1, <1>2, <1>3, <1>4, <1>5, <1>6, <1>7, <1>8 DEF Upsets

LEMMA NextDInv == DInv /\ [DisplayNext]_dvars => DInv'
<1> SUFFICES ASSUME DInv, [DisplayNext]_dvars PROVE DInv'
  OBVIOUS
<1>1. CASE UNCHANGED dvars
  BY <1>1, Elsewhere DEF dvars, westonVars
<1> QED
  BY <1>1, WestonDInv, VblankDInv, IvDInv, OthersDInv DEF DisplayNext

LEMMA DInvHolds == DisplaySpec => []DInv
  BY InitDInv, NextDInv, PTL DEF DisplaySpec

\* Weston waits for an event exactly while one is under way, whatever the shim has made of
\* its first commit (DRM_DUMP_MODE of drm-atomic-dump.c).
THEOREM EventEach == DisplaySpec => []OneEventEach
<1>1. DInv => OneEventEach
  BY DEF DInv
<1> QED
  BY <1>1, DInvHolds, PTL

\* drm-image-view counts the flips of the panel, each once, however late they come.
THEOREM FlipsCounted == DisplaySpec => []FlipsAreReal
<1>1. DInv => FlipsAreReal
  BY DEF DInv, LeadExact, FlipsAreReal
<1> QED
  BY <1>1, DInvHolds, PTL

\* drm-image-view never draws into the buffer that is on the panel or about to be, until
\* a flip comes late.
THEOREM DrawnBehind == DisplaySpec => []DrawsBehind
<1>1. DInv => DrawsBehind
  BY DEF DInv
<1> QED
  BY <1>1, DInvHolds, PTL
-----------------------------------------------------------------------------
(* The layer of kiosk-shell: who is on it, and in what order.                *)

States == {"off", "connect", "bind", "wait", "draw", "delay", "resident", "respawn", "dead"}
Shown(d) == client[d].st = "resident" /\ client[d].live

ClientTypes ==
  /\ client \in [Clients -> [st : States, live : BOOLEAN]]
  /\ DOMAIN hist = {"faults", "stopped", "died", "covers"} /\ hist.covers \in BOOLEAN

\* Nobody has two views, and nobody but a client has one
OnceEach ==
  /\ layer \in Seq(Clients)
  /\ \A j, k \in 1..Len(layer) : layer[j] = layer[k] => j = k

\* Without weston there is no layer and no connection
NoneWithout == weston # "up" => layer = <<>> /\ \A d \in Clients : ~client[d].live

\* A view that is mapped is in front of the others.
LEMMA MapIs ==
  ASSUME NEW q \in Seq(Clients), NEW d \in Clients, NEW r, r = <<d>> \o q
  PROVE  /\ r \in Seq(Clients) /\ Len(r) = Len(q) + 1 /\ r[1] = d
         /\ \A k \in 1..Len(q) : r[k + 1] = q[k]
         /\ \A k \in 1..Len(r) : k = 1 \/ (k - 1 \in 1..Len(q) /\ r[k] = q[k - 1])
<1>1. <<d>> \in Seq(Clients) /\ Len(<<d>>) = 1
  OBVIOUS
<1>2. r \in Seq(Clients) /\ Len(r) = Len(q) + 1
  BY <1>1
<1>3. \A k \in 1..Len(r) : r[k] = IF k <= 1 THEN d ELSE q[k - 1]
  BY <1>1
<1> QED
  BY <1>2, <1>3

\* A view that is unmapped leaves the others in their order.
LEMMA UnmapIs ==
  ASSUME NEW q \in Seq(Clients), NEW n \in 1..Len(q),
         \A j \in 1..Len(q) : q[j] = q[n] => j = n, NEW r, r = RemoveFirst(q, q[n])
  PROVE  /\ r \in Seq(Clients) /\ Len(r) = Len(q) - 1
         /\ \A k \in 1..Len(r) : IF k < n THEN r[k] = q[k]
                                 ELSE k + 1 \in 1..Len(q) /\ r[k] = q[k + 1]
<1> DEFINE I == {j \in 1..Len(q) : q[j] = q[n]}
<1>1. I = {n}
  OBVIOUS
<1>2. SelectInSeq(q, LAMBDA v : v = q[n]) = n
  <2>1. SelectInSeq(q, LAMBDA v : v = q[n]) = IF I # {} THEN Min(I) ELSE 0
    BY DEF SelectInSeq
  <2>2. Min({n}) = n
    BY DEF Min
  <2> QED
    BY <1>1, <2>1, <2>2
<1>3. r = SubSeq(q, 1, n - 1) \o SubSeq(q, n + 1, Len(q))
  BY <1>2 DEF RemoveFirst, RemoveAt
<1>4. /\ SubSeq(q, 1, n - 1) \in Seq(Clients) /\ Len(SubSeq(q, 1, n - 1)) = n - 1
      /\ \A k \in 1..(n - 1) : SubSeq(q, 1, n - 1)[k] = q[k]
  OBVIOUS
<1>5. /\ SubSeq(q, n + 1, Len(q)) \in Seq(Clients)
      /\ Len(SubSeq(q, n + 1, Len(q))) = Len(q) - n
      /\ \A k \in 1..(Len(q) - n) : SubSeq(q, n + 1, Len(q))[k] = q[n + k]
  OBVIOUS
<1> DEFINE s == SubSeq(q, 1, n - 1)
           t == SubSeq(q, n + 1, Len(q))
<1> HIDE DEF s, t
<1>6. s \in Seq(Clients) /\ t \in Seq(Clients) /\ Len(s) = n - 1 /\ Len(t) = Len(q) - n /\ r = s \o t
  BY <1>3, <1>4, <1>5 DEF s, t
<1>7. r \in Seq(Clients) /\ Len(r) = Len(q) - 1
  BY <1>6
<1>8. \A k \in 1..Len(r) : r[k] = IF k <= n - 1 THEN s[k] ELSE t[k - (n - 1)]
  BY <1>6
<1>9. /\ \A k \in 1..(n - 1) : s[k] = q[k]
      /\ \A k \in 1..(Len(q) - n) : t[k] = q[n + k]
  BY <1>4, <1>5 DEF s, t
<1> QED
  BY <1>7, <1>8, <1>9

Views == OnceEach /\ MappedIsShown /\ GuiOverLogo

\* Who is shown and in what order stays as it is.
LEMMA SameViews ==
  ASSUME Views, layer' = layer, \A d \in Clients : Shown(d)' <=> Shown(d),
         hist.covers => hist'.covers
  PROVE  Views'
BY DEF Views, OnceEach, MappedIsShown, GuiOverLogo, GuiHidesLogo, Before, Shown

\* A client shows its first picture.
LEMMA ViewMapped ==
  ASSUME Views, NEW d \in Clients, ~Shown(d), Shown(d)', layer' = MapView(d),
         \A e \in Clients \ {d} : Shown(e)' <=> Shown(e),
         d = "view" => hist'.covers = hist.covers,
         d = "splash" => hist'.covers \/ ~Shown("kmm")
  PROVE  Views'
<1>1. layer \in Seq(Clients) /\ layer' = <<d>> \o layer
  BY DEF Views, OnceEach, MapView
<1>2. /\ layer' \in Seq(Clients) /\ Len(layer') = Len(layer) + 1 /\ layer'[1] = d
      /\ \A k \in 1..Len(layer) : layer'[k + 1] = layer[k]
      /\ \A k \in 1..Len(layer') : k = 1 \/ (k - 1 \in 1..Len(layer) /\ layer'[k] = layer[k - 1])
  BY <1>1, MapIs
<1>3. Len(layer) \in Nat /\ Len(layer') \in Nat
  BY <1>1, <1>2
<1>m. \A e \in Clients : Shown(e) <=> \E k \in 1..Len(layer) : layer[k] = e
  BY DEF Views, MappedIsShown, Shown
<1>4. \A k \in 1..Len(layer) : layer[k] # d
  BY <1>m
<1>5. OnceEach'
  <2> SUFFICES ASSUME NEW j \in 1..Len(layer'), NEW k \in 1..Len(layer'), layer'[j] = layer'[k]
               PROVE  j = k
    BY <1>2 DEF OnceEach
  <2>1. CASE j = 1 \/ k = 1
    BY <1>2, <1>4, <2>1
  <2>2. CASE j # 1 /\ k # 1
    <3>1. j - 1 \in 1..Len(layer) /\ k - 1 \in 1..Len(layer) /\ layer[j - 1] = layer[k - 1]
      BY <1>2, <2>2
    <3>2. j - 1 = k - 1
      BY <3>1 DEF Views, OnceEach
    <3> QED
      BY <3>2
  <2> QED
    BY <2>1, <2>2
<1>6. MappedIsShown'
  <2> SUFFICES ASSUME NEW e \in Clients PROVE Shown(e)' <=> \E k \in 1..Len(layer') : layer'[k] = e
    BY DEF MappedIsShown, Shown
  <2>1. CASE e = d
    <3>1. 1 \in 1..Len(layer') /\ layer'[1] = e
      BY <1>2, <1>3, <2>1
    <3> QED
      BY <2>1, <3>1
  <2>2. CASE e # d
    <3>1. ASSUME NEW k \in 1..Len(layer), layer[k] = e
          PROVE  \E j \in 1..Len(layer') : layer'[j] = e
      <4>1. k + 1 \in 1..Len(layer') /\ layer'[k + 1] = e
        BY <1>2, <1>3, <3>1
      <4> QED
        BY <4>1
    <3>2. ASSUME NEW k \in 1..Len(layer'), layer'[k] = e
          PROVE  \E j \in 1..Len(layer) : layer[j] = e
      <4>1. k # 1
        BY <1>2, <2>2, <3>2
      <4> QED
        BY <1>2, <3>2, <4>1
    <3> QED
      BY <1>m, <2>2, <3>1, <3>2
  <2> QED
    BY <2>1, <2>2
<1>7. GuiOverLogo'
  <2> SUFFICES ASSUME ~hist'.covers, NEW j \in 1..Len(layer'), NEW k \in 1..Len(layer'),
                      layer'[j] = "kmm", layer'[k] = "splash"
               PROVE  j < k
    BY DEF GuiOverLogo, GuiHidesLogo, Before
  <2>1. k # 1
    <3> SUFFICES ASSUME k = 1 PROVE FALSE
      OBVIOUS
    <3>1. d = "splash" /\ ~Shown("kmm") /\ j # 1
      BY <1>2
    <3>2. j - 1 \in 1..Len(layer) /\ layer[j - 1] = "kmm"
      BY <1>2, <3>1
    <3>3. "kmm" \in Clients
      BY DEF Clients
    <3> QED
      BY <1>m, <3>1, <3>2, <3>3
  <2>2. CASE j = 1
    BY <2>1, <2>2, <1>3
  <2>3. CASE j # 1
    <3>1. /\ j - 1 \in 1..Len(layer) /\ layer[j - 1] = "kmm"
          /\ k - 1 \in 1..Len(layer) /\ layer[k - 1] = "splash"
      BY <1>2, <2>1, <2>3
    <3>2. ~hist.covers
      BY <1>4, <3>1 DEF Clients
    <3>3. j - 1 < k - 1
      BY <3>1, <3>2 DEF Views, GuiOverLogo, GuiHidesLogo, Before
    <3> QED
      BY <1>3, <3>3
  <2> QED
    BY <2>2, <2>3
<1> QED
  BY <1>5, <1>6, <1>7 DEF Views

\* A client goes while weston stays.
LEMMA ViewUnmapped ==
  ASSUME Views, NEW d \in Clients, Shown(d), ~Shown(d)', Unmap(d),
         \A e \in Clients \ {d} : Shown(e)' <=> Shown(e),
         hist'.covers = hist.covers
  PROVE  Views'
<1>m. \A e \in Clients : Shown(e) <=> \E k \in 1..Len(layer) : layer[k] = e
  BY DEF Views, MappedIsShown, Shown
<1>1. PICK n \in 1..Len(layer) : layer[n] = d
  BY <1>m
<1>2. layer \in Seq(Clients) /\ \A j \in 1..Len(layer) : layer[j] = layer[n] => j = n
  BY DEF Views, OnceEach
<1>3. layer' = RemoveFirst(layer, layer[n])
  BY <1>1 DEF Unmap
<1>4. /\ layer' \in Seq(Clients) /\ Len(layer') = Len(layer) - 1
      /\ \A k \in 1..Len(layer') : IF k < n THEN layer'[k] = layer[k]
                                   ELSE k + 1 \in 1..Len(layer) /\ layer'[k] = layer[k + 1]
  BY <1>2, <1>3, UnmapIs
<1>5. Len(layer) \in Nat /\ Len(layer') \in Nat /\ n \in Nat
  BY <1>2, <1>4
<1> DEFINE Was(k) == IF k < n THEN k ELSE k + 1
<1>6. \A k \in 1..Len(layer') : Was(k) \in 1..Len(layer) /\ layer'[k] = layer[Was(k)] /\ Was(k) # n
  BY <1>4, <1>5
<1>7. \A j, k \in 1..Len(layer') : (Was(j) = Was(k) => j = k) /\ (Was(j) < Was(k) => j < k)
  BY <1>5
<1>8. \A k \in 1..Len(layer) : k # n => \E j \in 1..Len(layer') : Was(j) = k
  <2> SUFFICES ASSUME NEW k \in 1..Len(layer), k # n PROVE \E j \in 1..Len(layer') : Was(j) = k
    OBVIOUS
  <2>1. CASE k < n
    <3>1. k \in 1..Len(layer') /\ Was(k) = k
      BY <1>4, <1>5, <2>1
    <3> QED
      BY <3>1
  <2>2. CASE ~(k < n)
    <3>1. k - 1 \in 1..Len(layer') /\ Was(k - 1) = k
      BY <1>4, <1>5, <2>2
    <3> QED
      BY <3>1
  <2> QED
    BY <2>1, <2>2
<1> HIDE DEF Was
<1>9. OnceEach'
  <2> SUFFICES ASSUME NEW j \in 1..Len(layer'), NEW k \in 1..Len(layer'), layer'[j] = layer'[k]
               PROVE  j = k
    BY <1>4 DEF OnceEach
  <2>1. layer[Was(j)] = layer[Was(k)]
    BY <1>6
  <2>2. Was(j) = Was(k)
    BY <1>6, <2>1 DEF Views, OnceEach
  <2> QED
    BY <1>7, <2>2
<1>10. MappedIsShown'
  <2> SUFFICES ASSUME NEW e \in Clients PROVE Shown(e)' <=> \E k \in 1..Len(layer') : layer'[k] = e
    BY DEF MappedIsShown, Shown
  <2>1. ASSUME NEW k \in 1..Len(layer'), layer'[k] = e PROVE e # d /\ \E j \in 1..Len(layer) : layer[j] = e
    <3>1. Was(k) \in 1..Len(layer) /\ layer[Was(k)] = e /\ Was(k) # n
      BY <1>6, <2>1
    <3> QED
      BY <1>1, <1>2, <3>1
  <2>2. ASSUME NEW k \in 1..Len(layer), layer[k] = e, e # d
        PROVE  \E j \in 1..Len(layer') : layer'[j] = e
    <3>1. k # n
      BY <1>1, <2>2
    <3>2. PICK j \in 1..Len(layer') : Was(j) = k
      BY <1>8, <3>1
    <3> QED
      BY <1>6, <2>2, <3>2
  <2>3. CASE e = d
    BY <2>1, <2>3
  <2>4. CASE e # d
    BY <1>m, <2>1, <2>2, <2>4
  <2> QED
    BY <2>3, <2>4
<1>11. GuiOverLogo'
  <2> SUFFICES ASSUME ~hist.covers, NEW j \in 1..Len(layer'), NEW k \in 1..Len(layer'),
                      layer'[j] = "kmm", layer'[k] = "splash"
               PROVE  j < k
    BY DEF GuiOverLogo, GuiHidesLogo, Before
  <2>1. /\ Was(j) \in 1..Len(layer) /\ layer[Was(j)] = "kmm"
        /\ Was(k) \in 1..Len(layer) /\ layer[Was(k)] = "splash"
    BY <1>6
  <2>2. Was(j) < Was(k)
    BY <2>1 DEF Views, GuiOverLogo, GuiHidesLogo, Before
  <2> QED
    BY <1>7, <2>2
<1> QED
  BY <1>9, <1>10, <1>11 DEF Views

\* Weston goes, and all views with it.
LEMMA ViewsGone ==
  ASSUME layer' = <<>>, \A d \in Clients : ~Shown(d)' PROVE Views'
<1>1. layer' \in Seq(Clients) /\ Len(layer') = 0
  OBVIOUS
<1>2. 1..0 = {}
  OBVIOUS
<1> QED
  BY <1>1, <1>2 DEF Views, OnceEach, MappedIsShown, GuiOverLogo, GuiHidesLogo, Before, Shown

LInv == ClientTypes /\ NoneWithout /\ Views

\* A client gets into another state.
LEMMA ToIs ==
  ASSUME ClientTypes, NEW d \in Clients, NEW st \in States, client' = To(d, st)
  PROVE  /\ client' \in [Clients -> [st : States, live : BOOLEAN]]
         /\ client'[d].st = st /\ client'[d].live = client[d].live
         /\ \A e \in Clients \ {d} : client'[e] = client[e]
<1> DEFINE R == [st : States, live : BOOLEAN]
           x == [client[d] EXCEPT !.st = st]
<1>1. client[d] \in R
  BY DEF ClientTypes
<1>2. x \in R /\ x.st = st /\ x.live = client[d].live
  BY <1>1
<1>3. client' = [client EXCEPT ![d] = x]
  BY DEF To
<1> HIDE DEF x, R
<1>4. client \in [Clients -> R]
  BY DEF ClientTypes, R
<1>5. client' \in [Clients -> R] /\ client'[d] = x /\ \A e \in Clients \ {d} : client'[e] = client[e]
  BY <1>2, <1>3, <1>4
<1> QED
  BY <1>2, <1>5 DEF R

\* What weston and the panel do among themselves.
LEMMA ClientsStay ==
  ASSUME LInv, layer' = layer, client' = client, ClientTypes',
         hist'.covers = hist.covers, weston' # "up" => weston # "up"
  PROVE  LInv'
<1>1. \A d \in Clients : Shown(d)' <=> Shown(d)
  BY DEF Shown
<1>2. Views'
  BY <1>1, SameViews DEF LInv
<1> QED
  BY <1>2 DEF LInv, NoneWithout

\* A client that shows nothing goes on, and shows nothing yet.
LEMMA ClientMoves ==
  ASSUME LInv, NEW d \in Clients, NEW st \in States, client' = To(d, st),
         ~Shown(d), st = "resident" => ~client[d].live, layer' = layer,
         hist'.covers = hist.covers, DOMAIN hist' = DOMAIN hist,
         weston' # "up" => weston # "up"
  PROVE  LInv'
<1>1. /\ ClientTypes'
      /\ client'[d].st = st /\ client'[d].live = client[d].live
      /\ \A e \in Clients \ {d} : client'[e] = client[e]
  BY ToIs DEF LInv, ClientTypes
<1>2. \A e \in Clients : Shown(e)' <=> Shown(e)
  BY <1>1 DEF Shown
<1>3. Views'
  BY <1>2, SameViews DEF LInv
<1>4. NoneWithout'
  BY <1>1 DEF LInv, NoneWithout
<1> QED
  BY <1>1, <1>3, <1>4 DEF LInv

\* Weston goes.
LEMMA AllGone ==
  ASSUME LInv, layer' = <<>>, client' \in [Clients -> [st : States, live : BOOLEAN]],
         \A d \in Clients : ~client'[d].live,
         hist'.covers \in BOOLEAN, DOMAIN hist' = DOMAIN hist
  PROVE  LInv'
<1>1. \A d \in Clients : ~Shown(d)'
  BY DEF Shown
<1>2. Views'
  BY <1>1, ViewsGone
<1> QED
  BY <1>2 DEF LInv, ClientTypes, NoneWithout

\* A picture comes, and a client goes.
LEMMA PictureComes ==
  ASSUME LInv, NEW d \in Clients, weston' = weston, weston = "up",
         client' \in [Clients -> [st : States, live : BOOLEAN]],
         ~Shown(d), Shown(d)', \A e \in Clients \ {d} : client'[e] = client[e],
         layer' = MapView(d), DOMAIN hist' = DOMAIN hist, hist'.covers \in BOOLEAN,
         d = "view" => hist'.covers = hist.covers,
         d = "splash" => hist'.covers \/ ~Shown("kmm")
  PROVE  LInv'
<1>1. \A e \in Clients \ {d} : Shown(e)' <=> Shown(e)
  BY DEF Shown
<1>2. Views'
  BY <1>1, ViewMapped DEF LInv
<1> QED
  BY <1>2 DEF LInv, ClientTypes, NoneWithout

LEMMA PictureGoes ==
  ASSUME LInv, NEW d \in Clients \ {"splash"}, NEW st \in States \ {"resident"},
         weston' = weston, Shown(d), client' = To(d, st), Unmap(d),
         hist'.covers = hist.covers, DOMAIN hist' = DOMAIN hist
  PROVE  LInv'
<1>1. /\ ClientTypes'
      /\ client'[d].st = st /\ client'[d].live = client[d].live
      /\ \A e \in Clients \ {d} : client'[e] = client[e]
  BY ToIs DEF LInv, ClientTypes
<1>2. ~Shown(d)' /\ \A e \in Clients \ {d} : Shown(e)' <=> Shown(e)
  BY <1>1 DEF Shown
<1>3. Views'
  BY <1>2, ViewUnmapped DEF LInv
<1>4. weston = "up"
  BY DEF LInv, NoneWithout, Shown
<1> QED
  BY <1>1, <1>3, <1>4 DEF LInv, NoneWithout

\* A fault changes no more of the history than it says.
LEMMA FaultKeeps ==
  ASSUME NEW h, DOMAIN h = {"faults", "stopped", "died", "covers"}, Fault(h)
  PROVE  DOMAIN hist' = DOMAIN h /\ hist'.covers = h.covers
BY DEF Fault

LEMMA InitLInv == DisplayInit => LInv
<1> SUFFICES ASSUME DisplayInit PROVE LInv
  OBVIOUS
<1>1. /\ client = [d \in Clients |-> [st |-> IF d \in Units THEN "connect" ELSE "off", live |-> FALSE]]
      /\ weston = "starting" /\ layer = <<>>
      /\ hist = [faults |-> 0, stopped |-> FALSE, died |-> FALSE, covers |-> FALSE]
  BY DEF DisplayInit
<1>2. ClientTypes
  BY <1>1 DEF ClientTypes, States
<1>3. \A d \in Clients : ~client[d].live /\ client[d].st # "resident"
  BY <1>1
<1>4. layer \in Seq(Clients) /\ Len(layer) = 0 /\ 1..0 = {}
  BY <1>1
<1>5. Views
  BY <1>3, <1>4 DEF Views, OnceEach, MappedIsShown, GuiOverLogo, GuiHidesLogo, Before
<1> QED
  BY <1>1, <1>2, <1>3, <1>5 DEF LInv, NoneWithout

\* The steps of any client that connects.
LEMMA ConnectLInv ==
  ASSUME LInv, NEW d \in Clients, Connect(d) PROVE LInv'
<1>0. UNCHANGED <<layer, weston, hist>> /\ client[d].st = "connect"
  BY DEF Connect, westonVars
<1>1. CASE client' = To(d, Failed(d))
  <2>1. Failed(d) \in States /\ Failed(d) # "resident"
    BY DEF Failed, States
  <2> QED
    BY <1>0, <1>1, <2>1, ClientMoves DEF LInv, ClientTypes, Shown
<1>2. CASE weston = "up" /\ client' = [client EXCEPT ![d] = [st |-> "bind", live |-> TRUE]]
  <2>1. /\ client' \in [Clients -> [st : States, live : BOOLEAN]]
        /\ client'[d].st = "bind" /\ \A e \in Clients \ {d} : client'[e] = client[e]
    BY <1>2 DEF LInv, ClientTypes, States
  <2>2. \A e \in Clients : Shown(e)' <=> Shown(e)
    BY <1>0, <2>1 DEF Shown
  <2>3. Views'
    BY <1>0, <2>2, SameViews DEF LInv
  <2> QED
    BY <1>0, <1>2, <2>1, <2>3 DEF LInv, ClientTypes, NoneWithout
<1> QED
  BY <1>1, <1>2 DEF Connect

LEMMA NeedsLInv ==
  ASSUME LInv, NEW d \in Clients, NEW st \in {"bind", "wait"},
         NEW next \in {"wait", "draw"}, NeedsWeston(d, st, next)
  PROVE  LInv'
<1>0. UNCHANGED <<layer, weston, hist>> /\ client[d].st = st
  BY DEF NeedsWeston, westonVars
<1> DEFINE to == IF client[d].live THEN next ELSE Failed(d)
<1>1. client' = To(d, to)
  BY DEF NeedsWeston
<1>2. to \in States /\ to # "resident"
  BY DEF Failed, States
<1> HIDE DEF to
<1>3. ~Shown(d)
  BY <1>0 DEF Shown
<1> QED
  BY <1>0, <1>1, <1>2, <1>3, ClientMoves DEF LInv, ClientTypes

LEMMA CommitsLInv ==
  ASSUME LInv, NEW d \in {"splash", "view"}, NEW st \in {"draw", "delay"}, Commits(d, st)
  PROVE  LInv'
<1>0. weston' = weston /\ client[d].st = st /\ d \in Clients
  BY DEF Commits, Clients
<1>1. client' = To(d, "resident") /\ "resident" \in States
  BY DEF Commits, States
<1>2. ~Shown(d)
  BY <1>0 DEF Shown
<1>3. CASE client[d].live
  <2>1. /\ client' \in [Clients -> [st : States, live : BOOLEAN]]
        /\ Shown(d)' /\ \A e \in Clients \ {d} : client'[e] = client[e]
    BY <1>0, <1>1, <1>3, ToIs DEF LInv, Shown
  <2>2. weston = "up"
    BY <1>0, <1>3 DEF LInv, NoneWithout
  <2>3. layer' = MapView(d)
    BY <1>3 DEF Commits
  <2>4. hist' = [hist EXCEPT !.covers = IF d = "splash" THEN GuiThere ELSE hist.covers]
    BY <1>3 DEF Commits
  <2>5. DOMAIN hist' = DOMAIN hist /\ hist'.covers = IF d = "splash" THEN GuiThere ELSE hist.covers
    BY <2>4 DEF LInv, ClientTypes
  <2>6. /\ hist'.covers \in BOOLEAN
        /\ d = "view" => hist'.covers = hist.covers
        /\ d = "splash" => hist'.covers \/ ~Shown("kmm")
    BY <2>5, Zenon DEF LInv, ClientTypes, GuiThere, Shown
  <2> QED
    BY <1>0, <1>2, <2>1, <2>2, <2>3, <2>5, <2>6, PictureComes
<1>4. CASE ~client[d].live
  <2>1. layer' = layer /\ hist' = hist
    BY <1>4 DEF Commits
  <2> QED
    BY <1>0, <1>1, <1>2, <1>4, <2>1, ClientMoves DEF LInv, ClientTypes
<1> QED
  BY <1>3, <1>4

LEMMA ResidentLInv ==
  ASSUME LInv, NEW d \in Clients, Resident(d) PROVE LInv'
<1>1. UNCHANGED <<layer, weston, hist>> /\ ~Shown(d) /\ client' = To(d, Done(d))
  BY DEF Resident, westonVars, Shown
<1>2. Done(d) \in States /\ Done(d) # "resident"
  BY DEF Done, States
<1> QED
  BY <1>1, <1>2, ClientMoves DEF LInv, ClientTypes

LEMMA SplashLInv ==
  ASSUME LInv, Splash PROVE LInv'
<1>0. "splash" \in Clients
  BY DEF Clients
<1>1. CASE SplashConnect
  BY <1>0, <1>1, ConnectLInv DEF SplashConnect
<1>2. CASE SplashBind
  BY <1>0, <1>2, NeedsLInv DEF SplashBind
<1>3. CASE SplashConfigured
  BY <1>0, <1>3, NeedsLInv DEF SplashConfigured
<1>4. CASE SplashShow
  BY <1>4, CommitsLInv DEF SplashShow
<1>5. CASE SplashResident
  BY <1>0, <1>5, ResidentLInv DEF SplashResident
<1> QED
  BY <1>1, <1>2, <1>3, <1>4, <1>5 DEF Splash

LEMMA ViewLInv ==
  ASSUME LInv, View \/ ViewStart \/ ViewKill PROVE LInv'
<1>0. "view" \in Clients /\ "view" # "splash"
  BY DEF Clients
<1>1. CASE ViewConnect
  BY <1>0, <1>1, ConnectLInv DEF ViewConnect
<1>2. CASE ViewBind
  BY <1>0, <1>2, NeedsLInv DEF ViewBind
<1>3. CASE ViewConfigured
  BY <1>0, <1>3, NeedsLInv DEF ViewConfigured
<1>4. CASE ViewDraw
  <2>1. /\ client' = To("view", "delay") /\ "delay" \in States /\ ~Shown("view")
        /\ UNCHANGED <<layer, weston, hist>>
    BY <1>4 DEF ViewDraw, States, Shown, westonVars
  <2> QED
    BY <1>0, <2>1, ClientMoves DEF LInv, ClientTypes
<1>5. CASE ViewShow
  BY <1>5, CommitsLInv DEF ViewShow
<1>6. CASE ViewResident
  BY <1>0, <1>6, ResidentLInv DEF ViewResident
<1>7. CASE ViewStart
  <2>1. /\ client' = To("view", "connect") /\ "connect" \in States /\ ~Shown("view")
        /\ UNCHANGED <<layer, weston, hist>>
    BY <1>7 DEF ViewStart, States, Shown, westonVars
  <2> QED
    BY <1>0, <2>1, ClientMoves DEF LInv, ClientTypes
<1>8. CASE ViewKill
  <2>1. /\ Shown("view") /\ client' = To("view", "off") /\ Unmap("view")
        /\ UNCHANGED <<weston, hist>> /\ "off" \in States \ {"resident"}
    BY <1>8 DEF ViewKill, Shown, States
  <2> QED
    BY <1>0, <2>1, PictureGoes
<1> QED
  BY <1>1, <1>2, <1>3, <1>4, <1>5, <1>6, <1>7, <1>8 DEF View

LEMMA KmmLInv ==
  ASSUME LInv, Kmm \/ KmmDies \/ Systemd PROVE LInv'
<1>0. "kmm" \in Clients /\ "splash" \in Clients /\ "kmm" # "splash"
  BY DEF Clients
<1>s. "respawn" \in States /\ "connect" \in States /\ "respawn" # "resident"
  BY DEF States
<1>1. CASE KmmShown
  <2>1. /\ weston = "up" /\ weston' = weston /\ layer' = MapView("kmm")
        /\ client' = [client EXCEPT !["kmm"] = [st |-> "resident", live |-> TRUE]]
        /\ client["kmm"].st = "connect" /\ hist' = [hist EXCEPT !.covers = FALSE]
    BY <1>1 DEF KmmShown
  <2>2. /\ client' \in [Clients -> [st : States, live : BOOLEAN]]
        /\ Shown("kmm")' /\ ~Shown("kmm") /\ \A e \in Clients \ {"kmm"} : client'[e] = client[e]
    BY <1>0, <2>1 DEF LInv, ClientTypes, States, Shown
  <2>3. DOMAIN hist' = DOMAIN hist /\ hist'.covers = FALSE
    BY <2>1 DEF LInv, ClientTypes
  <2> QED
    BY <1>0, <2>1, <2>2, <2>3, PictureComes
<1>2. CASE KmmFails
  <2>1. /\ client' = To("kmm", "respawn") /\ ~Shown("kmm")
        /\ UNCHANGED <<layer, weston, hist>>
    BY <1>2 DEF KmmFails, Shown, westonVars
  <2> QED
    BY <1>0, <1>s, <2>1, ClientMoves DEF LInv, ClientTypes
<1>3. CASE KmmDies
  <2>1. /\ Shown("kmm") /\ client' = To("kmm", "respawn") /\ Unmap("kmm")
        /\ weston' = weston /\ Fault(hist)
    BY <1>3 DEF KmmDies, Shown
  <2>2. hist'.covers = hist.covers /\ DOMAIN hist' = DOMAIN hist
    BY <2>1, FaultKeeps DEF LInv, ClientTypes
  <2> QED
    BY <1>0, <1>s, <2>1, <2>2, PictureGoes
<1>4. CASE RespawnSplash
  <2>1. /\ client' = To("splash", "connect") /\ ~Shown("splash")
        /\ UNCHANGED <<layer, weston, hist>>
    BY <1>4 DEF RespawnSplash, westonVars, Shown
  <2> QED
    BY <1>0, <1>s, <2>1, ClientMoves DEF LInv, ClientTypes
<1>5. CASE RespawnKmm
  <2>1. /\ client' = To("kmm", "connect") /\ ~Shown("kmm")
        /\ UNCHANGED <<layer, hist>> /\ (weston' # "up" => weston # "up")
    BY <1>5 DEF RespawnKmm, StartsWeston, Shown
  <2> QED
    BY <1>0, <1>s, <2>1, ClientMoves DEF LInv, ClientTypes
<1> QED
  BY <1>1, <1>2, <1>3, <1>4, <1>5 DEF Kmm, Systemd

\* Weston, and what it goes down and comes up with.
LEMMA WestonLInv ==
  ASSUME LInv, Weston PROVE LInv'
<1>1. CASE WestonUp
  <2>1. hist' = [hist EXCEPT !.died = FALSE] /\ layer' = layer /\ client' = client /\ weston' = "up"
    BY <1>1 DEF WestonUp
  <2>2. ClientTypes' /\ hist'.covers = hist.covers
    BY <2>1 DEF LInv, ClientTypes
  <2> QED
    BY <2>1, <2>2, ClientsStay
<1>2. CASE SeatCreated
  <2>1. layer' = layer
    <3>1. layer \in Seq(Clients)
      BY DEF LInv, Views, OnceEach
    <3>2. CASE layer = <<>>
      BY <1>2, <3>2 DEF SeatCreated
    <3>3. CASE layer # <<>>
      <4>1. layer' = <<Head(layer)>> \o Tail(layer)
        BY <1>2, <3>3 DEF SeatCreated, RaiseTop
      <4> QED
        BY <3>1, <3>3, <4>1
    <3> QED
      BY <3>2, <3>3
  <2>2. UNCHANGED <<client, hist, weston>>
    BY <1>2 DEF SeatCreated
  <2> QED
    BY <2>1, <2>2, ClientsStay DEF LInv, ClientTypes
<1>3. CASE Repaint \/ Presented
  <2>1. UNCHANGED <<client, hist, weston, layer>>
    BY <1>3 DEF Repaint, Presented
  <2> QED
    BY <2>1, ClientsStay DEF LInv, ClientTypes
<1> QED
  BY <1>1, <1>2, <1>3 DEF Weston

LEMMA RestartsLInv ==
  ASSUME LInv, WestonDies \/ RestartWeston \/ StopWeston \/ StartAgain PROVE LInv'
<1> DEFINE R == [st : States, live : BOOLEAN]
<1>t. client \in [Clients -> R] /\ DOMAIN hist = {"faults", "stopped", "died", "covers"}
      /\ hist.covers \in BOOLEAN
  BY DEF LInv, ClientTypes
<1>0. "kmm" \in Clients /\ "splash" \in Clients /\ "dead" \in States /\ "connect" \in States
  BY DEF Clients, States
<1>l. Lost(client) \in [Clients -> R] /\ \A d \in Clients : ~Lost(client)[d].live
  <2>1. \A d \in Clients : [client[d] EXCEPT !.live = FALSE] \in R
    BY <1>t
  <2> QED
    BY <2>1 DEF Lost
<1>p. /\ PartOfWeston(client) \in [Clients -> R]
      /\ \A d \in Clients : ~PartOfWeston(client)[d].live
  <2>1. [st |-> "connect", live |-> FALSE] \in R
    BY <1>0
  <2> QED
    BY <1>l, <2>1 DEF PartOfWeston
<1>1. CASE WestonDies
  <2> DEFINE h == [hist EXCEPT !.died = TRUE]
  <2>1. DOMAIN h = DOMAIN hist /\ h.covers = hist.covers
    BY <1>t
  <2>2. Fault(h) /\ layer' = <<>> /\ client' = Lost(client)
    BY <1>1 DEF WestonDies, WestonGone
  <2> HIDE DEF h
  <2>3. DOMAIN hist' = DOMAIN hist /\ hist'.covers \in BOOLEAN
    BY <1>t, <2>1, <2>2, FaultKeeps
  <2> QED
    BY <1>l, <2>2, <2>3, AllGone
<1>2. CASE RestartWeston
  <2>2. Fault(hist) /\ layer' = <<>> /\ client' = PartOfWeston(client)
    BY <1>2 DEF RestartWeston, WestonGone
  <2>3. DOMAIN hist' = DOMAIN hist /\ hist'.covers \in BOOLEAN
    BY <1>t, <2>2, FaultKeeps
  <2> QED
    BY <1>p, <2>2, <2>3, AllGone
<1>3. CASE StopWeston
  <2> DEFINE h == [hist EXCEPT !.stopped = TRUE]
             cl == [Lost(client) EXCEPT !["splash"].st = "dead", !["kmm"].st = "dead"]
  <2>1. DOMAIN h = DOMAIN hist /\ h.covers = hist.covers
    BY <1>t
  <2>2. Fault(h) /\ layer' = <<>> /\ client' = cl
    BY <1>3 DEF StopWeston, WestonGone
  <2>4. cl \in [Clients -> R] /\ \A d \in Clients : ~cl[d].live
    <3>1. ASSUME NEW f \in [Clients -> R], NEW d \in Clients, \A e \in Clients : ~f[e].live
          PROVE  /\ [f EXCEPT ![d].st = "dead"] \in [Clients -> R]
                 /\ \A e \in Clients : ~[f EXCEPT ![d].st = "dead"][e].live
      <4> DEFINE x == [f[d] EXCEPT !.st = "dead"]
      <4>1. x \in R /\ ~x.live
        BY <1>0, <3>1
      <4> HIDE DEF x
      <4>2. [f EXCEPT ![d].st = "dead"] = [f EXCEPT ![d] = x]
        BY DEF x
      <4> QED
        BY <3>1, <4>1, <4>2
    <3> QED
      BY <1>0, <1>l, <3>1
  <2> HIDE DEF h, cl
  <2>3. DOMAIN hist' = DOMAIN hist /\ hist'.covers \in BOOLEAN
    BY <1>t, <2>1, <2>2, FaultKeeps
  <2> QED
    BY <2>2, <2>3, <2>4, AllGone
<1>4. CASE StartAgain
  <2>1. /\ layer' = layer /\ client' = PartOfWeston(client) /\ weston = "off"
        /\ hist' = [hist EXCEPT !.stopped = FALSE]
    BY <1>4 DEF StartAgain
  <2>2. layer' = <<>> /\ DOMAIN hist' = DOMAIN hist /\ hist'.covers \in BOOLEAN
    BY <1>t, <2>1 DEF LInv, NoneWithout
  <2> QED
    BY <1>p, <2>1, <2>2, AllGone
<1> QED
  BY <1>1, <1>2, <1>3, <1>4

LEMMA NextLInv == LInv /\ [DisplayNext]_dvars => LInv'
<1> SUFFICES ASSUME LInv, [DisplayNext]_dvars PROVE LInv'
  OBVIOUS
<1>1. CASE PanelVblank \/ DrmImageView \/ UNCHANGED dvars
  <2>1. UNCHANGED <<client, hist, weston, layer>>
    BY <1>1 DEF PanelVblank, DrmImageView, dvars, westonVars
  <2> QED
    BY <2>1, ClientsStay DEF LInv, ClientTypes
<1> QED
  BY <1>1, WestonLInv, SplashLInv, ViewLInv, KmmLInv, RestartsLInv DEF DisplayNext, Upsets

LEMMA LInvHolds == DisplaySpec => []LInv
  BY InitLInv, NextLInv, PTL DEF DisplaySpec

\* A client that has shown its picture is on the layer, and nobody else, with or without a
\* seat (0003-kiosk-shell-map-without-seat.patch).
THEOREM NoDarkBoot == DisplaySpec => []MappedIsShown
<1>1. LInv => MappedIsShown
  BY DEF LInv, Views
<1> QED
  BY <1>1, LInvHolds, PTL

\* The logo is in front of the GUI only if splash-wl has shown its picture after the GUI's
\* first frame: a seat that comes late gives the focus to the view in front (the same
\* patch), and deaths and respawns of weston, the GUI and splash-wl leave the order.
THEOREM GuiInFront == DisplaySpec => []GuiOverLogo
<1>1. LInv => GuiOverLogo
  BY DEF LInv, Views
<1> QED
  BY <1>1, LInvHolds, PTL
-----------------------------------------------------------------------------
(* What ScreenFollows and GuiBack rest on: whoever owes the next step is never *)
(* without it. That the step is then taken needs fairness and stays with TLC. *)

\* Weston's frame is on the panel, waits for the vblank, or has still to be committed
FrameInv ==
  /\ output.modeset => output.painted = None /\ ~output.awaiting
  /\ weston # "up" => output.modeset
  /\ weston = "up" =>
       \/ ~output.awaiting /\ drm.flip = None /\ (output.modeset \/ drm.front = output.painted)
       \/ /\ output.awaiting /\ ~output.modeset /\ drm.wanted
          /\ drm.flip = output.painted /\ drm.flip # None
       \/ /\ output.awaiting /\ ~output.modeset /\ ~drm.wanted
          /\ drm.flip = None /\ drm.front = output.painted

\* A commit that is refused leaves the panel as it is, but for the first one.
LEMMA CommitFrames ==
  ASSUME Types, Still, NEW fb, NEW modeset, NEW failed \in BOOLEAN, Commit(fb, modeset, failed)
  PROVE  /\ drm'.flip = IF failed THEN None ELSE fb
         /\ ~modeset => drm'.front = drm.front
<1> DEFINE Good(r) == r.drm.flip = IF r.failed THEN None ELSE fb
<1>1. DrmType(drm) /\ drm.flip = None
  BY DEF Types, DrmTypes, Still
<1>2. /\ DrmType(ModeSet(drm, fb)) /\ ModeSet(drm, fb).flip = None
      /\ PageFlip(drm, fb).flip = fb /\ PageFlip(ModeSet(drm, fb), fb).flip = fb
      /\ PageFlip(drm, fb).front = drm.front
  BY <1>1, ModeSetIs, PageFlipIs
<1>3. \A r \in RealAtomic(fb) : Good(r) /\ r.drm.front = drm.front
  BY <1>1, <1>2 DEF RealAtomic, Result
<1>4. \A r \in do_setcrtc(fb) : Good(r)
  <2>1. Good(Result(PageFlip(ModeSet(drm, fb), fb), FALSE)) /\ Good(Result(drm, TRUE))
        /\ Good(Result(ModeSet(drm, fb), TRUE))
    BY <1>1, <1>2 DEF Result
  <2> HIDE DEF Good
  <2> QED
    BY <1>3, <2>1 DEF do_setcrtc
<1>5. \A r \in do_noevent(fb) : Good(r)
  BY <1>1, <1>2 DEF do_noevent, Result
<1>6. shim.mode # "" => shim.mode \in {"setcrtc", "noevent", "strip"}
  BY DrmOutputAssumption DEF Types, ShimTypes
<1>7. shim.mode # "" => \A r \in Rewritten(fb) : Good(r)
  BY <1>3, <1>4, <1>5, <1>6 DEF Rewritten, do_strip
<1>8. PICK r : Good(r) /\ drm' = r.drm /\ failed = r.failed /\ (~modeset => r.drm.front = drm.front)
  BY <1>3, <1>7 DEF Commit
<1> QED
  BY <1>8

\* What is in front is a client or the background.
LEMMA ForemostIs == ASSUME LInv PROVE Foremost # None
  BY DEF LInv, Views, OnceEach, Foremost, None, Clients

LEMMA RepaintFrame == ASSUME DInv, LInv, FrameInv, Repaint PROVE FrameInv'
<1>1. PICK failed \in BOOLEAN :
        /\ Commit(Foremost, output.modeset, failed)
        /\ output' = IF failed THEN output
                     ELSE [painted |-> Foremost, awaiting |-> TRUE, modeset |-> FALSE]
  BY DEF Repaint
<1>2. weston = "up" /\ weston' = "up" /\ ~output.awaiting
  BY DEF Repaint
<1>3. Still
  <2>1. drm.wanted \in BOOLEAN /\ drm.events \in Nat /\ drm.flip = None
    BY <1>1 DEF Commit, DInv, Types, DrmTypes, DrmType
  <2> QED
    BY <1>2, <2>1 DEF DInv, OneEventEach, Still
<1>4. /\ drm'.wanted <=> ~failed
      /\ drm'.flip = IF failed THEN None ELSE Foremost
      /\ ~output.modeset => drm'.front = drm.front
  BY <1>1, <1>3, CommitOwesOne, CommitFrames DEF DInv
<1>5. CASE failed
  BY <1>1, <1>2, <1>4, <1>5 DEF FrameInv
<1>6. CASE ~failed
  BY <1>1, <1>2, <1>4, <1>6, ForemostIs DEF FrameInv
<1> QED
  BY <1>5, <1>6

LEMMA NextFrame == DInv /\ LInv /\ FrameInv /\ [DisplayNext]_dvars => FrameInv'
<1> SUFFICES ASSUME DInv, LInv, FrameInv, [DisplayNext]_dvars PROVE FrameInv'
  OBVIOUS
<1>1. CASE UNCHANGED <<drmVars, weston, output>>
  BY <1>1 DEF FrameInv, drmVars
<1>2. CASE weston' \in {"off", "starting"} /\ WestonGone
  BY <1>2 DEF FrameInv, WestonGone, NewOutput, None
<1>3. CASE weston = "off" /\ weston' # "up" /\ UNCHANGED output
  BY <1>3 DEF FrameInv
<1>4. CASE Weston
  <2>1. CASE WestonUp
    BY <2>1 DEF WestonUp, FrameInv, DInv, StillBefore, Still, drmVars
  <2>2. CASE SeatCreated
    BY <1>1, <2>2 DEF SeatCreated
  <2>3. CASE Presented
    <3>1. /\ weston = "up" /\ weston' = "up" /\ drm.events > 0 /\ drm' = ReadEvents(drm)
          /\ output' = [output EXCEPT !.awaiting = FALSE]
      BY <2>3 DEF Presented
    <3>2. DrmType(drm) /\ DOMAIN output = {"painted", "awaiting", "modeset"}
      BY DEF DInv, Types, DrmTypes, OutputTypes
    <3>3. ~drm.wanted /\ output.awaiting
      BY <3>1, <3>2 DEF DInv, OneEventEach, DrmType
    <3>4. drm'.flip = drm.flip /\ drm'.front = drm.front
      BY <3>1, <3>2 DEF ReadEvents, DrmType
    <3>5. ~output'.awaiting /\ output'.painted = output.painted /\ (output'.modeset <=> output.modeset)
      BY <3>1, <3>2
    <3> QED
      BY <3>1, <3>3, <3>4, <3>5 DEF FrameInv
  <2> QED
    BY <1>4, <2>1, <2>2, <2>3, RepaintFrame DEF Weston
<1>5. CASE PanelVblank
  BY <1>5 DEF PanelVblank, Vblank, westonVars, FrameInv
<1>6. CASE DrmImageView
  <2>1. iv.pc # "off" \/ weston = "off"
    BY <1>6 DEF DrmImageView, IvLoop, IvSetCrtc, IvRefused, IvDraw, IvFlip, IvRead, IvTimeout, IvKill
  <2>2. weston = "off" /\ UNCHANGED <<weston, output>>
    BY <1>6, <2>1 DEF DInv, OneMaster, DrmImageView, westonVars
  <2> QED
    BY <1>3, <2>2
<1>7. Systemd => UNCHANGED <<drmVars, weston, output>>
                 \/ (weston = "off" /\ weston' # "up" /\ UNCHANGED output)
  BY DEF Systemd, RespawnSplash, RespawnKmm, StartsWeston, westonVars
<1>8. Kmm \/ Splash \/ View => UNCHANGED <<drmVars, weston, output>>
  BY DEF Kmm, KmmShown, KmmFails, Splash, SplashConnect, SplashBind, SplashConfigured, SplashShow,
     SplashResident, View, ViewConnect, ViewBind, ViewConfigured, ViewDraw, ViewShow, ViewResident,
     Connect, NeedsWeston, Commits, Resident, westonVars
<1>9. KmmDies \/ ViewStart \/ ViewKill => UNCHANGED <<drmVars, weston, output>>
  BY DEF KmmDies, ViewStart, ViewKill, westonVars
<1>10. WestonDies \/ RestartWeston \/ StopWeston => weston' \in {"off", "starting"} /\ WestonGone
  BY DEF WestonDies, RestartWeston, StopWeston
<1>11. StartAgain => weston = "off" /\ weston' # "up" /\ UNCHANGED output
  BY DEF StartAgain
<1>12. UNCHANGED dvars => UNCHANGED <<drmVars, weston, output>>
  BY DEF dvars, westonVars
<1> QED
  BY <1>1, <1>2, <1>3, <1>4, <1>5, <1>6, <1>7, <1>8, <1>9, <1>10, <1>11, <1>12
  DEF DisplayNext, Upsets

\* A frame that is not on the panel is on its way, or weston may commit it
FrameOwed ==
  weston = "up" /\ drm.front # Foremost =>
    IF output.awaiting THEN drm.flip # None \/ drm.events > 0
    ELSE drm.flip = None /\ output.painted # Foremost

\* As long as the panel does not show what is in front, weston either waits for an event
\* that is there or comes with the vblank, or is free to commit the frame: whatever the
\* shim has made of its commits, and however many were refused.
THEOREM FrameIsOwed == DisplaySpec => []FrameOwed
<1>1. DisplayInit => FrameInv
  BY DEF DisplayInit, NewOutput, FrameInv, None
<1>2. DInv /\ LInv /\ FrameInv => FrameOwed
  <2> SUFFICES ASSUME DInv, LInv, FrameInv, weston = "up", drm.front # Foremost
               PROVE  IF output.awaiting THEN drm.flip # None \/ drm.events > 0
                      ELSE drm.flip = None /\ output.painted # Foremost
    BY DEF FrameOwed
  <2>1. CASE output.awaiting
    <3>1. drm.events \in Nat
      BY DEF DInv, Types, DrmTypes, DrmType
    <3> QED
      BY <2>1, <3>1 DEF DInv, OneEventEach, FrameInv
  <2>2. CASE ~output.awaiting
    BY <2>2, ForemostIs DEF FrameInv
  <2> QED
    BY <2>1, <2>2
<1> QED
  BY <1>1, <1>2, NextFrame, DInvHolds, LInvHolds, PTL DEF DisplaySpec

\* The GUI is there, starts, or will be respawned, and drm-image-view is not in its way
GuiOwed ==
  ~hist.stopped => iv.pc = "off" /\ client["kmm"].st \in {"connect", "respawn", "resident"}

HistType == DOMAIN hist = {"faults", "stopped", "died", "covers"}

\* A fault leaves who has stopped weston as it says.
LEMMA GuiHist ==
  ASSUME HistType, NEW h, DOMAIN h = DOMAIN hist, Fault(h)
  PROVE  hist'.stopped = h.stopped
  BY DEF Fault, HistType

LEMMA NextGui == DInv /\ LInv /\ GuiOwed /\ [DisplayNext]_dvars => GuiOwed'
<1> SUFFICES ASSUME DInv, LInv, GuiOwed, [DisplayNext]_dvars PROVE GuiOwed'
  OBVIOUS
<1> DEFINE R == [st : States, live : BOOLEAN]
           There == {"connect", "respawn", "resident"}
<1>0. client \in [Clients -> R] /\ HistType /\ DOMAIN client = Clients
      /\ "kmm" \in Clients /\ "splash" \in Clients /\ "view" \in Clients
      /\ "kmm" # "splash" /\ "kmm" # "view" /\ "kmm" \in Units
  BY DEF LInv, ClientTypes, Clients, HistType, Units
<1>1. ASSUME iv' = iv, hist'.stopped = hist.stopped,
             client'["kmm"].st = client["kmm"].st \/ client'["kmm"].st \in There
      PROVE  GuiOwed'
  BY <1>1 DEF GuiOwed
<1>2. CASE PanelVblank \/ UNCHANGED dvars
  <2>1. iv'.pc = iv.pc /\ hist' = hist /\ client' = client
    BY <1>2 DEF PanelVblank, Vblank, westonVars, drmVars, dvars, DInv, Types, IvTypes
  <2> QED
    BY <2>1 DEF GuiOwed
<1>3. CASE DrmImageView
  <2>1. iv.pc # "off" \/ hist.stopped
    BY <1>3 DEF DrmImageView, IvLoop, IvSetCrtc, IvRefused, IvDraw, IvFlip, IvRead, IvTimeout, IvKill
  <2> QED
    BY <1>3, <2>1 DEF DrmImageView, GuiOwed
<1>4. CASE Weston
  <2>1. iv' = iv /\ client' = client /\ hist'.stopped = hist.stopped
    BY <1>0, <1>4 DEF Weston, WestonUp, SeatCreated, Repaint, Presented, drmVars, HistType
  <2> QED
    BY <1>1, <2>1
<1>5. ASSUME NEW d \in Clients \ {"kmm"}, NEW st, client' = To(d, st), iv' = iv,
             hist'.stopped = hist.stopped
      PROVE  GuiOwed'
  BY <1>0, <1>1, <1>5 DEF To
<1>6. CASE Splash \/ View
  <2>0. hist' = hist \/ \E b : hist' = [hist EXCEPT !.covers = b]
    BY <1>6 DEF Splash, SplashConnect, SplashBind, SplashConfigured, SplashShow,
     SplashResident, View, ViewConnect, ViewBind, ViewConfigured, ViewDraw, ViewShow, ViewResident,
     Connect, NeedsWeston, Commits, Resident
  <2>1. iv' = iv
    BY <1>6 DEF Splash, SplashConnect, SplashBind, SplashConfigured, SplashShow,
     SplashResident, View, ViewConnect, ViewBind, ViewConfigured, ViewDraw, ViewShow, ViewResident,
     Connect, NeedsWeston, Commits, Resident, westonVars, drmVars
  <2>2. \E d \in {"splash", "view"} :
          \/ \E st : client' = To(d, st)
          \/ client' = [client EXCEPT ![d] = [st |-> "bind", live |-> TRUE]]
    BY <1>6 DEF Splash, SplashConnect, SplashBind, SplashConfigured, SplashShow,
     SplashResident, View, ViewConnect, ViewBind, ViewConfigured, ViewDraw, ViewShow, ViewResident,
     Connect, NeedsWeston, Commits, Resident
  <2>3. client'["kmm"] = client["kmm"]
    BY <1>0, <2>2 DEF To
  <2>4. hist'.stopped = hist.stopped
    BY <1>0, <2>0 DEF HistType
  <2> QED
    BY <1>1, <2>1, <2>3, <2>4
<1>7. ASSUME NEW st \in There, client' = To("kmm", st) PROVE client'["kmm"].st = st
  BY <1>0, <1>7 DEF To
<1>8. CASE KmmShown \/ KmmFails
  <2>1. iv' = iv /\ hist'.stopped = hist.stopped
    BY <1>0, <1>8 DEF KmmShown, KmmFails, drmVars, westonVars, HistType
  <2>2. CASE KmmShown
    BY <1>0, <1>1, <2>1, <2>2 DEF KmmShown
  <2>3. CASE KmmFails
    BY <1>1, <1>7, <2>1, <2>3 DEF KmmFails
  <2> QED
    BY <1>8, <2>2, <2>3
<1>9. CASE KmmDies
  <2>1. iv' = iv /\ client' = To("kmm", "respawn") /\ Fault(hist)
    BY <1>9 DEF KmmDies, drmVars
  <2> QED
    BY <1>0, <1>1, <1>7, <2>1, GuiHist
<1>10. CASE RespawnSplash
  <2>1. iv' = iv /\ client' = To("splash", "connect") /\ hist'.stopped = hist.stopped
    BY <1>0, <1>10 DEF RespawnSplash, drmVars, HistType
  <2> QED
    BY <1>0, <1>5, <2>1
<1>11. CASE RespawnKmm
  BY <1>1, <1>7, <1>11 DEF RespawnKmm, drmVars
<1>12. CASE ViewStart \/ ViewKill
  <2>1. iv' = iv /\ hist' = hist /\ \E st : client' = To("view", st)
    BY <1>12 DEF ViewStart, ViewKill, drmVars, westonVars
  <2> QED
    BY <1>0, <1>5, <2>1
<1>13. CASE WestonDies
  <2>1. Fault([hist EXCEPT !.died = TRUE]) /\ iv' = iv /\ client' = Lost(client)
    BY <1>13 DEF WestonDies, WestonGone
  <2>2. hist'.stopped = hist.stopped
    BY <1>0, <2>1, GuiHist DEF HistType
  <2>3. client'["kmm"].st = client["kmm"].st
    BY <1>0, <2>1 DEF Lost
  <2> QED
    BY <1>1, <2>1, <2>2, <2>3
<1>14. PartOfWeston(client)["kmm"].st = "connect"
  BY <1>0 DEF PartOfWeston
<1>15. CASE RestartWeston
  <2>1. Fault(hist) /\ iv' = iv /\ client' = PartOfWeston(client)
    BY <1>15 DEF RestartWeston, WestonGone
  <2>2. hist'.stopped = hist.stopped
    BY <1>0, <2>1, GuiHist DEF HistType
  <2> QED
    BY <1>1, <1>14, <2>1, <2>2
<1>16. CASE StopWeston
  <2>1. Fault([hist EXCEPT !.stopped = TRUE])
    BY <1>16 DEF StopWeston
  <2>2. hist'.stopped
    BY <1>0, <2>1, GuiHist DEF HistType
  <2> QED
    BY <2>2 DEF GuiOwed
<1>17. CASE StartAgain
  BY <1>14, <1>17 DEF StartAgain, drmVars, GuiOwed
<1> QED
  BY <1>2, <1>3, <1>4, <1>6, <1>8, <1>9, <1>10, <1>11, <1>12, <1>13, <1>15, <1>16, <1>17
  DEF DisplayNext, Systemd, Kmm, Upsets

\* Until somebody stops weston the GUI is shown, is being started, or will be respawned by
\* its unit, which waits for nobody else: drm-image-view does not run then.
THEOREM GuiIsOwed == DisplaySpec => []GuiOwed
<1>1. DisplayInit => GuiOwed
  <2> SUFFICES ASSUME DisplayInit PROVE GuiOwed
    OBVIOUS
  <2>1. /\ iv = [pc |-> "off", back |-> 0, late |-> FALSE, lead |-> 0, torn |-> FALSE]
        /\ client = [c \in Clients |->
                      [st |-> IF c \in Units THEN "connect" ELSE "off", live |-> FALSE]]
    BY DEF DisplayInit, DrmInit
  <2> QED
    BY <2>1 DEF GuiOwed, Clients, Units
<1> QED
  BY <1>1, NextGui, DInvHolds, LInvHolds, PTL DEF DisplaySpec
=============================================================================
