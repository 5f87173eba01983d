----------------------------- MODULE DrmOutput -----------------------------
(***************************************************************************)
(* The panel behind the DRM driver, and what two programs of this repository *)
(* do with it: the shim libdrm-atomic-dump.so, which rewrites the first      *)
(* modeset commit of weston, and drm-image-view, which shows a picture       *)
(* without weston. The driver is external: a flip waits for the next vblank  *)
(* and may leave an event for its client to read.                           *)
(***************************************************************************)
EXTENDS Integers

CONSTANTS
  Rewrites,   (* values of DRM_DUMP_MODE, "" for none                       *)
  MaxErrors   (* bound: calls that the driver refuses, and late vblanks     *)

ASSUME DrmOutputAssumption ==
  /\ Rewrites \subseteq {"", "setcrtc", "noevent", "strip"} /\ Rewrites # {}
  /\ MaxErrors \in Nat

VARIABLES
  drm,    (* the driver: front (frame scanned out), flip (frame that waits for *)
          (* the vblank, or None), wanted (with event), events (not yet read) *)
  shim,   (* DRM_DUMP_MODE, and first_done                                   *)
  iv,     (* drm-image-view: pc, back, whether a flip came late, and flips    *)
          (* counted minus flips completed                                  *)
  errors  (* calls refused so far                                          *)

drmVars == <<drm, shim, iv, errors>>

None == "none"
Buffers == <<"buffer 0", "buffer 1">>

DrmInit ==
  /\ drm = [front |-> "SPL logo", flip |-> None, wanted |-> FALSE, events |-> 0]
  /\ shim \in [mode : Rewrites, first_done : {FALSE}]
  /\ iv = [pc |-> "off", back |-> 0, late |-> FALSE, lead |-> 0, torn |-> FALSE]
  /\ errors = 0
-----------------------------------------------------------------------------
(* The driver.                                                              *)

ModeSet(d, fb) == [d EXCEPT !.front = fb]
PageFlip(d, fb) == [d EXCEPT !.flip = fb, !.wanted = TRUE]

Vblank ==
  /\ drm.flip # None
  /\ drm' = [front |-> drm.flip, flip |-> None, wanted |-> FALSE,
             events |-> IF drm.wanted THEN drm.events + 1 ELSE drm.events]
  /\ iv' = [iv EXCEPT !.lead = IF iv.pc = "off" THEN 0 ELSE @ - 1]
  /\ UNCHANGED <<shim, errors>>

\* The client is gone, and with it its frames and its events
Closed == [front |-> "off", flip |-> None, wanted |-> FALSE, events |-> 0]
-----------------------------------------------------------------------------
(* The shim. A result is what the driver has done and whether the caller     *)
(* sees an error.                                                           *)

Result(d, failed) == [drm |-> d, failed |-> failed]

\* Weston's commit as it is: not blocking, with an event at the vblank
RealAtomic(fb) == {Result(PageFlip(drm, fb), FALSE), Result(drm, TRUE)}

\* Whether the commit has a property. The connector may be without "max bpc".
find_prop(want) == IF want = "max bpc" THEN BOOLEAN ELSE {TRUE}

\* Bug: nothing stands in for the event of the commit
SetcrtcWithoutFlip(fb) == {Result(ModeSet(drm, fb), FALSE), Result(drm, TRUE)}
\* SETCRTC, then PAGE_FLIP to the same frame for its event; both may be refused.
\* Without a property that it needs the commit goes on as it is.
do_setcrtc(fb) ==
  LET set == ModeSet(drm, fb)
  IN UNION {IF found
            THEN {Result(PageFlip(set, fb), FALSE), Result(set, TRUE), Result(drm, TRUE)}
            ELSE RealAtomic(fb) : found \in find_prop("max bpc")}

\* Bug: PAGE_FLIP_EVENT is left in the commit
NoeventWithEvent(fb) ==
  LET set == [ModeSet(drm, fb) EXCEPT !.events = @ + 1]
  IN {Result(PageFlip(set, fb), FALSE), Result(set, TRUE), Result(drm, TRUE)}
\* The commit blocking and without event, then PAGE_FLIP
do_noevent(fb) ==
  LET set == ModeSet(drm, fb)
  IN {Result(PageFlip(set, fb), FALSE), Result(set, TRUE), Result(drm, TRUE)}

\* The commit without VRR_ENABLED and max bpc, its flags as they are
do_strip(fb) == RealAtomic(fb)

Rewritten(fb) ==
  CASE shim.mode = "setcrtc" -> do_setcrtc(fb)
    [] shim.mode = "noevent" -> do_noevent(fb)
    [] shim.mode = "strip" -> do_strip(fb)

\* Weston's ioctl: only the first real commit with ALLOW_MODESET is rewritten
Commit(fb, modeset, failed) ==
  LET first == modeset /\ ~shim.first_done /\ shim.mode # ""
  IN /\ drm.flip = None
     /\ \E r \in IF first THEN Rewritten(fb) ELSE RealAtomic(fb) :
          drm' = r.drm /\ failed = r.failed
     /\ failed => errors < MaxErrors
     /\ errors' = IF failed THEN errors + 1 ELSE errors
     /\ shim' = [shim EXCEPT !.first_done = @ \/ first]
\* Weston's read, which the shim logs: all events there are
ReadEvents(d) == [d EXCEPT !.events = 0]
-----------------------------------------------------------------------------
(* drm-image-view.                                                          *)

Buffer(b) == Buffers[b + 1]
Swap(b) == 1 - b

\* Open card0, which makes it master: whoever starts it has stopped weston. A
\* connector with a mode, its CRTC and a buffer, or it ends; then the picture, if its
\* file is there.
IvStart ==
  /\ iv.pc = "off" /\ drm.flip = None
  /\ iv' = [pc |-> "setcrtc", back |-> 1, late |-> FALSE, lead |-> 0, torn |-> FALSE]
  /\ UNCHANGED <<drm, shim, errors>>

\* Without --animate it shows the picture and pauses
IvSetCrtc ==
  /\ iv.pc = "setcrtc" /\ drm' = ModeSet(drm, Buffer(0))
  /\ \E pc \in {"pause", "draw"} : iv' = [iv EXCEPT !.pc = pc]
  /\ UNCHANGED <<shim, errors>>

\* SETCRTC is refused
IvRefused ==
  /\ iv.pc = "setcrtc" /\ errors < MaxErrors /\ errors' = errors + 1
  /\ iv' = [iv EXCEPT !.pc = "off", !.back = 0]
  /\ UNCHANGED <<drm, shim>>

IvDraw ==
  /\ iv.pc = "draw"
  /\ iv' = [iv EXCEPT !.pc = "flip",
                      !.torn = @ \/ (~iv.late /\ Buffer(iv.back) \in {drm.front, drm.flip})]
  /\ UNCHANGED <<drm, shim, errors>>

\* Bug: a frame whose flip was refused counts and is swapped too
CountedAlways(i) == [i EXCEPT !.pc = "draw", !.lead = @ + 1]
\* The flip of the last frame is still under way: draw again
Busy(i) == [i EXCEPT !.pc = "draw"]

IvFlip ==
  /\ iv.pc = "flip"
  /\ IF drm.flip = None
     THEN drm' = PageFlip(drm, Buffer(iv.back)) /\ iv' = [iv EXCEPT !.pc = "poll"]
     ELSE UNCHANGED drm /\ iv' = Busy(iv)
  /\ UNCHANGED <<shim, errors>>

\* Bug: the buffers are not swapped
CountedOnly(i) == [i EXCEPT !.pc = "draw", !.lead = @ + 1]
Flipped(i) == [i EXCEPT !.pc = "draw", !.lead = @ + 1, !.back = Swap(@)]

\* One read takes all events there are
IvRead ==
  /\ iv.pc = "poll" /\ drm.events > 0
  /\ drm' = ReadEvents(drm)
  /\ iv' = Flipped(iv)
  /\ UNCHANGED <<shim, errors>>

\* No event for 1000 ms: it goes on as if there had been one
IvTimeout ==
  /\ iv.pc = "poll" /\ drm.events = 0 /\ errors < MaxErrors
  /\ errors' = errors + 1
  /\ iv' = [Flipped(iv) EXCEPT !.late = TRUE]
  /\ UNCHANGED <<drm, shim>>

IvKill ==
  /\ iv.pc # "off" /\ drm' = Closed
  /\ iv' = [iv EXCEPT !.pc = "off", !.back = 0, !.late = FALSE, !.lead = 0]
  /\ UNCHANGED <<shim, errors>>

IvLoop == IvSetCrtc \/ IvRefused \/ IvDraw \/ IvFlip \/ IvRead
-----------------------------------------------------------------------------
(* Properties.                                                              *)

\* The rate that drm-image-view prints is that of the panel: it never counts a flip
\* twice nor misses one, not even after a flip that came late.
FlipsAreReal == iv.lead \in -1..1

\* It draws into the buffer that is neither on the panel nor about to be, until a
\* flip comes late.
DrawsBehind == ~iv.torn
=============================================================================
