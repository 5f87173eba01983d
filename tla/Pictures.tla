------------------------------ MODULE Pictures ------------------------------
(***************************************************************************)
(* How splash-wl and wl-image-view come to their picture: the globals that    *)
(* the compositor offers, the size that it configures, and the pixels. The    *)
(* logo of splash-wl takes over from the one that the SPL has drawn.          *)
(***************************************************************************)
EXTENDS Integers

CONSTANTS
  Logo,       (* [x, y, w, h, bits]: its place, its size, bits that are set   *)
  Panel,      (* [w, h]: the frame buffer of the SPL                        *)
  Fallback,   (* [w, h]: the size of a window that is not told one           *)
  Asked,      (* widths and heights that the compositor asks for, 0 for none  *)
  ImageSizes, (* sizes that wl-image-view is told                           *)
  FileLens    (* pixels in its file                                         *)

ASSUME PicturesAssumption ==
  /\ {Logo.x, Logo.y, Logo.w, Logo.h, Panel.w, Panel.h, Fallback.w, Fallback.h} \subseteq Nat
  /\ Logo.x + Logo.w <= Panel.w /\ Logo.y + Logo.h <= Panel.h
  /\ Asked \subseteq Nat /\ FileLens \subseteq Nat
  /\ \A size \in ImageSizes : size.w \in Nat /\ size.h \in Nat

VARIABLES
  prog,       (* "splash-wl" or "wl-image-view"                             *)
  step,       (* where it is                                                *)
  offered,    (* globals that the compositor has yet to announce             *)
  bound,      (* those it has bound                                         *)
  win,        (* win_w, win_h, and configured                               *)
  img,        (* img_w, img_h, the length of the file, and got               *)
  at,         (* row and col in the logo                                    *)
  buf,        (* width and height of the buffer                             *)
  px          (* pixels written, by their number in the buffer               *)

picVars == <<prog, step, offered, bound, win, img, at, buf, px>>

Needed == {"wl_compositor", "wl_shm", "xdg_wm_base"}
Globals == Needed \cup {"wl_seat"}
Black == "black"
White == "white"

PicInit ==
  /\ \/ prog = "splash-wl" /\ step = "globals" /\ img = [w |-> 0, h |-> 0, len |-> 0, got |-> 0]
     \/ /\ prog = "wl-image-view" /\ step = "read"
        /\ \E size \in ImageSizes, len \in FileLens :
             img = [w |-> size.w, h |-> size.h, len |-> len, got |-> 0]
  /\ \E missing \in {{}} \cup {{g} : g \in Needed} : offered = Globals \ missing
  /\ bound = {} /\ win = [w |-> Fallback.w, h |-> Fallback.h, configured |-> FALSE]
  /\ at = [row |-> 0, col |-> 0] /\ buf = [w |-> 0, h |-> 0] /\ px = <<>>
-----------------------------------------------------------------------------
(* Callbacks of Wayland, the same text in both.                             *)

registry_global ==
  \E g \in offered :
    /\ step = "globals" /\ offered' = offered \ {g}
    /\ bound' = IF g \in Needed THEN bound \cup {g} ELSE bound
    /\ UNCHANGED <<prog, step, win, img, at, buf, px>>

top_configure ==
  \E w, h \in Asked :
    /\ step \in {"configure", "shown"}
    /\ win' = [win EXCEPT !.w = IF w > 0 THEN w ELSE @, !.h = IF h > 0 THEN h ELSE @]
    /\ UNCHANGED <<prog, step, offered, bound, img, at, buf, px>>

xdg_configure ==
  /\ step = "configure" /\ win' = [win EXCEPT !.configured = TRUE]
  /\ UNCHANGED <<prog, step, offered, bound, img, at, buf, px>>

top_close ==
  /\ step \in {"configure", "shown"} /\ step' = "ended"
  /\ UNCHANGED <<prog, offered, bound, win, img, at, buf, px>>

SplashGlobal == prog = "splash-wl" /\ registry_global
SplashTop == prog = "splash-wl" /\ top_configure
SplashXdg == prog = "splash-wl" /\ xdg_configure
SplashClose == prog = "splash-wl" /\ top_close
ViewGlobal == prog = "wl-image-view" /\ registry_global
ViewTop == prog = "wl-image-view" /\ top_configure
ViewXdg == prog = "wl-image-view" /\ xdg_configure
ViewClose == prog = "wl-image-view" /\ top_close

GoTo(next) == step' = next /\ UNCHANGED <<prog, offered, bound, win, img, at, buf>>

\* The roundtrip is over; without one of the globals it ends
Bound ==
  /\ step = "globals" /\ offered = {}
  /\ GoTo(IF bound = Needed THEN "configure" ELSE "ended") /\ UNCHANGED px

\* A dispatch may have taken more than one event. The buffer gets the size of now.
Configured ==
  /\ step = "configure" /\ win.configured /\ step' = "draw" /\ buf' = [w |-> win.w, h |-> win.h]
  /\ UNCHANGED <<prog, offered, bound, win, img, at, px>>
-----------------------------------------------------------------------------
(* The pictures.                                                            *)

Pixels == 0..win.w * win.h - 1
Row(i) == i \div win.w
Col(i) == i % win.w

\* A store at its number in the buffer, or behind it
Put(y, x, colour) ==
  LET n == y * win.w + x IN px' = [i \in DOMAIN px \cup {n} |-> IF i = n THEN colour ELSE px[i]]

\* splash-wl: all black, then the logo, as much of it as fits
Fill ==
  /\ prog = "splash-wl" /\ step = "draw" /\ GoTo("logo") /\ px' = [i \in Pixels |-> Black]

\* Bug: one column too many
OnePast(x) == x > win.w
Beside(x) == x >= win.w

draw ==
  LET y == Logo.y + at.row
      x == Logo.x + at.col
  IN /\ step = "logo"
     /\ IF at.row >= Logo.h \/ y >= win.h THEN GoTo("shown") /\ UNCHANGED px
        ELSE /\ at' = IF at.col >= Logo.w \/ Beside(x) THEN [row |-> at.row + 1, col |-> 0]
                      ELSE [at EXCEPT !.col = @ + 1]
             /\ IF at.col < Logo.w /\ ~Beside(x) /\ at.row * Logo.w + at.col \in Logo.bits
                THEN Put(y, x, White) ELSE UNCHANGED px
             /\ UNCHANGED <<prog, step, offered, bound, win, img, buf>>

\* wl-image-view reads its file first; a short one ends it
ViewRead ==
  /\ step = "read" /\ img.got < img.w * img.h
  /\ IF img.got < img.len
     THEN \E n \in 1..img.len - img.got :
            /\ img.got + n <= img.w * img.h /\ img' = [img EXCEPT !.got = @ + n]
            /\ UNCHANGED <<prog, step, offered, bound, win, at, buf, px>>
     ELSE GoTo("ended") /\ UNCHANGED px

ViewOpened == step = "read" /\ img.got = img.w * img.h /\ GoTo("globals") /\ UNCHANGED px

Pixel(y, x) == y * img.w + x
\* In the upper left corner, black beside it
ViewPlace ==
  /\ prog = "wl-image-view" /\ step = "draw" /\ GoTo("shown")
  /\ px' = [i \in Pixels |->
              IF Col(i) < img.w /\ Row(i) < img.h THEN Pixel(Row(i), Col(i)) ELSE Black]

Callbacks ==
  \/ SplashGlobal \/ SplashTop \/ SplashXdg \/ SplashClose
  \/ ViewGlobal \/ ViewTop \/ ViewXdg \/ ViewClose
PicNext ==
  Callbacks \/ Bound \/ Configured \/ Fill \/ draw \/ ViewRead \/ ViewOpened \/ ViewPlace
-----------------------------------------------------------------------------
(* Properties.                                                              *)

\* The SPL: the frame buffer is black, and the set bits of the logo are white
spl_splash_blit_logo ==
  [i \in 0..Panel.w * Panel.h - 1 |->
     IF \E row \in 0..Logo.h - 1, col \in 0..Logo.w - 1 :
          i = (Logo.y + row) * Panel.w + Logo.x + col /\ row * Logo.w + col \in Logo.bits
     THEN White ELSE Black]

OnPanel(y, x) ==
  IF x < Panel.w /\ y < Panel.h THEN spl_splash_blit_logo[y * Panel.w + x] ELSE Black
InImage(y, x) == IF x < img.w /\ y < img.h THEN Pixel(y, x) ELSE Black

\* Whatever size the window gets, the picture fills its buffer and nothing behind it:
\* splash-wl's has each pixel of the panel as the SPL has left it, clipped, and
\* wl-image-view's those of its file, with black beside them.
ShowsPicture ==
  step = "shown" =>
    /\ DOMAIN px = 0..buf.w * buf.h - 1
    /\ \A y \in 0..buf.h - 1, x \in 0..buf.w - 1 :
         px[y * buf.w + x] = IF prog = "splash-wl" THEN OnPanel(y, x) ELSE InImage(y, x)
=============================================================================
