---------------------------- MODULE PartsProofs ----------------------------
(***************************************************************************)
(* Proofs about the small parts of MCParts: the environment in two copies,    *)
(* for every modulus of the serial numbers; the pictures of the Wayland       *)
(* clients, for every logo, panel and window; the libc of the M4, for every   *)
(* size of memory and every number of 32 bits; and the way of a kick to the   *)
(* firmware, for every firmware and any number of boots.                    *)
(***************************************************************************)
EXTENDS MCParts, TLAPS

(* The environment in two copies.                                          *)

\* The copy in use is sound unless the eMMC lost both, and while nothing failed its
\* serial number is the one in RAM, counted already while a save is under way.
UsedSound ==
  /\ ~lost => IF pc = "off" THEN Valid # 0 ELSE copy[used].ok
  /\ pc = "ready" /\ ~skipped /\ Valid # 0
       => Valid = used /\ copy[used].serial = serial /\ copy[used].val = ram
  /\ pc = "saving" /\ ~skipped /\ copy[used].ok
       => serial = (copy[used].serial + 1) % SerialMod
  /\ pc = "saving" => ~copy[OtherCopy(used)].ok

EInv == TypeOK /\ UsedSound

\* The successor of a serial number is newer than it, and only it.
LEMMA SuccNewer ==
  ASSUME NEW s \in Serials, NEW t \in Serials, t = (s + 1) % SerialMod
  PROVE  /\ \/ t = 0 /\ s = SerialMod - 1
            \/ t > s /\ ~(s = 0 /\ t = SerialMod - 1)
         /\ ~(s = 0 /\ t = SerialMod - 1)
         /\ s > t => t = 0 /\ s = SerialMod - 1
<1>1. CASE s = SerialMod - 1
  <2>1. (s + 1) % SerialMod = 0
    BY <1>1, EnvStoreAssumption
  <2> QED
    BY <1>1, <2>1, EnvStoreAssumption DEF Serials
<1>2. CASE s # SerialMod - 1
  <2>1. (s + 1) % SerialMod = s + 1
    BY <1>2, EnvStoreAssumption DEF Serials
  <2> QED
    BY <1>2, <2>1, EnvStoreAssumption DEF Serials
<1> QED
  BY <1>1, <1>2

\* The first state.
LEMMA InitEInv == Init => EInv
<1> SUFFICES ASSUME Init PROVE EInv
  OBVIOUS
<1> USE EnvStoreAssumption
<1>1. copy \in [Copies -> [ok : BOOLEAN, serial : Serials, val : Slots]]
  BY DEF Init, Serials, Slots
<1>a. skipped \in BOOLEAN /\ lost \in BOOLEAN
  BY Zenon DEF Init
<1>b. errors \in 0..MaxErrors /\ serial \in Serials
  BY DEF Init, Serials
<1>2. TypeOK
  BY <1>1, <1>a, <1>b, Zenon DEF Init, TypeOK, Slots, Copies
<1>3. copy[1].ok /\ copy[2].ok
  BY DEF Init, Copies
<1>4. Valid # 0 /\ pc = "off"
  BY <1>3 DEF Init, Valid
<1>5. UsedSound
  BY <1>4 DEF UsedSound
<1> QED
  BY <1>2, <1>5 DEF EInv

\* Every step keeps the types.
LEMMA NextTypes == TypeOK /\ [Next]_vars => TypeOK'
<1> SUFFICES ASSUME TypeOK, [Next]_vars PROVE TypeOK'
  OBVIOUS
<1> USE EnvStoreAssumption DEF TypeOK, Copies, Slots, OtherCopy, SaveTarget
<1>1. CASE Load
  <2>1. Valid \in {0, 1, 2} /\ Read \in Slots
    BY DEF Valid, Read, DefaultSlot
  <2>2. serial' \in Serials /\ used' \in Copies
    BY <1>1, <2>1 DEF Load, Serials
  <2> QED
    BY <1>1, <2>1, <2>2 DEF Load
<1>0. NextSerial \in Serials
  BY DEF NextSerial, Serials
<1>2. ASSUME NEW v \in Slots, StartSave(v) PROVE TypeOK'
  BY <1>0, <1>2 DEF StartSave
<1>3. ASSUME NEW v \in Slots, SaveRefused(v) PROVE TypeOK'
  BY <1>0, <1>3 DEF SaveRefused
<1>4. CASE FinishSave
  <2>1. copy' \in [Copies -> [ok : BOOLEAN, serial : Serials, val : Slots]]
    BY <1>4 DEF FinishSave
  <2>2. lost' \in BOOLEAN
    BY <1>4, Zenon DEF FinishSave
  <2> QED
    BY <1>4, <2>1, <2>2 DEF FinishSave
<1>5. CASE SaveError
  BY <1>5 DEF SaveError
<1>6. CASE Stop
  BY <1>6 DEF Stop
<1>7. CASE Rot
  <2>1. copy' \in [Copies -> [ok : BOOLEAN, serial : Serials, val : Slots]]
    BY <1>7 DEF Rot
  <2>2. lost' \in BOOLEAN
    BY <1>7, Zenon DEF Rot
  <2> QED
    BY <1>7, <2>1, <2>2 DEF Rot
<1>8. CASE UNCHANGED vars
  BY <1>8 DEF vars
<1> QED
  BY <1>1, <1>2, <1>3, <1>4, <1>5, <1>6, <1>7, <1>8 DEF Next

\* Every step keeps the copy in use sound.
LEMMA NextSound == EInv /\ [Next]_vars => UsedSound'
<1> SUFFICES ASSUME EInv, [Next]_vars PROVE UsedSound'
  OBVIOUS
<1>t. TypeOK /\ TypeOK'
  BY NextTypes DEF EInv
<1> USE <1>t, EnvStoreAssumption DEF EInv, TypeOK, Copies, Slots, OtherCopy, SaveTarget, UsedSound
<1>1. CASE Load
  BY <1>1 DEF Load, Read, Valid, Newer
<1>2. ASSUME NEW v \in Slots, StartSave(v) PROVE UsedSound'
  <2>1. ~lost => copy[used].ok
    BY <1>2 DEF StartSave
  <2>2. copy'[used] = copy[used] /\ ~copy'[3 - used].ok
    BY <1>2 DEF StartSave
  <2>3. ~skipped /\ copy[used].ok => copy[used].serial = serial
    BY <1>2 DEF StartSave, Valid, Newer
  <2> QED
    BY <1>2, <2>1, <2>2, <2>3 DEF StartSave, NextSerial
<1>3. ASSUME NEW v \in Slots, SaveRefused(v) PROVE UsedSound'
  BY <1>3 DEF SaveRefused
<1>4. CASE FinishSave
  <2>1. copy'[used'] = [ok |-> TRUE, serial |-> serial, val |-> ram]
        /\ copy'[3 - used'] = copy[used]
    BY <1>4 DEF FinishSave
  <2>2. skipped' \/ Valid' = used'
    <3>1. CASE skipped \/ ~copy[used].ok
      BY <1>4, <2>1, <3>1 DEF FinishSave, Valid
    <3>2. CASE ~skipped /\ copy[used].ok
      <4>1. serial = (copy[used].serial + 1) % SerialMod
        BY <1>4, <3>2 DEF FinishSave
      <4>2. copy[used].serial \in Serials /\ serial \in Serials
        OBVIOUS
      <4>3. (Newer(used, OtherCopy(used)) /\ ~Newer(OtherCopy(used), used))'
        <5>1. copy'[used'].serial = serial /\ copy'[3 - used'].serial = copy[used].serial
          BY <2>1
        <5> HIDE DEF TypeOK, UsedSound, Copies
        <5> QED
          BY <4>1, <4>2, <5>1, SuccNewer DEF Newer, Serials
      <4> QED
        BY <1>4, <2>1, <3>2, <4>3 DEF FinishSave, Valid
    <3> QED
      BY <3>1, <3>2
  <2> QED
    BY <1>4, <2>1, <2>2 DEF FinishSave
<1>5. CASE SaveError
  BY <1>5 DEF SaveError
<1>6. CASE Stop
  BY <1>6 DEF Stop, Valid
<1>7. CASE Rot
  BY <1>7 DEF Rot
<1>8. CASE UNCHANGED vars
  BY <1>8 DEF vars, Valid, Newer
<1> QED
  BY <1>1, <1>2, <1>3, <1>4, <1>5, <1>6, <1>7, <1>8 DEF Next

\* The inductive invariant holds.
LEMMA AlwaysEInv == Spec => []EInv
  BY InitEInv, NextTypes, NextSound, PTL DEF Spec, EInv

\* No cut and no failed write leaves the board without a valid environment.
THEOREM AlwaysReadable == Spec => []NeverDefault
<1>1. EInv => NeverDefault
  BY DEF EInv, TypeOK, UsedSound, NeverDefault, Valid, Copies
<1> QED
  BY <1>1, AlwaysEInv, PTL

\* Every later load reads the last finished save, however serial numbers wrap.
THEOREM LastSaveWins == Spec => []LastSaveIsRead
<1>1. EInv => LastSaveIsRead
  BY DEF EInv, UsedSound, LastSaveIsRead, Read
<1> QED
  BY <1>1, AlwaysEInv, PTL

\* What a load would read depends on the copies only.
LEMMA SameRead == ASSUME copy' = copy PROVE Read' = Read
  BY DEF Read, Valid, Newer

\* Beginning a save takes nothing away from what a load would read.
LEMMA StartKeepsRead ==
  ASSUME EInv, ~skipped, NEW v \in Slots, StartSave(v) PROVE Read' = Read
<1> USE DEF EInv, TypeOK, UsedSound, Copies, OtherCopy, SaveTarget
<1>1. copy'[used] = copy[used] /\ ~copy'[3 - used].ok /\ pc = "ready"
  BY DEF StartSave
<1>2. CASE copy[used].ok
  <2>1. Valid = used
    BY <1>1, <1>2 DEF Valid
  <2>2. Valid' = used
    BY <1>1, <1>2 DEF Valid
  <2> QED
    BY <1>1, <2>1, <2>2 DEF Read
<1>3. CASE ~copy[used].ok
  <2>1. Valid = 0
    BY <1>1, <1>3 DEF Valid
  <2>2. Valid' = 0
    BY <1>1, <1>3 DEF Valid
  <2> QED
    BY <2>1, <2>2 DEF Read
<1> QED
  BY <1>2, <1>3

\* A save is read entirely or not at all: env_save and fw_setenv write the copy that
\* is not in use.
THEOREM SavesAreAtomic == Spec => AtomicSave
<1>1. EInv /\ EInv' /\ [Next]_vars
        => [~skipped /\ Read' # Read => Rot \/ (FinishSave /\ Read' = ram)]_vars
  <2> SUFFICES ASSUME EInv, EInv', Next, ~skipped, Read' # Read, ~Rot
               PROVE  FinishSave /\ Read' = ram
    OBVIOUS
  <2>1. FinishSave
    <3>1. ~ \E v \in Slots : StartSave(v)
      BY StartKeepsRead
    <3>2. ~(Load \/ SaveError \/ Stop \/ \E v \in Slots : SaveRefused(v))
      BY SameRead DEF Load, SaveError, Stop, SaveRefused
    <3> QED
      BY <3>1, <3>2 DEF Next
  <2>2. pc' = "ready" /\ ~skipped' /\ ram' = ram /\ copy'[used'].ok
    BY <2>1 DEF FinishSave, EInv, TypeOK, Copies, OtherCopy, SaveTarget
  <2>3. Valid' # 0
    BY <2>2 DEF EInv, TypeOK, Copies, Valid
  <2>4. Valid' = used' /\ copy'[used'].val = ram'
    BY <2>2, <2>3 DEF EInv, UsedSound
  <2> QED
    BY <2>1, <2>2, <2>3, <2>4 DEF Read
<1> QED
  BY <1>1, AlwaysEInv, PTL DEF Spec, AtomicSave
-----------------------------------------------------------------------------
(* Places in a frame buffer of w columns.                                   *)

LEMMA Mono ==
  ASSUME NEW w \in Nat, NEW y \in Nat, NEW h \in Nat, y <= h PROVE y * w <= h * w
<1>1. PICK d \in Nat : h = y + d
  <2>1. h - y \in Nat /\ h = y + (h - y)
    OBVIOUS
  <2> QED
    BY <2>1
<1>2. (y + d) * w = y * w + d * w
  OBVIOUS
<1>3. d * w \in Nat /\ y * w \in Nat
  OBVIOUS
<1> QED
  BY <1>1, <1>2, <1>3

LEMMA Brackets ==
  ASSUME NEW a \in Nat, NEW b \in Nat, NEW c \in Nat PROVE a + b + c = a + (b + c)
  OBVIOUS

LEMMA Inside ==
  ASSUME NEW w \in Nat, NEW h \in Nat, NEW y \in 0..h-1, NEW x \in 0..w-1
  PROVE  y * w + x \in 0..w * h - 1
<1>1. y \in Nat /\ x \in Nat /\ y + 1 <= h /\ y + 1 \in Nat /\ x + 1 <= w
  OBVIOUS
<1>2. (y + 1) * w <= h * w
  BY <1>1, Mono
<1>3. (y + 1) * w = y * w + w /\ h * w = w * h /\ y * w \in Nat /\ w * h \in Nat
  BY <1>1
<1> QED
  BY <1>1, <1>2, <1>3

LEMMA RowsApart ==
  ASSUME NEW w \in Nat, NEW y \in Nat, NEW z \in Nat, NEW x \in 0..w-1, NEW v \in Nat, y < z
  PROVE  y * w + x < z * w + v
<1>1. y + 1 <= z /\ y + 1 \in Nat
  OBVIOUS
<1>2. (y + 1) * w <= z * w
  BY <1>1, Mono
<1>3. (y + 1) * w = y * w + w /\ y * w \in Nat /\ z * w \in Nat
  OBVIOUS
<1> QED
  BY <1>2, <1>3

\* No two places have the same number.
LEMMA OnePlace ==
  ASSUME NEW w \in Nat, NEW y \in Nat, NEW z \in Nat, NEW x \in 0..w-1, NEW v \in 0..w-1,
         y * w + x = z * w + v
  PROVE  y = z /\ x = v
<1>1. y * w + x \in Nat /\ z * w + v \in Nat
  OBVIOUS
<1>2. ~(y < z) /\ ~(z < y)
  BY <1>1, RowsApart
<1>3. y = z
  BY <1>2
<1>4. y * w \in Nat
  OBVIOUS
<1> QED
  BY <1>3, <1>4

LEMMA PlaceOf ==
  ASSUME NEW w \in Nat, NEW y \in Nat, NEW x \in 0..w-1
  PROVE  (y * w + x) \div w = y /\ (y * w + x) % w = x
<1> DEFINE n == y * w + x
           q == n \div w
           r == n % w
<1>1. n \in Nat /\ w \in Nat \ {0}
  OBVIOUS
<1> HIDE DEF n
<1>2. q \in Nat /\ r \in 0..w-1 /\ n = w * q + r
  BY <1>1
<1> HIDE DEF q, r
<1>3. w * q = q * w
  BY <1>1, <1>2
<1>4. q * w + r = y * w + x
  BY <1>2, <1>3 DEF n
<1>5. q = y /\ r = x
  BY <1>2, <1>4, OnePlace
<1> QED
  BY <1>5 DEF n, q, r

\* The number of a place, as one word.
Place(w, y, x) == y * w + x

LEMMA PlacesApart ==
  ASSUME NEW w \in Nat, NEW y \in Nat, NEW z \in Nat, NEW x \in 0..w-1, NEW v \in 0..w-1,
         Place(w, y, x) = Place(w, z, v)
  PROVE  y = z /\ x = v
  BY OnePlace DEF Place

LEMMA PlaceIs ==
  ASSUME NEW w \in Nat, NEW y \in Nat, NEW x \in 0..w-1
  PROVE  Place(w, y, x) \div w = y /\ Place(w, y, x) % w = x
  BY PlaceOf DEF Place
-----------------------------------------------------------------------------
(* The pictures.                                                            *)

PicTypes ==
  /\ DOMAIN win = {"w", "h", "configured"} /\ win.w \in Nat /\ win.h \in Nat
  /\ DOMAIN img = {"w", "h", "len", "got"} /\ img.w \in Nat /\ img.h \in Nat
  /\ DOMAIN at = {"row", "col"} /\ at.row \in Nat /\ at.col \in Nat
  /\ step = "logo" => prog = "splash-wl"
  /\ step \in {"read", "globals", "configure", "draw"} => at.row = 0 /\ at.col = 0

\* The window keeps its size while it is drawn
SizeIsKept == step \in {"draw", "logo"} => buf.w = win.w /\ buf.h = win.h

InLogo(r, c) == r \in 0..Logo.h - 1 /\ c \in 0..Logo.w - 1 /\ r * Logo.w + c \in Logo.bits

\* Where the loops have been
Before(r, c, row, col) == r < row \/ (r = row /\ c < col)
Done(r, c) == Before(r, c, at.row, at.col)

LogoSoFar ==
  step = "logo" =>
    /\ DOMAIN px = 0..win.w * win.h - 1
    /\ \A y \in 0..win.h - 1, x \in 0..win.w - 1 :
         px[y * win.w + x] =
           IF InLogo(y - Logo.y, x - Logo.x) /\ Done(y - Logo.y, x - Logo.x) THEN White ELSE Black

PicInv == PicTypes /\ SizeIsKept /\ LogoSoFar /\ ShowsPicture

LEMMA LogoIs ==
  /\ Logo.x \in Nat /\ Logo.y \in Nat /\ Logo.w \in Nat /\ Logo.h \in Nat
  /\ Panel.w \in Nat /\ Panel.h \in Nat /\ Fallback.w \in Nat /\ Fallback.h \in Nat
  /\ Logo.x + Logo.w <= Panel.w /\ Logo.y + Logo.h <= Panel.h
  BY PicturesAssumption

\* A turn of the loops: what is left out is not in the logo, or beside the window.
LEMMA LastRow ==
  ASSUME NEW row \in Nat, NEW col \in Nat, NEW H \in Nat, NEW r \in Int, NEW c \in Int,
         InLogo(r, c), Logo.y + r < H, row >= Logo.h \/ Logo.y + row >= H
  PROVE  Before(r, c, row, col)
  BY LogoIs DEF InLogo, Before

LEMMA NextRow ==
  ASSUME NEW row \in Nat, NEW col \in Nat, NEW W \in Nat, NEW r \in Int, NEW c \in Int,
         InLogo(r, c), Logo.x + c < W, col >= Logo.w \/ Logo.x + col >= W
  PROVE  Before(r, c, row, col) <=> Before(r, c, row + 1, 0)
<1>1. 0 <= r /\ 0 <= c /\ c < col
  BY LogoIs DEF InLogo
<1> QED
  BY <1>1 DEF Before

LEMMA NextCol ==
  ASSUME NEW row \in Nat, NEW col \in Nat, NEW r \in Int, NEW c \in Int, ~(r = row /\ c = col)
  PROVE  Before(r, c, row, col) <=> Before(r, c, row, col + 1)
  BY DEF Before

LEMMA Shifted ==
  ASSUME NEW a \in Nat, NEW b \in Nat, NEW c \in Nat
  PROVE  /\ b + c \in Nat /\ b + c - b = c /\ (a - b = c => a = b + c)
         /\ (~(a <= c) => c \in 0..a - 1) /\ (~(c >= a) => c \in 0..a - 1)
  OBVIOUS

LEMMA InTheLogo ==
  ASSUME NEW y \in Nat, NEW x \in Nat
  PROVE  /\ y - Logo.y \in Int /\ x - Logo.x \in Int
         /\ Logo.y + (y - Logo.y) = y /\ Logo.x + (x - Logo.x) = x
  BY LogoIs

\* What the SPL draws at a place of the panel, if its number is taken apart.
LEMMA SplDraws ==
  ASSUME NEW y \in Nat, NEW x \in Nat
  PROVE  OnPanel(y, x) = IF InLogo(y - Logo.y, x - Logo.x) THEN White ELSE Black
<1>1. CASE x < Panel.w /\ y < Panel.h
  <2> DEFINE i == y * Panel.w + x
  <2>1. x \in 0..Panel.w - 1 /\ y \in 0..Panel.h - 1
    BY <1>1, LogoIs
  <2>2. i \in 0..Panel.w * Panel.h - 1
    BY <2>1, LogoIs, Inside
  <2>3. OnPanel(y, x) =
          IF \E row \in 0..Logo.h - 1, col \in 0..Logo.w - 1 :
               i = (Logo.y + row) * Panel.w + Logo.x + col /\ row * Logo.w + col \in Logo.bits
          THEN White ELSE Black
    BY <1>1, <2>2 DEF OnPanel, spl_splash_blit_logo
  <2>4. ASSUME NEW row \in 0..Logo.h - 1, NEW col \in 0..Logo.w - 1,
               i = (Logo.y + row) * Panel.w + Logo.x + col, row * Logo.w + col \in Logo.bits
        PROVE  InLogo(y - Logo.y, x - Logo.x)
    <3>1. /\ Logo.y + row \in Nat /\ Logo.x + col \in 0..Panel.w - 1 /\ row \in Nat /\ col \in Nat
      BY LogoIs
    <3> DEFINE p == (Logo.y + row) * Panel.w
    <3>2. p \in Nat /\ Logo.x \in Nat /\ col \in Nat /\ Panel.w \in Nat
      BY <3>1, LogoIs
    <3>3. p + Logo.x + col = p + (Logo.x + col)
      <4> HIDE DEF p
      <4> QED
        BY <3>2, Brackets
    <3>4. y * Panel.w + x = (Logo.y + row) * Panel.w + (Logo.x + col)
      BY <2>4, <3>3, Zenon
    <3>5. y = Logo.y + row /\ x = Logo.x + col
      <4>1. Place(Panel.w, y, x) = Place(Panel.w, Logo.y + row, Logo.x + col)
        BY <3>4 DEF Place
      <4> QED
        <5> DEFINE z == Logo.y + row
                   v == Logo.x + col
        <5>1. z \in Nat /\ v \in 0..Panel.w - 1 /\ x \in 0..Panel.w - 1 /\ Panel.w \in Nat
          BY <2>1, <3>1, <3>2
        <5>2. Place(Panel.w, y, x) = Place(Panel.w, z, v)
          BY <4>1
        <5> HIDE DEF z, v
        <5>3. y = z /\ x = v
          BY <5>1, <5>2, PlacesApart
        <5> QED
          BY <5>3 DEF z, v
    <3>6. y - Logo.y = row /\ x - Logo.x = col
      BY <3>1, <3>5, LogoIs
    <3> QED
      BY <2>4, <3>6 DEF InLogo
  <2>5. ASSUME InLogo(y - Logo.y, x - Logo.x)
        PROVE  \E row \in 0..Logo.h - 1, col \in 0..Logo.w - 1 :
                 i = (Logo.y + row) * Panel.w + Logo.x + col /\ row * Logo.w + col \in Logo.bits
    <3>1. y - Logo.y \in 0..Logo.h - 1 /\ x - Logo.x \in 0..Logo.w - 1
      BY <2>5 DEF InLogo
    <3>2. Logo.y + (y - Logo.y) = y
      BY LogoIs
    <3>3. y * Panel.w \in Nat
      BY LogoIs
    <3>4. y * Panel.w + Logo.x + (x - Logo.x) = y * Panel.w + x
      BY <3>3, LogoIs
    <3>5. i = (Logo.y + (y - Logo.y)) * Panel.w + Logo.x + (x - Logo.x)
      BY <3>2, <3>4
    <3> QED
      BY <2>5, <3>1, <3>5 DEF InLogo
  <2> QED
    BY <2>3, <2>4, <2>5
<1>2. CASE ~(x < Panel.w /\ y < Panel.h)
  <2>1. ~InLogo(y - Logo.y, x - Logo.x)
    BY <1>2, LogoIs DEF InLogo
  <2> QED
    BY <1>2, <2>1 DEF OnPanel
<1> QED
  BY <1>1, <1>2

\* The callbacks change the size of the window only while it is not drawn.
LEMMA CallbackPic == ASSUME PicInv, Callbacks PROVE PicInv'
<1>0. /\ DOMAIN win = {"w", "h", "configured"} /\ win.w \in Nat /\ win.h \in Nat
      /\ Asked \subseteq Nat
  BY PicturesAssumption DEF PicInv, PicTypes
<1>1. CASE registry_global
  <2>1. UNCHANGED <<prog, step, win, img, at, buf, px>>
    BY <1>1 DEF registry_global
  <2> QED
    BY <2>1 DEF PicInv, PicTypes, SizeIsKept, LogoSoFar, Done, ShowsPicture, InImage, Pixel
<1>2. CASE top_configure
  <2>1. PICK w \in Asked, h \in Asked :
          /\ step \in {"configure", "shown"}
          /\ win' = [win EXCEPT !.w = IF w > 0 THEN w ELSE @, !.h = IF h > 0 THEN h ELSE @]
          /\ UNCHANGED <<prog, step, img, at, buf, px>>
    BY <1>2 DEF top_configure
  <2>2. DOMAIN win' = DOMAIN win /\ win'.w \in Nat /\ win'.h \in Nat
    BY <1>0, <2>1
  <2>3. PicTypes'
    BY <1>0, <2>1, <2>2 DEF PicInv, PicTypes
  <2>4. SizeIsKept' /\ LogoSoFar' /\ ShowsPicture'
    BY <2>1 DEF PicInv, SizeIsKept, LogoSoFar, ShowsPicture, InImage, Pixel
  <2> QED
    BY <2>3, <2>4 DEF PicInv
<1>3. CASE xdg_configure
  <2>1. /\ step = "configure" /\ win' = [win EXCEPT !.configured = TRUE]
        /\ UNCHANGED <<prog, step, img, at, buf, px>>
    BY <1>3 DEF xdg_configure
  <2>2. PicTypes'
    BY <1>0, <2>1 DEF PicInv, PicTypes
  <2>3. SizeIsKept' /\ LogoSoFar' /\ ShowsPicture'
    BY <2>1 DEF PicInv, SizeIsKept, LogoSoFar, ShowsPicture
  <2> QED
    BY <2>2, <2>3 DEF PicInv
<1>4. CASE top_close
  <2>1. step' = "ended" /\ UNCHANGED <<prog, win, img, at, buf, px>>
    BY <1>4 DEF top_close
  <2> QED
    BY <2>1 DEF PicInv, PicTypes, SizeIsKept, LogoSoFar, ShowsPicture
<1> QED
  BY <1>1, <1>2, <1>3, <1>4
  DEF Callbacks, SplashGlobal, SplashTop, SplashXdg, SplashClose, ViewGlobal, ViewTop, ViewXdg, ViewClose

LEMMA FillPic == ASSUME PicInv, Fill PROVE PicInv'
<1>1. /\ prog = "splash-wl" /\ step = "draw" /\ step' = "logo" /\ px' = [i \in Pixels |-> Black]
      /\ UNCHANGED <<prog, win, img, at, buf>>
  BY DEF Fill, GoTo
<1>2. at.row = 0 /\ at.col = 0 /\ win.w \in Nat /\ win.h \in Nat
  BY <1>1 DEF PicInv, PicTypes
<1>3. \A y \in 0..win.h - 1, x \in 0..win.w - 1 : y * win.w + x \in Pixels
  BY <1>2, Inside DEF Pixels
<1>4. \A y \in 0..win.h - 1, x \in 0..win.w - 1 : px'[y * win.w + x] = Black
  BY <1>1, <1>3
<1>5. ASSUME NEW y \in 0..win.h - 1, NEW x \in 0..win.w - 1
      PROVE  ~(InLogo(y - Logo.y, x - Logo.x) /\ Before(y - Logo.y, x - Logo.x, 0, 0))
  BY LogoIs DEF InLogo, Before
<1>6. LogoSoFar'
  BY <1>1, <1>2, <1>4, <1>5 DEF LogoSoFar, Done, Pixels
<1>7. PicTypes' /\ SizeIsKept' /\ ShowsPicture'
  BY <1>1 DEF PicInv, PicTypes, SizeIsKept, ShowsPicture
<1> QED
  BY <1>6, <1>7 DEF PicInv

\* The three ways that a turn of the loops can go.
LEMMA DrawIs ==
  ASSUME PicInv, draw
  PROVE  /\ step = "logo" /\ UNCHANGED <<prog, win, img, buf>>
         /\ \/ /\ at.row >= Logo.h \/ Logo.y + at.row >= win.h
               /\ step' = "shown" /\ UNCHANGED <<at, px>>
            \/ /\ at.col >= Logo.w \/ Logo.x + at.col >= win.w
               /\ at' = [row |-> at.row + 1, col |-> 0] /\ UNCHANGED <<step, px>>
            \/ /\ ~(at.row >= Logo.h) /\ ~(Logo.y + at.row >= win.h)
               /\ ~(at.col >= Logo.w) /\ ~(Logo.x + at.col >= win.w)
               /\ at' = [at EXCEPT !.col = @ + 1] /\ UNCHANGED step
               /\ \/ /\ at.row * Logo.w + at.col \in Logo.bits
                     /\ Put(Logo.y + at.row, Logo.x + at.col, White)
                  \/ at.row * Logo.w + at.col \notin Logo.bits /\ px' = px
<1> DEFINE y == Logo.y + at.row
           x == Logo.x + at.col
<1>0. at.col \in Nat /\ Logo.w \in Nat
  BY LogoIs DEF PicInv, PicTypes
<1>1. CASE at.row >= Logo.h \/ y >= win.h
  BY <1>1 DEF draw, GoTo
<1>2. CASE ~(at.row >= Logo.h \/ y >= win.h) /\ (at.col >= Logo.w \/ Beside(x))
  BY <1>0, <1>2 DEF draw, Beside
<1>3. CASE ~(at.row >= Logo.h \/ y >= win.h) /\ ~(at.col >= Logo.w \/ Beside(x))
  BY <1>0, <1>3 DEF draw, Beside
<1> QED
  BY <1>1, <1>2, <1>3

\* It does what it says at its place and nowhere else.
LEMMA DrawPic == ASSUME PicInv, draw PROVE PicInv'
<1> DEFINE y0 == Logo.y + at.row
           x0 == Logo.x + at.col
           Places0 == \A y \in 0..win.h - 1, x \in 0..win.w - 1 :
                        /\ y \in Nat /\ x \in Nat /\ y < win.h /\ x < win.w
                        /\ y - Logo.y \in Int /\ x - Logo.x \in Int
                        /\ Logo.y + (y - Logo.y) < win.h /\ Logo.x + (x - Logo.x) < win.w
<1>1. step = "logo" /\ UNCHANGED <<prog, win, img, buf>>
  BY DrawIs
<1>2. /\ prog = "splash-wl" /\ win.w \in Nat /\ win.h \in Nat /\ at.row \in Nat /\ at.col \in Nat
      /\ DOMAIN at = {"row", "col"} /\ buf.w = win.w /\ buf.h = win.h
      /\ DOMAIN px = 0..win.w * win.h - 1
  BY <1>1 DEF PicInv, PicTypes, SizeIsKept, LogoSoFar
<1>3. \A y \in 0..win.h - 1, x \in 0..win.w - 1 :
        px[y * win.w + x] =
          IF InLogo(y - Logo.y, x - Logo.x) /\ Done(y - Logo.y, x - Logo.x) THEN White ELSE Black
  BY <1>1 DEF PicInv, LogoSoFar
<1>4. Places0
  <2>1. ASSUME NEW y \in 0..win.h - 1, NEW x \in 0..win.w - 1
        PROVE  y \in Nat /\ x \in Nat /\ y < win.h /\ x < win.w
    BY <1>2
  <2> QED
    BY <2>1, InTheLogo
<1> HIDE DEF Places0
<1>5. CASE /\ at.row >= Logo.h \/ Logo.y + at.row >= win.h
           /\ step' = "shown" /\ UNCHANGED <<at, px>>
  <2>1. ASSUME NEW y \in 0..win.h - 1, NEW x \in 0..win.w - 1
        PROVE  InLogo(y - Logo.y, x - Logo.x) => Done(y - Logo.y, x - Logo.x)
    BY <1>2, <1>4, <1>5, LastRow DEF Done, Places0
  <2>2. \A y \in 0..win.h - 1, x \in 0..win.w - 1 : px[y * win.w + x] = OnPanel(y, x)
    BY <1>3, <1>4, <2>1, SplDraws DEF Places0
  <2>3. ShowsPicture'
    BY <1>1, <1>2, <1>5, <2>2 DEF ShowsPicture, OnPanel
  <2>4. PicTypes' /\ SizeIsKept' /\ LogoSoFar'
    BY <1>1, <1>5 DEF PicInv, PicTypes, SizeIsKept, LogoSoFar
  <2> QED
    BY <2>3, <2>4 DEF PicInv
<1>6. CASE /\ at.col >= Logo.w \/ Logo.x + at.col >= win.w
           /\ at' = [row |-> at.row + 1, col |-> 0] /\ UNCHANGED <<step, px>>
  <2>1. ASSUME NEW y \in 0..win.h - 1, NEW x \in 0..win.w - 1, InLogo(y - Logo.y, x - Logo.x)
        PROVE  Done(y - Logo.y, x - Logo.x) <=> Before(y - Logo.y, x - Logo.x, at.row + 1, 0)
    BY <1>2, <1>4, <1>6, <2>1, NextRow DEF Done, Places0
  <2>2. at'.row = at.row + 1 /\ at'.col = 0 /\ DOMAIN at' = {"row", "col"}
    BY <1>6
  <2>3. LogoSoFar'
    BY <1>1, <1>2, <1>3, <1>6, <2>1, <2>2 DEF LogoSoFar, Done
  <2>4. PicTypes' /\ SizeIsKept' /\ ShowsPicture'
    BY <1>1, <1>2, <1>6, <2>2 DEF PicInv, PicTypes, SizeIsKept, ShowsPicture
  <2> QED
    BY <2>3, <2>4 DEF PicInv
<1>7. CASE /\ ~(at.row >= Logo.h) /\ ~(Logo.y + at.row >= win.h)
           /\ ~(at.col >= Logo.w) /\ ~(Logo.x + at.col >= win.w)
           /\ at' = [at EXCEPT !.col = @ + 1] /\ UNCHANGED step
           /\ \/ /\ at.row * Logo.w + at.col \in Logo.bits
                 /\ Put(Logo.y + at.row, Logo.x + at.col, White)
              \/ at.row * Logo.w + at.col \notin Logo.bits /\ px' = px
  <2>1. /\ y0 \in 0..win.h - 1 /\ x0 \in 0..win.w - 1
        /\ at.row \in 0..Logo.h - 1 /\ at.col \in 0..Logo.w - 1
        /\ y0 - Logo.y = at.row /\ x0 - Logo.x = at.col
    <3>1. y0 \in Nat /\ x0 \in Nat /\ y0 - Logo.y = at.row /\ x0 - Logo.x = at.col
      <4>1. at.row \in Nat /\ at.col \in Nat /\ Logo.y \in Nat /\ Logo.x \in Nat
        BY <1>2, LogoIs
      <4> QED
        BY <4>1
    <3>2. ~(y0 >= win.h) /\ ~(x0 >= win.w)
      BY <1>7
    <3> HIDE DEF y0, x0
    <3> QED
      BY <1>2, <1>7, <3>1, <3>2, LogoIs, Shifted
  <2>2. ASSUME NEW y \in 0..win.h - 1, NEW x \in 0..win.w - 1
        PROVE  y - Logo.y = at.row /\ x - Logo.x = at.col <=> y = y0 /\ x = x0
    <3>1. y \in Nat /\ x \in Nat
      BY <1>4 DEF Places0
    <3>2. at.row \in Nat /\ at.col \in Nat /\ Logo.y \in Nat /\ Logo.x \in Nat
      BY <1>2, LogoIs
    <3>3. y - Logo.y = at.row <=> y = Logo.y + at.row
      BY <3>1, <3>2
    <3>4. x - Logo.x = at.col <=> x = Logo.x + at.col
      BY <3>1, <3>2
    <3> QED
      BY <3>3, <3>4
  <2>3. at'.row = at.row /\ at'.col = at.col + 1 /\ DOMAIN at' = {"row", "col"}
    BY <1>2, <1>7
  <2> HIDE DEF y0, x0
  <2>4. ASSUME NEW y \in 0..win.h - 1, NEW x \in 0..win.w - 1, ~(y = y0 /\ x = x0)
        PROVE  Done(y - Logo.y, x - Logo.x) <=> Before(y - Logo.y, x - Logo.x, at.row, at.col + 1)
    BY <1>2, <1>4, <2>2, <2>4, NextCol DEF Done, Places0
  <2>5. PicTypes' /\ SizeIsKept' /\ ShowsPicture'
    BY <1>1, <1>2, <1>7, <2>3 DEF PicInv, PicTypes, SizeIsKept, ShowsPicture
  <2>6. /\ DOMAIN px' = 0..win.w * win.h - 1
        /\ \A y \in 0..win.h - 1, x \in 0..win.w - 1 :
             px'[y * win.w + x] =
               IF InLogo(y - Logo.y, x - Logo.x) /\ Before(y - Logo.y, x - Logo.x, at.row, at.col + 1)
               THEN White ELSE Black
    <3>1. CASE at.row * Logo.w + at.col \in Logo.bits
      <4> DEFINE n == y0 * win.w + x0
      <4>1. n \in DOMAIN px
        BY <1>2, <2>1, Inside
      <4>2. px' = [i \in DOMAIN px |-> IF i = n THEN White ELSE px[i]]
        <5>1. px' = [i \in DOMAIN px \cup {n} |-> IF i = n THEN White ELSE px[i]]
          BY <1>7, <3>1 DEF Put, y0, x0
        <5>2. DOMAIN px \cup {n} = DOMAIN px
          BY <4>1
        <5> QED
          BY <5>1, <5>2
      <4>3. ASSUME NEW y \in 0..win.h - 1, NEW x \in 0..win.w - 1
            PROVE  y * win.w + x \in DOMAIN px /\ (y * win.w + x = n => y = y0 /\ x = x0)
        <5>1. y * win.w + x \in DOMAIN px
          BY <1>2, Inside
        <5>2. ASSUME y * win.w + x = n PROVE y = y0 /\ x = x0
          <6>1. Place(win.w, y, x) = Place(win.w, y0, x0)
            BY <5>2 DEF Place
          <6>2. y \in Nat /\ y0 \in Nat
            BY <1>2, <2>1
          <6> QED
            BY <1>2, <2>1, <6>1, <6>2, PlacesApart
        <5> QED
          BY <5>1, <5>2
      <4>4. InLogo(y0 - Logo.y, x0 - Logo.x)
        BY <2>1, <3>1 DEF InLogo
      <4>5. Before(y0 - Logo.y, x0 - Logo.x, at.row, at.col + 1)
        BY <1>2, <2>1 DEF Before
      <4> HIDE DEF n
      <4>6. ASSUME NEW y \in 0..win.h - 1, NEW x \in 0..win.w - 1
            PROVE  px'[y * win.w + x] =
                     IF InLogo(y - Logo.y, x - Logo.x)
                        /\ Before(y - Logo.y, x - Logo.x, at.row, at.col + 1)
                     THEN White ELSE Black
        <5>1. CASE y = y0 /\ x = x0
          <6>1. px'[n] = White
            BY <4>1, <4>2
          <6> QED
            BY <4>4, <4>5, <5>1, <6>1 DEF n
        <5>2. CASE ~(y = y0 /\ x = x0)
          <6>1. px'[y * win.w + x] = px[y * win.w + x]
            BY <4>2, <4>3, <5>2
          <6> QED
            BY <1>3, <2>4, <5>2, <6>1
        <5> QED
          BY <5>1, <5>2
      <4> QED
        BY <1>2, <4>2, <4>6
    <3>2. CASE at.row * Logo.w + at.col \notin Logo.bits
      <4>1. px' = px
        BY <1>7, <3>2
      <4>2. ~InLogo(y0 - Logo.y, x0 - Logo.x)
        BY <2>1, <3>2 DEF InLogo
      <4>3. ASSUME NEW y \in 0..win.h - 1, NEW x \in 0..win.w - 1
            PROVE  InLogo(y - Logo.y, x - Logo.x) =>
                     (Done(y - Logo.y, x - Logo.x) <=> Before(y - Logo.y, x - Logo.x, at.row, at.col + 1))
        BY <2>4, <4>2
      <4> QED
        BY <1>2, <1>3, <4>1, <4>3
    <3> QED
      BY <3>1, <3>2
  <2>7. LogoSoFar'
    BY <1>1, <2>3, <2>6 DEF LogoSoFar, Done
  <2> QED
    BY <2>5, <2>7 DEF PicInv
<1> QED
  BY <1>5, <1>6, <1>7, DrawIs

LEMMA PlacePic == ASSUME PicInv, ViewPlace PROVE PicInv'
<1>1. /\ prog = "wl-image-view" /\ step = "draw" /\ step' = "shown"
      /\ px' = [i \in Pixels |->
                 IF Col(i) < img.w /\ Row(i) < img.h THEN Pixel(Row(i), Col(i)) ELSE Black]
      /\ UNCHANGED <<prog, win, img, at, buf>>
  BY DEF ViewPlace, GoTo
<1>2. win.w \in Nat /\ win.h \in Nat /\ buf.w = win.w /\ buf.h = win.h
  BY <1>1 DEF PicInv, PicTypes, SizeIsKept
<1>3. ASSUME NEW y \in 0..win.h - 1, NEW x \in 0..win.w - 1
      PROVE  px'[y * win.w + x] = InImage(y, x)
  <2>1. y * win.w + x \in Pixels
    BY <1>2, Inside DEF Pixels
  <2>2. Row(y * win.w + x) = y /\ Col(y * win.w + x) = x
    <3>1. (y * win.w + x) \div win.w = y /\ (y * win.w + x) % win.w = x
      <4>1. Place(win.w, y, x) \div win.w = y /\ Place(win.w, y, x) % win.w = x
        BY <1>2, PlaceIs
      <4> QED
        BY <4>1 DEF Place
    <3> QED
      BY <3>1 DEF Row, Col
  <2> QED
    BY <1>1, <2>1, <2>2 DEF InImage
<1>4. ShowsPicture'
  BY <1>1, <1>2, <1>3 DEF ShowsPicture, InImage, Pixel, Pixels
<1>5. PicTypes' /\ SizeIsKept' /\ LogoSoFar'
  BY <1>1 DEF PicInv, PicTypes, SizeIsKept, LogoSoFar
<1> QED
  BY <1>4, <1>5 DEF PicInv

LEMMA NextPic == ASSUME PicInv, PicNext PROVE PicInv'
<1>1. CASE Bound \/ ViewOpened
  <2>1. step' \in {"configure", "ended", "globals"} /\ step \in {"globals", "read"}
        /\ (step = "globals" => step' \in {"configure", "ended"})
        /\ UNCHANGED <<prog, win, img, at, buf, px>>
    BY <1>1 DEF Bound, ViewOpened, GoTo
  <2>2. step = "read" => at.row = 0 /\ at.col = 0
    BY DEF PicInv, PicTypes
  <2> QED
    BY <2>1, <2>2 DEF PicInv, PicTypes, SizeIsKept, LogoSoFar, ShowsPicture
<1>2. CASE Configured
  <2>1. /\ step = "configure" /\ step' = "draw" /\ buf' = [w |-> win.w, h |-> win.h]
        /\ UNCHANGED <<prog, win, img, at, px>>
    BY <1>2 DEF Configured
  <2> QED
    BY <2>1 DEF PicInv, PicTypes, SizeIsKept, LogoSoFar, ShowsPicture
<1>3. CASE ViewRead
  <2>1. /\ step = "read" /\ step' \in {"read", "ended"} /\ UNCHANGED <<prog, win, at, buf, px>>
        /\ (img' = img \/ \E n \in 1..img.len - img.got : img' = [img EXCEPT !.got = @ + n])
    BY <1>3 DEF ViewRead, GoTo
  <2>2. DOMAIN img' = DOMAIN img /\ img'.w = img.w /\ img'.h = img.h
    BY <2>1 DEF PicInv, PicTypes
  <2> QED
    BY <2>1, <2>2 DEF PicInv, PicTypes, SizeIsKept, LogoSoFar, ShowsPicture
<1> QED
  BY <1>1, <1>2, <1>3, CallbackPic, FillPic, DrawPic, PlacePic DEF PicNext

\* Whatever logo, panel and window: what splash-wl shows is what the SPL has drawn, cut
\* off at the window, and what wl-image-view shows is its file in the upper left corner.
THEOREM PictureFits == PartsSpec => []ShowsPicture
<1>1. ASSUME PicInit PROVE PicInv
  <2>1. /\ step \in {"globals", "read"} /\ img.w \in Nat /\ img.h \in Nat
        /\ DOMAIN img = {"w", "h", "len", "got"}
    BY <1>1, PicturesAssumption DEF PicInit
  <2>2. PicTypes
    BY <1>1, <2>1, LogoIs DEF PicInit, PicTypes
  <2> QED
    BY <2>1, <2>2 DEF PicInv, SizeIsKept, LogoSoFar, ShowsPicture
<1>2. PartsInit => PicInv
  BY <1>1 DEF PartsInit, PicStill
<1>3. ASSUME PicInv, UNCHANGED picVars PROVE PicInv'
  BY <1>3 DEF picVars, PicInv, PicTypes, SizeIsKept, LogoSoFar, Done, ShowsPicture, InImage, Pixel
<1>4. PicInv /\ [PartsNext]_partVars => PicInv'
  BY <1>3, NextPic DEF PartsNext, partVars
<1>5. PicInv => ShowsPicture
  BY DEF PicInv
<1> QED
  BY <1>2, <1>4, <1>5, PTL DEF PartsSpec
-----------------------------------------------------------------------------
(* The libc of the M4: strings and memory, of every size.                    *)

Writers == {"memset"} \cup Copying
Running == Writers \cup Comparing \cup {"strlen"}
Strings == {"strlen", "strcmp", "strncmp"}

\* What is called keeps to what C asks of it
Called ==
  /\ was.p \in Addr /\ was.q \in Nat /\ was.n \in Nat /\ was.mem \in [Addr -> Byte]
  /\ was.fn = "memset" => was.q \in Byte
  /\ was.fn \notin {"strlen", "strcmp"} => was.p + was.n <= MemSize
  /\ was.fn \notin {"memset", "strlen", "strcmp"} => was.q + was.n <= MemSize
  /\ was.fn \in Copying => Apart(was.p, was.q, was.n)
  /\ was.fn \in {"strlen", "strcmp"} => \E k \in Addr : k >= was.p /\ was.mem[k] = 0
  /\ was.fn = "strcmp" => \E k \in Addr : k >= was.q /\ was.mem[k] = 0

\* A memory m with d bytes of it written
Half(f, p, q, m, d) ==
  [a \in Addr |->
     IF f \in Writers /\ a \in p .. p + d - 1
     THEN IF f = "memset" THEN q ELSE m[q + (a - p)]
     ELSE m[a]]

\* After d turns of a loop
After(d) ==
  /\ reg.p = was.p + d
  /\ reg.q = IF fn \in {"memset", "strlen"} THEN was.q ELSE was.q + d
  /\ reg.n = IF fn = "strlen" THEN d ELSE IF fn = "strcmp" THEN was.n ELSE was.n - d
  /\ fn \notin {"strlen", "strcmp"} => d <= was.n
  /\ mem = Half(was.fn, was.p, was.q, was.mem, d)
  /\ fn \in Comparing => \A j \in 0..d - 1 : was.mem[was.p + j] = was.mem[was.q + j]
  /\ fn \in Strings => \A j \in 0..d - 1 : was.mem[was.p + j] # 0
  /\ fn = "strncpy" => \A j \in 0..d - 1 : was.mem[was.q + j] # 0

LibTypes ==
  /\ mem \in [Addr -> Byte] /\ DOMAIN reg = {"p", "q", "n"}
  /\ fn \in Running \cup {"idle", "returned", "uart4_put_dec"}
  /\ fn = "uart4_put_dec" => was.fn = fn /\ was.mem = mem

UnderWay == fn \in Running => was.fn = fn /\ Called /\ \E d \in Nat : After(d)

Answered == fn = "returned" => mem = MemoryAfter /\ Compares /\ Counts

LibInv == LibTypes /\ UnderWay /\ Answered

LEMMA OneMore ==
  ASSUME NEW f \in Writers, NEW p \in Nat, NEW q \in Nat, NEW m, NEW d \in Nat, p + d \in Addr, NEW v,
         v = IF f = "memset" THEN q ELSE m[q + d]
  PROVE  [Half(f, p, q, m, d) EXCEPT ![p + d] = v] = Half(f, p, q, m, d + 1)
<1> DEFINE h == Half(f, p, q, m, d)
           g == Half(f, p, q, m, d + 1)
<1>1. \A a \in Addr : g[a] = IF a = p + d THEN v ELSE h[a]
  <2>1. ASSUME NEW a \in Addr PROVE a \in p .. p + (d + 1) - 1 <=> a \in p .. p + d - 1 \/ a = p + d
    BY DEF Addr
  <2>2. ~(p + d \in p .. p + d - 1) /\ p + d - p = d
    OBVIOUS
  <2> QED
    BY <2>1, <2>2 DEF Half
<1>2. h = [a \in Addr |-> h[a]] /\ g = [a \in Addr |-> g[a]]
  BY DEF Half
<1> HIDE DEF h, g
<1>3. [h EXCEPT ![p + d] = v] = [a \in Addr |-> IF a = p + d THEN v ELSE h[a]]
  BY <1>2
<1>4. g = [a \in Addr |-> IF a = p + d THEN v ELSE h[a]]
  BY <1>1, <1>2
<1> QED
  BY <1>3, <1>4 DEF h, g

\* What lies apart from the place that is written is as it was.
LEMMA StillThere ==
  ASSUME NEW f, NEW p \in Nat, NEW q \in Nat, NEW m, NEW d \in Nat, NEW a \in Addr,
         f \in Writers => ~(a \in p .. p + d - 1)
  PROVE  Half(f, p, q, m, d)[a] = m[a]
  BY DEF Half

LEMMA CallLib == ASSUME LibInv, Call PROVE LibInv'
<1>1. /\ mem' = mem /\ mem \in [Addr -> Byte]
      /\ \E f \in Running \cup {"uart4_put_dec"}, p, q, n \in Nat : Calls(f, p, q, n)
  <2> DEFINE Some == \E f \in Running \cup {"uart4_put_dec"}, p, q, n \in Nat : Calls(f, p, q, n)
  <2>1. mem' = mem /\ mem \in [Addr -> Byte]
    BY DEF Call, LibInv, LibTypes
  <2>2. Addr \subseteq Nat /\ 0..MemSize \subseteq Nat /\ Decimals \subseteq Nat /\ 0 \in Nat
    <3>1. Decimals \subseteq Nat
      BY M4LibAssumption DEF Unsigned
    <3> QED
      BY <3>1, M4LibAssumption DEF Addr
  <2>3. {"memset", "memcpy", "memcmp", "strlen", "strcmp", "strncpy", "strncmp"} \subseteq Running
    BY DEF Running, Writers, Copying, Comparing
  <2>4. ASSUME NEW f \in Running \cup {"uart4_put_dec"}, NEW p \in Nat, NEW q \in Nat, NEW n \in Nat,
               Calls(f, p, q, n)
        PROVE  Some
    BY <2>4, Zenon
  <2> HIDE DEF Some
  <2>5. ASSUME NEW f \in {"memset", "memcpy", "memcmp"}, NEW p \in Addr, NEW q \in Addr,
               NEW n \in 0..MemSize, Calls(f, p, q, n)
        PROVE  Some
    <3>1. f \in Running \cup {"uart4_put_dec"} /\ p \in Nat /\ q \in Nat /\ n \in Nat
      BY <2>2, <2>3
    <3> QED
      BY <2>4, <2>5, <3>1, Zenon
  <2>6. ASSUME NEW p \in Addr, Calls("strlen", p, 0, 0) PROVE Some
    <3>1. "strlen" \in Running \cup {"uart4_put_dec"} /\ p \in Nat /\ 0 \in Nat
      BY <2>2, <2>3
    <3> QED
      BY <2>4, <2>6, <3>1, Zenon
  <2>7. ASSUME NEW p \in Addr, NEW q \in Addr, Calls("strcmp", p, q, 0) PROVE Some
    <3>1. "strcmp" \in Running \cup {"uart4_put_dec"} /\ p \in Nat /\ q \in Nat /\ 0 \in Nat
      BY <2>2, <2>3
    <3> QED
      BY <2>4, <2>7, <3>1, Zenon
  <2>8. ASSUME NEW f \in {"strncpy", "strncmp"}, NEW p \in Addr, NEW q \in Addr,
               NEW n \in 0..MemSize, Calls(f, p, q, n)
        PROVE  Some
    <3>1. f \in Running \cup {"uart4_put_dec"} /\ p \in Nat /\ q \in Nat /\ n \in Nat
      BY <2>2, <2>3
    <3> QED
      BY <2>4, <2>8, <3>1, Zenon
  <2>9. ASSUME NEW v \in Decimals, Calls("uart4_put_dec", 0, 0, v) PROVE Some
    <3>1. "uart4_put_dec" \in Running \cup {"uart4_put_dec"} /\ v \in Nat /\ 0 \in Nat
      BY <2>2
    <3> QED
      BY <2>4, <2>9, <3>1, Zenon
  <2>10. Some
    BY <2>5, <2>6, <2>7, <2>8, <2>9, Zenon DEF Call
  <2> QED
    BY <2>1, <2>10 DEF Some
<1>2. fn' \in Running => Called'
  <2>1. CASE \E f \in {"memset", "memcpy", "memcmp"}, p, q \in Addr, n \in 0..MemSize :
               /\ Within(p, n)
               /\ f = "memset" => q \in Byte
               /\ f # "memset" => Within(q, n)
               /\ f = "memcpy" => Apart(p, q, n)
               /\ Calls(f, p, q, n)
    BY <1>1, <2>1 DEF Called, Calls, Within, Apart, Addr, Copying
  <2>2. CASE \E p \in Addr : String(p) /\ Calls("strlen", p, 0, 0)
    BY <1>1, <2>2 DEF Called, Calls, String, Addr, Copying
  <2>3. CASE \E p, q \in Addr : String(p) /\ String(q) /\ Calls("strcmp", p, q, 0)
    BY <1>1, <2>3 DEF Called, Calls, String, Addr, Copying
  <2>4. CASE \E f \in {"strncpy", "strncmp"}, p, q \in Addr, n \in 0..MemSize :
               /\ Within(p, n) /\ Within(q, n)
               /\ f = "strncpy" => Apart(p, q, n)
               /\ Calls(f, p, q, n)
    BY <1>1, <2>4 DEF Called, Calls, Within, Apart, Addr, Copying
  <2>5. CASE \E v \in Decimals : Calls("uart4_put_dec", 0, 0, v)
    BY <2>5 DEF Calls, Running, Writers, Copying, Comparing
  <2> QED
    BY <2>1, <2>2, <2>3, <2>4, <2>5 DEF Call
<1>3. PICK f \in Running \cup {"uart4_put_dec"}, p \in Nat, q \in Nat, n \in Nat :
        /\ fn' = f /\ reg' = [p |-> p, q |-> q, n |-> n]
        /\ was' = [fn |-> f, p |-> p, q |-> q, n |-> n, mem |-> mem]
  BY <1>1 DEF Calls
<1>4. Half(f, p, q, mem, 0) = mem
  <2>1. \A a \in Addr : ~(a \in p .. p + 0 - 1)
    BY DEF Addr
  <2> QED
    BY <1>1, <2>1 DEF Half
<1>5. was'.p = p /\ was'.q = q /\ was'.n = n /\ was'.fn = f /\ was'.mem = mem
      /\ reg'.p = p /\ reg'.q = q /\ reg'.n = n
  BY <1>3
<1>6. f \in Running => After(0)'
  <2>1. mem' = Half(was'.fn, was'.p, was'.q, was'.mem, 0)
    BY <1>1, <1>4, <1>5
  <2>2. p = p + 0 /\ q = q + 0 /\ n = n - 0 /\ 0 <= n /\ \A j \in 0..0 - 1 : FALSE
    OBVIOUS
  <2>3. f = "strlen" => n = 0
    BY <1>1, <1>3 DEF Call, Calls
  <2> QED
    BY <1>3, <1>5, <2>1, <2>2, <2>3 DEF After
<1>7. UnderWay'
  BY <1>2, <1>3, <1>5, <1>6 DEF UnderWay
<1>8. LibTypes' /\ Answered'
  BY <1>1, <1>3 DEF LibTypes, Answered, Running, Writers, Copying, Comparing
<1> QED
  BY <1>7, <1>8 DEF LibInv

\* Where a loop is
LEMMA InLoop ==
  ASSUME LibInv, fn \in Running
  PROVE  /\ was.fn = fn /\ Called /\ was.p \in Nat /\ was.q \in Nat /\ was.n \in Nat
         /\ mem \in [Addr -> Byte] /\ DOMAIN reg = {"p", "q", "n"}
         /\ \E d \in Nat : After(d)
         /\ fn \notin Writers => mem = was.mem
<1>1. /\ was.fn = fn /\ Called /\ \E d \in Nat : After(d)
      /\ mem \in [Addr -> Byte] /\ DOMAIN reg = {"p", "q", "n"}
  BY DEF LibInv, UnderWay, LibTypes
<1>2. was.p \in Nat /\ was.q \in Nat /\ was.n \in Nat
  BY <1>1, M4LibAssumption DEF Called, Addr
<1>3. ASSUME fn \notin Writers PROVE mem = was.mem
  <2>1. PICK d \in Nat : mem = Half(was.fn, was.p, was.q, was.mem, d)
    BY <1>1 DEF After
  <2>2. was.mem = [a \in Addr |-> was.mem[a]]
    BY <1>1 DEF Called
  <2> QED
    BY <1>1, <1>3, <2>1, <2>2 DEF Half
<1> QED
  BY <1>1, <1>2, <1>3

LEMMA FarFrom ==
  ASSUME NEW p \in Nat, NEW q \in Nat, NEW n \in Nat, NEW d \in Nat,
         d + 1 <= n, q + n <= MemSize, p + n <= q \/ q + n <= p
  PROVE  q + d \in Addr /\ ~(q + d \in p .. p + d - 1)
  BY M4LibAssumption DEF Addr

\* A byte is written, and the loop goes on.
LEMMA WriteOn ==
  ASSUME LibInv, fn \in Writers, reg.n > 0,
         Store(IF fn = "memset" THEN reg.q ELSE At(reg.q)),
         Move(1, IF fn = "memset" THEN 0 ELSE 1, -1),
         fn = "strncpy" => At(reg.q) # 0
  PROVE  LibInv'
<1>0. fn \in Running /\ fn \notin {"strlen", "strcmp"} /\ fn \notin Comparing /\ fn \notin Strings
  BY DEF Running, Writers, Copying, Comparing, Strings
<1>1. /\ was.fn = fn /\ Called /\ was.p \in Nat /\ was.q \in Nat /\ was.n \in Nat
      /\ mem \in [Addr -> Byte] /\ DOMAIN reg = {"p", "q", "n"}
  BY <1>0, InLoop
<1>2. PICK d \in Nat : After(d)
  BY <1>0, InLoop
<1>3. /\ reg.p = was.p + d /\ reg.n = was.n - d
      /\ reg.q = IF fn = "memset" THEN was.q ELSE was.q + d
      /\ mem = Half(was.fn, was.p, was.q, was.mem, d)
      /\ fn = "strncpy" => \A j \in 0..d - 1 : was.mem[was.q + j] # 0
  BY <1>0, <1>2 DEF After
<1>4. /\ UNCHANGED <<fn, was>> /\ reg'.p = was.p + (d + 1) /\ reg'.n = was.n - (d + 1)
      /\ reg'.q = (IF fn = "memset" THEN was.q ELSE was.q + (d + 1)) /\ DOMAIN reg' = {"p", "q", "n"}
  BY <1>1, <1>3 DEF Move
<1>5. d + 1 <= was.n
  BY <1>1, <1>3
<1>6. was.p + d \in Addr /\ was.p + was.n <= MemSize
  BY <1>0, <1>1, <1>5, M4LibAssumption DEF Called, Addr
<1> DEFINE v == IF fn = "memset" THEN was.q ELSE was.mem[was.q + d]
<1>7. ASSUME fn # "memset" PROVE mem[was.q + d] = was.mem[was.q + d] /\ was.q + d \in Addr
  <2>1. was.q + was.n <= MemSize /\ (was.p + was.n <= was.q \/ was.q + was.n <= was.p)
    <3>1. was.fn \in Copying /\ was.fn \notin {"memset", "strlen", "strcmp"}
      BY <1>0, <1>1, <1>7 DEF Writers
    <3> QED
      BY <1>1, <3>1 DEF Called, Apart
  <2>2. was.q + d \in Addr /\ ~(was.q + d \in was.p .. was.p + d - 1)
    BY <1>1, <1>5, <2>1, FarFrom
  <2> QED
    BY <1>1, <1>3, <2>2, StillThere
<1>8. mem' = [mem EXCEPT ![was.p + d] = v]
  BY <1>3, <1>7 DEF Store, At
<1>9. mem' = Half(was.fn, was.p, was.q, was.mem, d + 1)
  <2>1. v = IF was.fn = "memset" THEN was.q ELSE was.mem[was.q + d]
    BY <1>1
  <2> HIDE DEF v
  <2> QED
    BY <1>1, <1>3, <1>6, <1>8, <2>1, OneMore
<1>10. v \in Byte
  <2>1. CASE fn = "memset"
    BY <1>1, <2>1 DEF Called
  <2>2. CASE fn # "memset"
    BY <1>1, <1>7, <2>2 DEF Called
  <2> QED
    BY <2>1, <2>2
<1>11. fn = "strncpy" => \A j \in 0..(d + 1) - 1 : was.mem[was.q + j] # 0
  <2>1. fn = "strncpy" => was.mem[was.q + d] # 0
    BY <1>3, <1>7 DEF At
  <2> QED
    BY <1>3, <2>1
<1>12. mem' \in [Addr -> Byte]
  <2> HIDE DEF v
  <2> QED
    BY <1>1, <1>8, <1>10
<1>13. After(d + 1)'
  BY <1>0, <1>1, <1>4, <1>5, <1>9, <1>11 DEF After
<1>14. UnderWay'
  BY <1>1, <1>4, <1>13 DEF UnderWay, Called
<1>15. LibTypes' /\ Answered'
  BY <1>0, <1>4, <1>12 DEF LibInv, LibTypes, Answered, Running, Writers, Copying, Comparing
<1> QED
  BY <1>14, <1>15 DEF LibInv

\* A byte is read, and the loop goes on.
LEMMA ReadOn ==
  ASSUME LibInv, fn \in Comparing \cup {"strlen"}, mem' = mem,
         fn \in {"memcmp", "strncmp"} => reg.n > 0,
         Move(1, IF fn = "strlen" THEN 0 ELSE 1,
              IF fn = "strlen" THEN 1 ELSE IF fn = "strcmp" THEN 0 ELSE -1),
         fn \in Comparing => At(reg.p) = At(reg.q),
         fn \in Strings => At(reg.p) # 0
  PROVE  LibInv'
<1>0. fn \in Running /\ fn \notin Writers /\ fn # "memset" /\ fn # "strncpy"
  BY DEF Running, Writers, Copying, Comparing
<1>1. /\ was.fn = fn /\ Called /\ was.p \in Nat /\ was.q \in Nat /\ was.n \in Nat
      /\ mem \in [Addr -> Byte] /\ DOMAIN reg = {"p", "q", "n"} /\ mem = was.mem
  BY <1>0, InLoop
<1>2. PICK d \in Nat : After(d)
  BY <1>0, InLoop
<1>3. /\ reg.p = was.p + d
      /\ fn # "strlen" => reg.q = was.q + d
      /\ fn = "strlen" => reg.q = was.q /\ reg.n = d
      /\ fn = "strcmp" => reg.n = was.n
      /\ fn \notin {"strlen", "strcmp"} => reg.n = was.n - d
      /\ fn \in Comparing => \A j \in 0..d - 1 : was.mem[was.p + j] = was.mem[was.q + j]
      /\ fn \in Strings => \A j \in 0..d - 1 : was.mem[was.p + j] # 0
  BY <1>0, <1>2 DEF After
<1>4. UNCHANGED <<fn, was>> /\ reg'.p = was.p + (d + 1) /\ DOMAIN reg' = {"p", "q", "n"}
  BY <1>1, <1>3 DEF Move
<1>5. reg'.q = IF fn = "strlen" THEN was.q ELSE was.q + (d + 1)
  BY <1>1, <1>3 DEF Move
<1>6. reg'.n = IF fn = "strlen" THEN d + 1 ELSE IF fn = "strcmp" THEN was.n ELSE was.n - (d + 1)
  BY <1>1, <1>3 DEF Move
<1>7. fn \notin {"strlen", "strcmp"} => d + 1 <= was.n
  BY <1>1, <1>3 DEF Comparing
<1>8. mem' = Half(was.fn, was.p, was.q, was.mem, d + 1)
  <2>1. was.mem = [a \in Addr |-> was.mem[a]]
    BY <1>1
  <2> QED
    BY <1>0, <1>1, <2>1 DEF Half
<1>9. /\ fn \in Comparing => \A j \in 0..(d + 1) - 1 : was.mem[was.p + j] = was.mem[was.q + j]
      /\ fn \in Strings => \A j \in 0..(d + 1) - 1 : was.mem[was.p + j] # 0
  BY <1>1, <1>3 DEF At, Comparing
<1>10. After(d + 1)'
  BY <1>0, <1>1, <1>4, <1>5, <1>6, <1>7, <1>8, <1>9 DEF After
<1>11. UnderWay'
  BY <1>1, <1>4, <1>10 DEF UnderWay, Called
<1>12. LibTypes' /\ Answered'
  BY <1>0, <1>1, <1>4 DEF LibInv, LibTypes, Answered, Running, Writers, Copying, Comparing
<1> QED
  BY <1>11, <1>12 DEF LibInv

\* memset and memcpy have written all of it.
LEMMA EndCopy ==
  ASSUME LibInv, fn \in {"memset", "memcpy"}, ~(reg.n > 0), fn' = "returned", UNCHANGED <<mem, reg, was>>
  PROVE  LibInv'
<1>0. fn \in Running /\ fn \in Writers /\ fn \notin Comparing
  BY DEF Running, Writers, Copying, Comparing
<1>1. /\ was.fn = fn /\ was.p \in Nat /\ was.q \in Nat /\ was.n \in Nat
  BY <1>0, InLoop
<1>2. PICK d \in Nat : After(d)
  BY <1>0, InLoop
<1>3. mem = Half(was.fn, was.p, was.q, was.mem, was.n)
  <2>1. d = was.n /\ mem = Half(was.fn, was.p, was.q, was.mem, d)
    BY <1>1, <1>2 DEF After
  <2> QED
    BY <2>1
<1>4. Written(was.fn) = was.p .. was.p + was.n - 1 /\ \A a \in Addr : ~Ended(a)
  BY <1>1 DEF Written, Copying, Ended
<1>5. mem = MemoryAfter
  BY <1>0, <1>1, <1>3, <1>4 DEF Half, MemoryAfter
<1>6. Answered'
  BY <1>0, <1>1, <1>5 DEF Answered, MemoryAfter, Written, Ended, Compares, Counts
<1>7. LibTypes' /\ UnderWay'
  BY <1>0 DEF LibInv, LibTypes, UnderWay, Running, Writers, Copying, Comparing
<1> QED
  BY <1>6, <1>7 DEF LibInv

TerminatorIn(m, first, last) == \E j \in first .. last : m[j] = 0

\* What strncpy copies stops at the terminator of its source.
LEMMA CopiedOrZero ==
  ASSUME NEW p \in Nat, NEW q \in Nat, NEW n \in Nat, NEW d \in Nat, NEW m, d <= n,
         \A j \in 0..d - 1 : m[q + j] # 0, d < n => m[q + d] = 0,
         NEW a \in Addr
  PROVE  /\ a \in p .. p + d - 1 => ~TerminatorIn(m, q, q + (a - p))
         /\ a \in p + d .. p + n - 1 => TerminatorIn(m, q, q + (a - p))
<1>0. a \in Nat
  BY M4LibAssumption DEF Addr
<1>1. ASSUME a \in p .. p + d - 1, NEW j \in q .. q + (a - p), m[j] = 0 PROVE FALSE
  <2>1. j - q \in 0..d - 1 /\ q + (j - q) = j
    BY <1>0, <1>1
  <2> QED
    BY <1>1, <2>1
<1>2. ASSUME a \in p + d .. p + n - 1 PROVE \E j \in q .. q + (a - p) : m[j] = 0
  <2>1. d < n /\ q + d \in q .. q + (a - p)
    BY <1>0, <1>2
  <2> QED
    BY <2>1
<1> QED
  BY <1>1, <1>2 DEF TerminatorIn

LEMMA EndStrncpy ==
  ASSUME LibInv, fn = "strncpy", ~(reg.n > 0 /\ At(reg.q) # 0), fn' = "returned",
         mem' = [a \in Addr |-> IF a \in reg.p .. reg.p + reg.n - 1 THEN 0 ELSE mem[a]],
         UNCHANGED <<reg, was>>
  PROVE  LibInv'
<1>0. fn \in Running /\ fn \in Writers /\ fn \notin Comparing
  BY DEF Running, Writers, Copying, Comparing
<1>1. /\ was.fn = fn /\ was.p \in Nat /\ was.q \in Nat /\ was.n \in Nat /\ Called
      /\ mem \in [Addr -> Byte] /\ DOMAIN reg = {"p", "q", "n"}
  BY <1>0, InLoop
<1>2. PICK d \in Nat : After(d)
  BY <1>0, InLoop
<1>3. /\ reg.p = was.p + d /\ reg.q = was.q + d /\ reg.n = was.n - d /\ d <= was.n
      /\ mem = Half(was.fn, was.p, was.q, was.mem, d)
      /\ \A j \in 0..d - 1 : was.mem[was.q + j] # 0
  BY <1>2 DEF After
<1>4. ASSUME d < was.n PROVE was.mem[was.q + d] = 0
  <2>1. was.q + was.n <= MemSize /\ (was.p + was.n <= was.q \/ was.q + was.n <= was.p)
    BY <1>1 DEF Called, Apart, Copying
  <2>2. d + 1 <= was.n
    BY <1>1, <1>4
  <2>3. was.q + d \in Addr /\ ~(was.q + d \in was.p .. was.p + d - 1)
    BY <1>1, <2>1, <2>2, FarFrom
  <2>4. mem[was.q + d] = was.mem[was.q + d]
    <3> DEFINE a == was.q + d
    <3>1. a \in Addr /\ ~(a \in was.p .. was.p + d - 1)
      BY <2>3
    <3> HIDE DEF a
    <3>2. Half(was.fn, was.p, was.q, was.mem, d)[a] = was.mem[a]
      BY <3>1 DEF Half
    <3> QED
      BY <1>3, <3>2 DEF a
  <2> QED
    BY <1>1, <1>3, <1>4, <2>4 DEF At
<1>5. ASSUME NEW a \in Addr
      PROVE  mem'[a] = IF ~(a \in was.p .. was.p + was.n - 1) THEN was.mem[a]
                       ELSE IF TerminatorIn(was.mem, was.q, was.q + (a - was.p)) THEN 0
                       ELSE was.mem[was.q + (a - was.p)]
  <2>0. a \in Nat
    BY M4LibAssumption DEF Addr
  <2>1. mem'[a] = IF a \in was.p + d .. was.p + was.n - 1 THEN 0
                  ELSE IF a \in was.p .. was.p + d - 1 THEN was.mem[was.q + (a - was.p)]
                  ELSE was.mem[a]
    <3>1. reg.p + reg.n - 1 = was.p + was.n - 1
      BY <1>1, <1>3
    <3>2. mem[a] = IF a \in was.p .. was.p + d - 1 THEN was.mem[was.q + (a - was.p)] ELSE was.mem[a]
      BY <1>0, <1>1, <1>3 DEF Half
    <3> QED
      BY <1>3, <3>1, <3>2
  <2>2. a \in was.p .. was.p + was.n - 1 <=>
          a \in was.p .. was.p + d - 1 \/ a \in was.p + d .. was.p + was.n - 1
    BY <1>1, <1>3, <2>0
  <2>3. ~(a \in was.p .. was.p + d - 1 /\ a \in was.p + d .. was.p + was.n - 1)
    BY <1>1, <1>3, <2>0
  <2>4. /\ a \in was.p .. was.p + d - 1 => ~TerminatorIn(was.mem, was.q, was.q + (a - was.p))
        /\ a \in was.p + d .. was.p + was.n - 1 => TerminatorIn(was.mem, was.q, was.q + (a - was.p))
    BY <1>1, <1>3, <1>4, CopiedOrZero
  <2> QED
    BY <2>1, <2>2, <2>3, <2>4
<1>6. mem' = MemoryAfter
  <2>1. Written(was.fn) = was.p .. was.p + was.n - 1 /\ was.fn # "memset"
    BY <1>1 DEF Written, Copying
  <2>2. \A a \in Addr : Ended(a) <=> TerminatorIn(was.mem, was.q, was.q + (a - was.p))
    BY <1>1 DEF Ended, TerminatorIn
  <2>3. \A a \in Addr : mem'[a] = MemoryAfter[a]
    BY <1>5, <2>1, <2>2 DEF MemoryAfter
  <2>4. mem' = [a \in Addr |-> mem'[a]] /\ MemoryAfter = [a \in Addr |-> MemoryAfter[a]]
    BY DEF MemoryAfter
  <2> QED
    BY <2>3, <2>4
<1>7. MemoryAfter' = MemoryAfter
  BY DEF MemoryAfter, Written, Ended
<1>8. Answered'
  BY <1>0, <1>1, <1>6, <1>7 DEF Answered, Compares, Counts
<1>9. mem' \in [Addr -> Byte]
  BY <1>1, M4LibAssumption DEF Byte
<1>10. LibTypes' /\ UnderWay'
  BY <1>1, <1>9 DEF LibTypes, UnderWay, Running, Writers, Copying, Comparing
<1> QED
  BY <1>8, <1>10 DEF LibInv

LEMMA LeastIs ==
  ASSUME NEW S \in SUBSET Nat, NEW k \in S, \A j \in S : k <= j
  PROVE  Least(S) = k
<1>1. ASSUME NEW i \in S, \A j \in S : i <= j PROVE i = k
  <2>1. i <= k /\ k <= i /\ i \in Nat /\ k \in Nat
    BY <1>1
  <2> QED
    BY <2>1
<1> QED
  BY <1>1 DEF Least

Right(r) ==
  IF Differences = {} THEN r = 0
  ELSE r = was.mem[was.p + Least(Differences)] - was.mem[was.q + Least(Differences)]

\* What a comparison has come to: it is at the end of what it looks at, or at the first
\* difference.
LEMMA Verdict ==
  ASSUME NEW r, NEW d \in Nat, was.fn \in Comparing, was.p \in Nat, was.q \in Nat, was.n \in Nat,
         \A j \in 0..d - 1 : was.mem[was.p + j] = was.mem[was.q + j],
         was.fn \in Strings => \A j \in 0..d - 1 : was.mem[was.p + j] # 0,
         \/ was.fn # "strcmp" /\ d = was.n /\ r = 0
         \/ /\ was.fn # "strcmp" => d < was.n
            /\ was.p + d \in Addr /\ was.q + d \in Addr
            /\ was.mem[was.p + d] \in Nat /\ was.mem[was.q + d] \in Nat
            /\ \/ was.mem[was.p + d] # was.mem[was.q + d]
               \/ was.mem[was.p + d] = 0 /\ was.fn \in Strings
            /\ r = was.mem[was.p + d] - was.mem[was.q + d]
  PROVE  Right(r)
<1>1. \A k \in Differences : k \in Nat /\ d <= k
  <2>1. ASSUME NEW k \in Differences PROVE k \in Nat /\ ~(k \in 0..d - 1)
    BY M4LibAssumption DEF Differences
  <2> QED
    BY <2>1
<1>2. CASE was.fn # "strcmp" /\ d = was.n /\ r = 0
  <2>1. ASSUME NEW k \in Differences PROVE FALSE
    <3>1. k < was.n
      BY <1>2 DEF Differences, Seen, Comparing
    <3> QED
      BY <1>1, <1>2, <3>1
  <2>2. Differences = {}
    BY <2>1
  <2> QED
    BY <1>2, <2>2 DEF Right
<1>3. CASE /\ was.fn # "strcmp" => d < was.n
           /\ was.p + d \in Addr /\ was.q + d \in Addr
           /\ was.mem[was.p + d] # was.mem[was.q + d]
           /\ r = was.mem[was.p + d] - was.mem[was.q + d]
  <2>1. d \in Differences
    <3>1. d \in 0..MemSize /\ Within(was.p, d + 1) /\ Within(was.q, d + 1)
      BY <1>3, M4LibAssumption DEF Within, Addr
    <3>2. Seen(was.fn, d)
      BY <1>3 DEF Seen, Strings
    <3> QED
      BY <1>3, <3>1, <3>2 DEF Differences
  <2>2. Least(Differences) = d
    BY <1>1, <2>1, LeastIs
  <2> QED
    BY <1>3, <2>1, <2>2 DEF Right
<1>4. CASE /\ was.mem[was.p + d] = was.mem[was.q + d] /\ was.mem[was.p + d] \in Nat
           /\ was.mem[was.p + d] = 0 /\ was.fn \in Strings
           /\ r = was.mem[was.p + d] - was.mem[was.q + d]
  <2>1. ASSUME NEW k \in Differences PROVE FALSE
    <3>1. k # d
      BY <1>4 DEF Differences
    <3>2. d \in 0..k - 1
      BY <1>1, <3>1
    <3>3. \A j \in 0..k - 1 : was.mem[was.p + j] # 0
      BY <1>4 DEF Differences, Seen, Comparing, Strings
    <3> QED
      BY <1>4, <3>2, <3>3
  <2>2. Differences = {} /\ r = 0
    BY <1>4, <2>1
  <2> QED
    BY <2>2 DEF Right
<1> QED
  BY <1>2, <1>3, <1>4

\* A string is not left behind its terminator.
LEMMA InString ==
  ASSUME NEW p \in Nat, NEW d \in Nat, NEW m, NEW k \in Addr, k >= p, m[k] = 0,
         \A j \in 0..d - 1 : m[p + j] # 0
  PROVE  p + d \in Addr
<1>1. k - p \in Nat /\ p + (k - p) = k /\ k \in Nat
  BY M4LibAssumption DEF Addr
<1>2. ~(k - p \in 0..d - 1)
  BY <1>1
<1>3. p + d <= k
  BY <1>1, <1>2
<1> QED
  BY <1>3, M4LibAssumption DEF Addr

\* A comparison looks at no byte outside of what it is given.
LEMMA LooksInside ==
  ASSUME Called, NEW d \in Nat, was.fn \in Comparing,
         was.fn # "strcmp" => d < was.n,
         \A j \in 0..d - 1 : was.mem[was.p + j] = was.mem[was.q + j],
         was.fn = "strcmp" => \A j \in 0..d - 1 : was.mem[was.p + j] # 0
  PROVE  was.p + d \in Addr /\ was.q + d \in Addr
<1>1. was.p \in Nat /\ was.q \in Nat /\ was.n \in Nat
  BY M4LibAssumption DEF Called, Addr
<1>2. CASE was.fn = "strcmp"
  <2>1. PICK k \in Addr : k >= was.p /\ was.mem[k] = 0
    BY <1>2 DEF Called
  <2>2. PICK l \in Addr : l >= was.q /\ was.mem[l] = 0
    BY <1>2 DEF Called
  <2>3. \A j \in 0..d - 1 : was.mem[was.q + j] # 0
    BY <1>2
  <2>4. was.p + d \in Addr
    BY <1>1, <1>2, <2>1, InString
  <2>5. was.q + d \in Addr
    BY <1>1, <2>2, <2>3, InString
  <2> QED
    BY <2>4, <2>5
<1>3. CASE was.fn # "strcmp"
  <2>1. was.fn \notin {"memset", "strlen", "strcmp"}
    BY <1>3 DEF Comparing
  <2>2. d < was.n /\ was.p + was.n <= MemSize /\ was.q + was.n <= MemSize
    BY <1>3, <2>1 DEF Called
  <2> QED
    BY <1>1, <2>2, M4LibAssumption DEF Addr
<1> QED
  BY <1>2, <1>3

LEMMA EndCompare ==
  ASSUME LibInv, fn \in Comparing, fn' = "returned", UNCHANGED <<mem, reg, was>>,
         ret' = IF fn # "strcmp" /\ reg.n = 0 THEN 0 ELSE At(reg.p) - At(reg.q),
         \/ fn # "strcmp" /\ ~(reg.n > 0)
         \/ At(reg.p) # At(reg.q)
         \/ fn \in Strings /\ At(reg.p) = 0
  PROVE  LibInv'
<1>0. fn \in Running /\ fn \notin Writers /\ fn # "memset" /\ fn # "strlen"
  BY DEF Running, Writers, Copying, Comparing
<1>1. /\ was.fn = fn /\ Called /\ was.p \in Nat /\ was.q \in Nat /\ was.n \in Nat
      /\ mem \in [Addr -> Byte] /\ mem = was.mem
  BY <1>0, InLoop
<1>2. PICK d \in Nat : After(d)
  BY <1>0, InLoop
<1>3. /\ reg.p = was.p + d /\ reg.q = was.q + d
      /\ fn # "strcmp" => reg.n = was.n - d /\ d <= was.n
      /\ \A j \in 0..d - 1 : was.mem[was.p + j] = was.mem[was.q + j]
      /\ fn \in Strings => \A j \in 0..d - 1 : was.mem[was.p + j] # 0
  BY <1>0, <1>2 DEF After
<1>4. ASSUME fn # "strcmp" => d < was.n
      PROVE  /\ was.p + d \in Addr /\ was.q + d \in Addr
             /\ was.mem[was.p + d] \in Nat /\ was.mem[was.q + d] \in Nat
  <2>1. fn = "strcmp" => \A j \in 0..d - 1 : was.mem[was.p + j] # 0
    BY <1>3 DEF Strings
  <2>2. was.p + d \in Addr /\ was.q + d \in Addr
    BY <1>1, <1>3, <1>4, <2>1, LooksInside
  <2> QED
    BY <1>1, <2>2, M4LibAssumption DEF Byte
<1>5. Right(ret')
  <2>1. CASE fn # "strcmp" /\ ~(reg.n > 0)
    <3>1. d = was.n /\ reg.n = 0
      BY <1>1, <1>3, <2>1
    <3>2. was.fn # "strcmp" /\ d = was.n /\ ret' = 0
      BY <1>1, <2>1, <3>1
    <3> QED
      BY <1>1, <1>3, <3>2, Verdict
  <2>2. CASE ~(fn # "strcmp" /\ ~(reg.n > 0))
    <3>1. fn # "strcmp" => d < was.n
      BY <1>1, <1>3, <2>2
    <3>2. fn # "strcmp" => reg.n # 0
      BY <1>1, <1>3, <3>1
    <3>3. ret' = was.mem[was.p + d] - was.mem[was.q + d]
      BY <1>1, <1>3, <3>2 DEF At
    <3>4. \/ was.mem[was.p + d] # was.mem[was.q + d]
          \/ was.mem[was.p + d] = 0 /\ was.fn \in Strings
      BY <1>1, <1>3, <2>2 DEF At
    <3> QED
      BY <1>1, <1>3, <1>4, <3>1, <3>3, <3>4, Verdict
  <2> QED
    BY <2>1, <2>2
<1>6. mem' = MemoryAfter'
  BY <1>0, <1>1 DEF MemoryAfter, Written, Writers, Called
<1>7. Answered'
  BY <1>0, <1>1, <1>5, <1>6 DEF Answered, Counts, Compares, Right, Differences, Seen
<1>8. LibTypes' /\ UnderWay'
  BY DEF LibInv, LibTypes, UnderWay, Running, Writers, Copying, Comparing
<1> QED
  BY <1>7, <1>8 DEF LibInv

LEMMA EndStrlen ==
  ASSUME LibInv, fn = "strlen", fn' = "returned", UNCHANGED <<mem, reg, was>>,
         ret' = reg.n, At(reg.p) = 0
  PROVE  LibInv'
<1>0. fn \in Running /\ fn \notin Writers /\ fn \notin Comparing /\ fn \in Strings
  BY DEF Running, Writers, Copying, Comparing, Strings
<1>1. /\ was.fn = fn /\ Called /\ mem = was.mem
  BY <1>0, InLoop
<1>2. PICK d \in Nat : After(d)
  BY <1>0, InLoop
<1>3. /\ reg.p = was.p + d /\ reg.n = d
      /\ \A j \in 0..d - 1 : was.mem[was.p + j] # 0
  BY <1>0, <1>2 DEF After
<1>4. Counts'
  BY <1>1, <1>3 DEF Counts, At
<1>5. mem' = MemoryAfter'
  BY <1>0, <1>1 DEF MemoryAfter, Written, Writers, Called
<1>6. Answered'
  BY <1>0, <1>1, <1>4, <1>5 DEF Answered, Compares
<1>7. LibTypes' /\ UnderWay'
  BY DEF LibInv, LibTypes, UnderWay, Running, Writers, Copying, Comparing
<1> QED
  BY <1>6, <1>7 DEF LibInv

LEMMA PrintLib == ASSUME LibInv, uart4_put_dec PROVE LibInv'
<1>1. /\ fn = "uart4_put_dec" /\ fn' \in {"uart4_put_dec", "returned"} /\ UNCHANGED <<mem, was>>
      /\ reg' = [reg EXCEPT !.n = @ \div 10]
  BY DEF uart4_put_dec, Return
<1>2. mem \in [Addr -> Byte] /\ was.fn = fn /\ was.mem = mem /\ DOMAIN reg = {"p", "q", "n"}
  BY <1>1 DEF LibInv, LibTypes
<1>3. mem' = MemoryAfter'
  BY <1>1, <1>2 DEF MemoryAfter, Written, Copying
<1> QED
  BY <1>1, <1>2, <1>3
  DEF LibInv, LibTypes, UnderWay, Answered, Compares, Counts, Running, Writers, Copying, Comparing

LEMMA NextLib == ASSUME LibInv, LibNext PROVE LibInv'
<1>1. CASE memset \/ memcpy
  <2>1. CASE reg.n > 0
    BY <1>1, <2>1, WriteOn DEF memset, memcpy, Writers, Copying
  <2>2. CASE ~(reg.n > 0)
    BY <1>1, <2>2, EndCopy DEF memset, memcpy, Return
  <2> QED
    BY <2>1, <2>2
<1>2. CASE strncpy
  <2>1. CASE reg.n > 0 /\ At(reg.q) # 0
    BY <1>2, <2>1, WriteOn DEF strncpy, Writers, Copying
  <2>2. CASE ~(reg.n > 0 /\ At(reg.q) # 0)
    BY <1>2, <2>2, EndStrncpy DEF strncpy, Return
  <2> QED
    BY <2>1, <2>2
<1>3. CASE memcmp \/ strcmp \/ strncmp
  <2>1. fn \in Comparing /\ fn # "strlen" /\ mem' = mem
    BY <1>3 DEF memcmp, strcmp, strncmp, Comparing
  <2>2. CASE Move(1, 1, IF fn = "strcmp" THEN 0 ELSE -1)
    <3>1. /\ fn \in {"memcmp", "strncmp"} => reg.n > 0
          /\ At(reg.p) = At(reg.q)
          /\ fn \in Strings => At(reg.p) # 0
      BY <1>3, <2>2 DEF memcmp, strcmp, strncmp, Strings, Move, Return, Differ
    <3> QED
      BY <2>1, <2>2, <3>1, ReadOn
  <2>3. CASE fn' = "returned"
    <3>1. UNCHANGED <<reg, was>>
      BY <1>3, <2>3 DEF memcmp, strcmp, strncmp, Move, Return
    <3>2. ret' = IF fn # "strcmp" /\ reg.n = 0 THEN 0 ELSE At(reg.p) - At(reg.q)
      BY <1>3, <2>3 DEF memcmp, strcmp, strncmp, Move, Return
    <3>3. \/ fn # "strcmp" /\ ~(reg.n > 0)
          \/ At(reg.p) # At(reg.q)
          \/ fn \in Strings /\ At(reg.p) = 0
      BY <1>3, <2>3 DEF memcmp, strcmp, strncmp, Move, Return, Strings, Differ
    <3> QED
      BY <2>1, <2>3, <3>1, <3>2, <3>3, EndCompare
  <2> QED
    BY <1>3, <2>2, <2>3 DEF memcmp, strcmp, strncmp, Return
<1>4. CASE strlen
  <2>1. CASE At(reg.p) # 0
    BY <1>4, <2>1, ReadOn DEF strlen, Comparing
  <2>2. CASE At(reg.p) = 0
    BY <1>4, <2>2, EndStrlen DEF strlen, Return
  <2> QED
    BY <2>1, <2>2
<1> QED
  BY <1>1, <1>2, <1>3, <1>4, CallLib, PrintLib DEF LibNext

\* The digits so far, the last one first, and what is left of the number.
Digits ==
  /\ out \in Seq(0..9)
  /\ \A k \in 1..Len(out) : out[k] = FromPlace(was.n, k) % 10

Rest ==
  /\ Len(out) <= 9 /\ DOMAIN reg = {"p", "q", "n"} /\ was.n \in Decimals
  /\ reg.n = FromPlace(was.n, Len(out) + 1)
  /\ Len(out) > 0 => reg.n > 0

PrintInv ==
  /\ was.fn = "uart4_put_dec" => fn \in {"uart4_put_dec", "returned"} /\ Digits
  /\ fn = "uart4_put_dec" => was.fn = fn /\ Rest
  /\ fn = "idle" => out = <<>> /\ was.fn = "none"
  /\ fn = "returned" => Prints

\* One place further.
LEMMA NextPlace ==
  ASSUME NEW n, Unsigned(n), NEW d \in 0..9
  PROVE  /\ d < 9 => FromPlace(n, d + 1) \div 10 = FromPlace(n, d + 2)
         /\ d = 9 => FromPlace(n, d + 1) < 10
         /\ FromPlace(n, d + 1) < 10 /\ d < 9 => n < PlaceValue[d + 2]
         /\ FromPlace(n, d + 1) > 0 => n >= PlaceValue[d + 1]
         /\ FromPlace(n, d + 1) \in Nat
<1>1. d \in {0, 1, 2, 3, 4, 5, 6, 7, 8, 9}
  OBVIOUS
<1> USE DEF PlaceValue, FromPlace, Unsigned
<1>2. CASE d = 0
  BY <1>2
<1>3. CASE d = 1
  BY <1>3
<1>4. CASE d = 2
  BY <1>4
<1>5. CASE d = 3
  BY <1>5
<1>6. CASE d = 4
  BY <1>6
<1>7. CASE d = 5
  BY <1>7
<1>8. CASE d = 6
  BY <1>8
<1>9. CASE d = 7
  BY <1>9
<1>10. CASE d = 8
  BY <1>10
<1>11. CASE d = 9
  BY <1>11
<1> QED
  BY <1>1, <1>2, <1>3, <1>4, <1>5, <1>6, <1>7, <1>8, <1>9, <1>10, <1>11

LEMMA DecimalsUnsigned ==
  ASSUME NEW v \in Decimals
  PROVE  Unsigned(v) /\ v \in Nat
<1>1. Unsigned(v)
  BY M4LibAssumption
<1>2. v \in Nat
  BY <1>1, SMT DEF Unsigned
<1> QED
  BY <1>1, <1>2, Zenon

\* The buffer is full only after the last turn.
LEMMA RoomLeft ==
  ASSUME NEW d \in 0..9, NEW r \in Nat, d = 9 => r < 10
  PROVE  /\ r >= 10 => d + 1 <= 9
         /\ d + 1 \in 1..10 /\ (d + 1) + 1 = d + 2 /\ (d + 1 > 1 => d > 0)
  OBVIOUS

\* A turn of uart4_put_dec.
LEMMA PrintDigit == ASSUME PrintInv, uart4_put_dec PROVE PrintInv'
<1> DEFINE L == Len(out)
           N == was.n
<1>1. /\ fn = "uart4_put_dec" /\ was.fn = fn /\ was' = was /\ Digits /\ Rest
      /\ out' = Append(out, reg.n % 10)
      /\ DOMAIN reg' = DOMAIN reg /\ reg'.n = reg.n \div 10
      /\ IF reg.n >= 10 THEN fn' = fn ELSE fn' = "returned"
  <2>1. fn = "uart4_put_dec" /\ was.fn = fn /\ was' = was /\ Digits /\ Rest
    BY SMT DEF uart4_put_dec, PrintInv
  <2>2. "n" \in DOMAIN reg
    BY <2>1 DEF Rest
  <2>3. out' = Append(out, reg.n % 10)
    BY SMT DEF uart4_put_dec
  <2>4. reg' = [reg EXCEPT !["n"] = reg["n"] \div 10]
    BY SMT DEF uart4_put_dec
  <2>5. DOMAIN reg' = DOMAIN reg /\ reg'["n"] = reg["n"] \div 10
    BY <2>2, <2>4, SMT
  <2>6. IF reg.n >= 10 THEN fn' = fn ELSE fn' = "returned"
    BY SMT DEF uart4_put_dec, Return
  <2> QED
    BY <2>1, <2>3, <2>5, <2>6, SMT
<1>2. N \in Nat /\ L \in 0..9
  <2>1. N \in Decimals /\ out \in Seq(0..9) /\ L <= 9
    BY <1>1 DEF Rest, Digits
  <2>2. L \in Nat
    BY <2>1
  <2>3. N \in Nat
    BY <2>1, DecimalsUnsigned
  <2> HIDE DEF L, N
  <2> QED
    BY <2>1, <2>2, <2>3
<1>u. Unsigned(N)
  BY <1>1, DecimalsUnsigned, Zenon DEF Rest
<1>3. reg.n = FromPlace(N, L + 1) /\ reg.n \in Nat
  BY <1>1, <1>2, <1>u, NextPlace DEF Rest
<1>4. /\ L < 9 => reg.n \div 10 = FromPlace(N, L + 2)
      /\ L = 9 => reg.n < 10
      /\ reg.n < 10 /\ L < 9 => N < PlaceValue[L + 2]
      /\ reg.n > 0 => N >= PlaceValue[L + 1]
  BY <1>2, <1>3, <1>u, NextPlace
<1>r. /\ reg.n >= 10 => L + 1 <= 9
      /\ L + 1 \in 1..10 /\ (L + 1) + 1 = L + 2 /\ (L + 1 > 1 => L > 0)
  <2> HIDE DEF L
  <2> QED
    BY <1>2, <1>3, <1>4, RoomLeft
<1>5. Len(out') = L + 1 /\ out' \in Seq(0..9) /\ Digits'
  <2>1. out \in Seq(0..9) /\ reg.n % 10 \in 0..9
    BY <1>1, <1>3 DEF Digits
  <2>2. out' \in Seq(0..9) /\ Len(out') = L + 1
    BY <1>1, <2>1
  <2>3. ASSUME NEW k \in 1..L + 1 PROVE out'[k] = FromPlace(N, k) % 10
    <3>1. CASE k = L + 1
      BY <1>1, <1>3, <2>1, <3>1
    <3>2. CASE k # L + 1
      BY <1>1, <1>2, <2>1, <3>2 DEF Digits
    <3> QED
      BY <3>1, <3>2
  <2> QED
    BY <1>1, <2>2, <2>3 DEF Digits
<1>6. CASE reg.n >= 10
  <2>1. reg'.n = reg.n \div 10 /\ DOMAIN reg' = {"p", "q", "n"} /\ reg'.n > 0
    BY <1>1, <1>3, <1>6 DEF Rest
  <2>2. Rest'
    <3>1. Len(out') <= 9 /\ Len(out') + 1 = L + 2
      BY <1>5, <1>6, <1>r
    <3>2. reg'.n = FromPlace(N, L + 2)
      <4> HIDE DEF L, N
      <4>1. L < 9
        BY <1>2, <1>6, <1>r
      <4> QED
        BY <1>4, <2>1, <4>1
    <3> QED
      BY <1>1, <2>1, <3>1, <3>2 DEF Rest
  <2> QED
    BY <1>1, <1>5, <1>6, <2>2 DEF PrintInv
<1>7. CASE ~(reg.n >= 10)
  <2>1. Prints'
    <3>1. L + 1 > 1 => reg.n > 0
      BY <1>1, <1>2 DEF Rest
    <3>2. L + 1 < 10 => N < PlaceValue[L + 2]
      <4> HIDE DEF L, N
      <4>1. reg.n < 10 /\ (L + 1 < 10 => L < 9)
        BY <1>2, <1>3, <1>7
      <4> QED
        BY <1>4, <4>1
    <3>3. /\ Len(out') \in 1..10
          /\ \A k \in 1..Len(out') : out'[k] = FromPlace(N, k) % 10
      <4>1. Len(out') \in 1..10
        BY <1>5, <1>r
      <4>2. \A k \in 1..Len(out') : out'[k] = FromPlace(N, k) % 10
        BY <1>1, <1>5 DEF Digits
      <4> QED
        BY <4>1, <4>2
    <3> QED
      <4>1. Len(out') < 10 => N < PlaceValue[Len(out') + 1]
        BY <1>5, <1>r, <3>2
      <4>2. Len(out') > 1 => N >= PlaceValue[Len(out')]
        BY <1>4, <1>5, <3>1
      <4> QED
        BY <1>1, <3>3, <4>1, <4>2 DEF Prints
  <2> QED
    BY <1>1, <1>5, <1>7, <2>1 DEF PrintInv
<1> QED
  BY <1>6, <1>7

\* A call begins without a digit, and only uart4_put_dec prints.
LEMMA NextPrint == ASSUME PrintInv, LibTypes, LibNext PROVE PrintInv'
<1>1. CASE Call
  <2>1. fn = "idle" /\ out = <<>> /\ out' = out /\ was.fn = "none"
    BY <1>1 DEF Call, PrintInv
  <2>2. CASE \E v \in Decimals : Calls("uart4_put_dec", 0, 0, v)
    <3>1. PICK v \in Decimals : Calls("uart4_put_dec", 0, 0, v)
      BY <2>2
    <3>2. v \in Nat /\ FromPlace(v, 1) = v
      BY M4LibAssumption DEF PlaceValue, FromPlace, Unsigned
    <3> QED
      BY <2>1, <3>1, <3>2 DEF Calls, PrintInv, Digits, Rest
  <2>3. CASE ~\E v \in Decimals : Calls("uart4_put_dec", 0, 0, v)
    <3>1. was'.fn = fn' /\ fn' \in Running
      BY <1>1, <2>3 DEF Call, Calls, Running, Writers, Copying, Comparing
    <3> QED
      BY <2>1, <3>1 DEF PrintInv, Running, Writers, Copying, Comparing
  <2> QED
    BY <2>2, <2>3
<1>2. CASE memset \/ memcpy \/ memcmp \/ strlen \/ strncpy \/ strcmp \/ strncmp
  <2>1. /\ fn \in Running /\ fn' \in {fn, "returned"} /\ was' = was
    BY <1>2 DEF memset, memcpy, memcmp, strlen, strncpy, strcmp, strncmp, Move, Return,
       Running, Writers, Copying, Comparing
  <2>2. was.fn # "uart4_put_dec"
    BY <2>1 DEF PrintInv, Running, Writers, Copying, Comparing
  <2> QED
    BY <2>1, <2>2 DEF PrintInv, Prints, Running, Writers, Copying, Comparing
<1> QED
  BY <1>1, <1>2, PrintDigit DEF LibNext

\* Whatever the memory: memset, memcpy, strncpy and the comparisons leave in it what C
\* says, and write nothing else; a comparison has the sign of the first difference, and
\* strlen ends at the first terminator. uart4_put_dec prints every number of 32 bits
\* digit for digit, without leading zeros, in its buffer of ten.
THEOREM AnswersAsC == PartsSpec => []LibcAnswers
<1>1. PartsInit => LibInv /\ PrintInv
  BY DEF PartsInit, LibStill, LibInit, NoCall, LibInv, LibTypes, UnderWay, Answered, Running,
         Writers, Copying, Comparing, PrintInv
<1>2. ASSUME LibInv, UNCHANGED libVars PROVE LibInv'
  <2>1. /\ mem' = mem /\ fn' = fn /\ reg' = reg /\ ret' = ret /\ was' = was
        /\ LibTypes /\ UnderWay /\ Answered
    BY <1>2 DEF libVars, LibInv
  <2>2. LibTypes'
    BY <2>1 DEF LibTypes
  <2>3. UnderWay'
    <3>1. Called' <=> Called
      BY <2>1 DEF Called
    <3>2. ASSUME NEW d \in Nat, After(d) PROVE After(d)'
      BY <2>1, <3>2 DEF After
    <3> QED
      BY <2>1, <3>1, <3>2 DEF UnderWay
  <2>4. Answered'
    <3>1. MemoryAfter' = MemoryAfter
      BY <2>1 DEF MemoryAfter, Written, Ended
    <3>2. Compares' <=> Compares
      BY <2>1 DEF Compares, Differences, Seen
    <3>3. Counts' <=> Counts
      BY <2>1 DEF Counts
    <3> QED
      BY <2>1, <3>1, <3>2, <3>3 DEF Answered
  <2> QED
    BY <2>2, <2>3, <2>4 DEF LibInv
<1>3. ASSUME PrintInv, UNCHANGED libVars PROVE PrintInv'
  BY <1>3 DEF libVars, PrintInv, Digits, Rest, Prints
<1>4. LibInv /\ PrintInv /\ [PartsNext]_partVars => (LibInv /\ PrintInv)'
  BY <1>2, <1>3, NextLib, NextPrint DEF PartsNext, partVars, LibInv
<1>5. LibInv /\ PrintInv => LibcAnswers
  BY DEF LibInv, Answered, PrintInv, LibcAnswers
<1> QED
  BY <1>1, <1>4, <1>5, PTL DEF PartsSpec
-----------------------------------------------------------------------------
(* The interrupts of the M4, for any number of images and messages.         *)

\* The word in which Linux says that vring a has news
WordOf(a) == a - SHMEM_BASE

MuEnabled == MU_M4_IRQn % 32 \in nvic[MU_M4_IRQn \div 32]

IrqTypes ==
  /\ rr \in {Empty, 0, 1} /\ kicks \in Seq({0, 1}) /\ ring \in [Rings -> BOOLEAN]
  /\ nvic \in [0..3 -> SUBSET Nat] /\ cr \in SUBSET {Channel}
  /\ firm \in Firmwares \/ main = "off"

\* Only a firmware that has its handler in the vector table enables the interrupt, and
\* once its main program runs the interrupt stays enabled but for critical sections.
Enabling ==
  /\ mode \in {"thread", "isr"}
  /\ main \in {"nvic", "mu", "up", "locked"} => firm \in Listeners
  /\ MuEnabled <=> main \in {"mu", "up"}
  /\ main \in {"up", "locked"} => cr = {Channel}

\* There is a device only for a firmware that asks for one, and before that has seen
\* Linux there is one kick, of vring0.
BeforeLink ==
  /\ vdev # NoVdev => firm \in Firmwares /\ ResourcesOf(firm) # <<>>
  /\ vdev = NoVdev => kicks = <<>>
  /\ ~link => kicks \in {<<>>, <<0>>} /\ ~ring[SHMEM_BASE + 1]

\* No news without its word, in the register or still at Linux.
WordUnderWay ==
  \A a \in Rings : ring[a] => rr = WordOf(a) \/ \E k \in 1..Len(kicks) : kicks[k] = WordOf(a)

IrqInv == IrqTypes /\ Enabling /\ BeforeLink /\ WordUnderWay

\* A kick does not get lost: news for vring a comes with its word, which goes to the
\* register and is taken by rpmsg-lite, and not by Default_Handler.
KicksTaken ==
  /\ mode # "hung"
  /\ WordUnderWay
  /\ main = "up" /\ mode = "thread" /\ rr # Empty => Raised

LEMMA IrqConstants ==
  /\ SHMEM_BASE = 94208 /\ Rings = {94208, 94209} /\ Channel = 26 /\ Empty = -1
  /\ MU_M4_IRQn \div 32 = 3 /\ MU_M4_IRQn % 32 = 1 /\ 16 + MU_M4_IRQn = 113
  BY DEF SHMEM_BASE, Rings, Channel, Empty, MU_M4_IRQn

\* Who listens has the handler at the vector of the interrupt, and only who listens
\* has the device that Linux kicks.
LEMMA Images ==
  ASSUME NEW i \in Firmwares
  PROVE  /\ VectorsOf(i)[1] = "Reset_Handler"
         /\ i \in Listeners => VectorsOf(i)[16 + MU_M4_IRQn] = "MU_IRQ_Wrapper"
         /\ ResourcesOf(i) # <<>> => ResourcesOf(i) = <<Vring(0, 0), Vring(1, 1)>>
<1>1. i \in {"echo", "can-sim", "clk-test", "uart-test", "hello"}
  BY M4IrqAssumption
<1>2. CASE i = "hello"
  BY <1>2 DEF VectorsOf, ResourcesOf, HelloVectors, Vectors, Listeners
<1>3. CASE i \in {"echo", "can-sim", "clk-test", "uart-test"}
  <2>1. VectorsOf(i) = Vectors(144, 113)
    BY <1>3, IrqConstants DEF VectorsOf, EchoVectors, CanSimVectors, ClkTestVectors,
       UartTestVectors, MU_VEC
  <2>2. /\ Vectors(144, 113)[1] = "Reset_Handler"
        /\ Vectors(144, 113)[113] = "MU_IRQ_Wrapper"
    BY DEF Vectors
  <2>3. ResourcesOf(i) = <<Vring(0, 0), Vring(1, 1)>>
    BY <1>3 DEF ResourcesOf, EchoResources, CanSimResources, ClkTestResources,
       UartTestResources
  <2> QED
    BY <2>1, <2>2, <2>3, IrqConstants
<1> QED
  BY <1>1, <1>2, <1>3

\* What reads or writes no vring, no word and no device of Linux.
LEMMA WordsKept ==
  ASSUME BeforeLink, WordUnderWay, UNCHANGED <<firm, rr, kicks, ring, link, vdev>>
  PROVE  BeforeLink' /\ WordUnderWay'
  BY DEF BeforeLink, WordUnderWay

LEMMA BootIrq == ASSUME IrqInv, Boot PROVE IrqInv'
<1>1. /\ main' = "reset" /\ mode' = "thread" /\ nvic' = [w \in 0..3 |-> {}]
      /\ kicks' = <<>> /\ ring' = [a \in Rings |-> FALSE] /\ rr' = rr /\ cr' = cr
      /\ firm' \in Firmwares /\ vdev' = NoVdev
  BY DEF Boot
<1>2. ~ring'[94209] /\ \A a \in Rings : ~ring'[a]
  BY <1>1, IrqConstants
<1>3. IrqTypes'
  BY <1>1, IrqConstants DEF IrqInv, IrqTypes
<1>4. Enabling'
  BY <1>1, IrqConstants DEF Enabling, MuEnabled
<1> QED
  BY <1>1, <1>2, <1>3, <1>4, IrqConstants DEF IrqInv, BeforeLink, WordUnderWay

LEMMA FirmIrq == ASSUME IrqInv, FirmMain \/ Lock PROVE IrqInv'
<1>1. /\ UNCHANGED <<firm, mode, rr, kicks, ring, link, vdev>> /\ mode = "thread"
      /\ \/ /\ main = "reset" /\ main' = VectorsOf(firm)[1] /\ UNCHANGED <<nvic, cr>>
         \/ /\ firm \in Listeners /\ main = "Reset_Handler" /\ main' = "nvic"
            /\ cr' = {} /\ nvic' = nvic
         \/ /\ main = "nvic" /\ main' = "mu" /\ cr' = cr
            /\ nvic' = [nvic EXCEPT ![3] = nvic[3] \cup {1}]
         \/ /\ main = "mu" /\ main' = "up" /\ nvic' = nvic /\ cr' = cr \cup {Channel}
         \/ /\ main = "up" /\ main' = "locked" /\ cr' = cr
            /\ nvic' = [nvic EXCEPT ![3] = nvic[3] \ {1}]
         \/ /\ main = "locked" /\ main' = "up" /\ cr' = cr
            /\ nvic' = [nvic EXCEPT ![3] = nvic[3] \cup {1}]
  BY IrqConstants DEF FirmMain, Reset_Handler, PlatformInit, PlatformNvic, PlatformMu, Lock,
     Unlock, MainStep, MU_Init, NVIC_EnableIRQ, NVIC_DisableIRQ, MU_EnableInterrupts
<1>2. /\ nvic \in [0..3 -> SUBSET Nat] /\ cr \in SUBSET {Channel}
      /\ firm \in Firmwares \/ main = "off"
  BY DEF IrqInv, IrqTypes
<1>3. main = "reset" => VectorsOf(firm)[1] = "Reset_Handler"
  BY <1>2, Images
<1>4. nvic' \in [0..3 -> SUBSET Nat] /\ cr' \in SUBSET {Channel}
  BY <1>1, <1>2
<1>5. IrqTypes'
  BY <1>1, <1>2, <1>4 DEF IrqInv, IrqTypes
<1>6. Enabling'
  <2>1. /\ main \in {"nvic", "mu", "up", "locked"} => firm \in Listeners
        /\ 1 \in nvic[3] <=> main \in {"mu", "up"}
        /\ main \in {"up", "locked"} => cr = {Channel}
    BY IrqConstants DEF IrqInv, Enabling, MuEnabled
  <2>2. /\ main' \in {"nvic", "mu", "up", "locked"} => firm' \in Listeners
        /\ main' \in {"up", "locked"} => cr' = {Channel}
    BY <1>1, <1>2, <1>3, <2>1
  <2>3. 1 \in nvic'[3] <=> main' \in {"mu", "up"}
    BY <1>1, <1>2, <1>3, <2>1
  <2> QED
    BY <1>1, <2>2, <2>3, IrqConstants DEF Enabling, MuEnabled
<1> QED
  BY <1>1, <1>5, <1>6, WordsKept DEF IrqInv

LEMMA InterruptIrq == ASSUME IrqInv, Interrupt PROVE IrqInv'
<1>1. /\ UNCHANGED <<firm, main, nvic, cr, rr, kicks, ring, link, vdev>>
      /\ MuEnabled
      /\ mode' = IF VectorsOf(firm)[16 + MU_M4_IRQn] = "MU_IRQ_Wrapper" THEN "isr" ELSE "hung"
  BY DEF Interrupt, Raised, MuEnabled
<1>2. firm \in Listeners /\ firm \in Firmwares
  BY <1>1 DEF IrqInv, IrqTypes, Enabling
<1>3. mode' = "isr"
  BY <1>1, <1>2, Images
<1>4. IrqTypes' /\ Enabling'
  BY <1>1, <1>3 DEF IrqInv, IrqTypes, Enabling, MuEnabled
<1> QED
  BY <1>1, <1>4, WordsKept DEF IrqInv

\* The word that the handler takes is the one of the vring it empties.
LEMMA HandlerIrq == ASSUME IrqInv, MU_M4_IRQHandler PROVE IrqInv'
<1>1. /\ UNCHANGED <<firm, main, nvic, cr, kicks, vdev>> /\ mode' = "thread" /\ rr' = Empty
      /\ ring' = [ring EXCEPT ![SHMEM_BASE + rr] = FALSE]
      /\ link' = (link \/ rr = 0) /\ rr \in {0, 1}
  BY DEF MU_M4_IRQHandler, MU_ReceiveMsgNonBlocking, MU_GetStatusFlags, IrqInv, IrqTypes
<1>2. ring \in [Rings -> BOOLEAN] /\ SHMEM_BASE + rr \in Rings
  BY <1>1, IrqConstants DEF IrqInv, IrqTypes
<1>3. /\ ring' \in [Rings -> BOOLEAN]
      /\ \A a \in Rings : ring'[a] => ring[a] /\ a # SHMEM_BASE + rr
  BY <1>1, <1>2
<1>4. IrqTypes' /\ Enabling'
  BY <1>1, <1>3 DEF IrqInv, IrqTypes, Enabling, MuEnabled
<1>5. WordUnderWay'
  BY <1>1, <1>3, IrqConstants DEF IrqInv, WordUnderWay, WordOf
<1>6. BeforeLink'
  <2>1. ~link' => ~link
    BY <1>1, Zenon
  <2>2. SHMEM_BASE + 1 \in Rings
    BY IrqConstants
  <2>3. ~link' => kicks' \in {<<>>, <<0>>} /\ ~ring'[SHMEM_BASE + 1]
    BY <1>1, <1>3, <2>1, <2>2, Zenon DEF IrqInv, BeforeLink
  <2> QED
    BY <1>1, <2>3 DEF IrqInv, BeforeLink
<1> QED
  BY <1>4, <1>5, <1>6 DEF IrqInv

\* News of a vring comes with its word.
LEMMA NewsIrq ==
  ASSUME IrqInv, NEW id \in {0, 1}, News(Vring(id, id)),
         id = 1 => link, id = 0 => vdev = NoVdev, vdev' # NoVdev,
         firm \in Firmwares, ResourcesOf(firm) # <<>>
  PROVE  IrqInv'
<1>1. /\ UNCHANGED <<firm, main, mode, nvic, cr, rr, link>>
      /\ ring' = [ring EXCEPT ![SHMEM_BASE + id] = TRUE] /\ kicks' = Append(kicks, id)
  BY IrqConstants DEF News, Vring, VDEV0_VRING_BASE, m4Vars
<1>2. ring \in [Rings -> BOOLEAN] /\ kicks \in Seq({0, 1}) /\ SHMEM_BASE + id \in Rings
  BY IrqConstants DEF IrqInv, IrqTypes
<1>3. /\ kicks' \in Seq({0, 1}) /\ Len(kicks') = Len(kicks) + 1 /\ Len(kicks) \in Nat
      /\ kicks'[Len(kicks) + 1] = id /\ \A k \in 1..Len(kicks) : kicks'[k] = kicks[k]
  BY <1>1, <1>2
<1>4. /\ ring' \in [Rings -> BOOLEAN]
      /\ \A a \in Rings : ring'[a] => ring[a] \/ a = SHMEM_BASE + id
  BY <1>1, <1>2
<1>5. IrqTypes' /\ Enabling'
  BY <1>1, <1>3, <1>4 DEF IrqInv, IrqTypes, Enabling, MuEnabled
<1>6. WordUnderWay'
  <2> SUFFICES ASSUME NEW a \in Rings, ring'[a]
               PROVE  rr' = WordOf(a) \/ \E k \in 1..Len(kicks') : kicks'[k] = WordOf(a)
    BY DEF WordUnderWay
  <2>1. CASE ring[a]
    BY <1>1, <1>3, <2>1 DEF IrqInv, WordUnderWay
  <2>2. CASE a = SHMEM_BASE + id
    <3>1. WordOf(a) = id
      BY <2>2, IrqConstants DEF WordOf
    <3>2. Len(kicks) + 1 \in 1..Len(kicks')
      BY <1>3
    <3> QED
      BY <1>3, <3>1, <3>2
  <2> QED
    BY <1>4, <2>1, <2>2
<1>7. BeforeLink'
  <2>1. CASE id = 1
    BY <1>1, <2>1 DEF BeforeLink
  <2>2. CASE id = 0
    <3>1. kicks = <<>> /\ kicks' = <<0>>
      BY <1>1, <2>2 DEF IrqInv, BeforeLink
    <3>2. ~link => ~ring'[SHMEM_BASE + 1]
      BY <1>1, <1>2, <2>2, IrqConstants DEF IrqInv, BeforeLink
    <3> QED
      BY <1>1, <3>1, <3>2 DEF BeforeLink
  <2> QED
    BY <2>1, <2>2
<1> QED
  BY <1>5, <1>6, <1>7 DEF IrqInv

\* The word that LinuxKick writes over is none that anything waits for.
LEMMA KickIrq == ASSUME IrqInv, LinuxKick PROVE IrqInv'
<1>1. /\ UNCHANGED <<firm, main, mode, nvic, cr, ring, link, vdev>>
      /\ kicks # <<>> /\ (rr = Empty \/ ~link)
      /\ rr' = Head(kicks) /\ kicks' = Tail(kicks)
  BY DEF LinuxKick, m4Vars
<1>2. kicks \in Seq({0, 1}) /\ ring \in [Rings -> BOOLEAN]
  BY DEF IrqInv, IrqTypes
<1>3. /\ Len(kicks) \in Nat \ {0} /\ kicks' \in Seq({0, 1}) /\ Len(kicks') = Len(kicks) - 1
      /\ rr' = kicks[1] /\ rr' \in {0, 1}
      /\ \A k \in 1..Len(kicks') : kicks'[k] = kicks[k + 1]
  BY <1>1, <1>2
<1>4. IrqTypes' /\ Enabling'
  BY <1>1, <1>3 DEF IrqInv, IrqTypes, Enabling, MuEnabled
<1>5. BeforeLink'
  BY <1>1, <1>3 DEF IrqInv, BeforeLink
<1>6. WordUnderWay'
  <2> SUFFICES ASSUME NEW a \in Rings, ring[a]
               PROVE  rr' = WordOf(a) \/ \E k \in 1..Len(kicks') : kicks'[k] = WordOf(a)
    BY <1>1 DEF WordUnderWay
  <2>1. CASE \E k \in 1..Len(kicks) : kicks[k] = WordOf(a)
    <3>1. PICK k \in 1..Len(kicks) : kicks[k] = WordOf(a)
      BY <2>1
    <3>2. CASE k = 1
      BY <1>3, <3>1, <3>2
    <3>3. CASE k # 1
      <4>1. k - 1 \in 1..Len(kicks') /\ kicks'[k - 1] = kicks[(k - 1) + 1] /\ (k - 1) + 1 = k
        BY <1>3, <3>3
      <4> QED
        BY <3>1, <4>1
    <3> QED
      BY <3>2, <3>3
  <2>2. CASE rr = WordOf(a)
    <3>1. ~link /\ kicks = <<0>> /\ a # SHMEM_BASE + 1
      BY <1>1, <2>2, IrqConstants DEF IrqInv, BeforeLink, WordOf
    <3> QED
      BY <1>3, <3>1, IrqConstants DEF WordOf
  <2> QED
    BY <2>1, <2>2 DEF IrqInv, WordUnderWay
<1> QED
  BY <1>4, <1>5, <1>6 DEF IrqInv

LEMMA NextIrq == ASSUME IrqInv, IrqNext PROVE IrqInv'
<1>1. CASE LinuxProbe
  <2>1. /\ vdev = NoVdev /\ vdev' = 0 /\ News(ResourcesOf(firm)[1])
        /\ ResourcesOf(firm) # <<>> /\ main # "off"
    BY <1>1 DEF LinuxProbe
  <2>2. firm \in Firmwares /\ News(Vring(0, 0))
    BY <2>1, Images DEF IrqInv, IrqTypes
  <2> QED
    BY <2>1, <2>2, NewsIrq DEF NoVdev
<1>2. CASE LinuxSend
  <2>1. link /\ vdev \in 0..MaxSends - 1 /\ vdev' = vdev + 1 /\ News(ResourcesOf(firm)[2])
    BY <1>2 DEF LinuxSend
  <2>2. vdev # NoVdev /\ vdev' # NoVdev
    BY <2>1, M4IrqAssumption DEF NoVdev
  <2>3. firm \in Firmwares /\ ResourcesOf(firm) # <<>> /\ News(Vring(1, 1))
    BY <2>1, <2>2, Images DEF IrqInv, BeforeLink
  <2> QED
    BY <2>1, <2>2, <2>3, NewsIrq
<1> QED
  BY <1>1, <1>2, BootIrq, FirmIrq, InterruptIrq, HandlerIrq, KickIrq
  DEF IrqNext, FirmNext, LinuxNext

\* Whatever images are loaded after each other, and whatever word the last one has left
\* in the messaging unit: no kick of Linux is lost on its way to rpmsg-lite, an enabled
\* interrupt finds its handler, and once the firmware is up every word raises it. (That
\* the handler then runs needs fairness: KicksHandled, checked by TLC.)
THEOREM NoKickLost == PartsSpec => []KicksTaken
<1>1. PartsInit => IrqInv
  BY M4IrqAssumption, IrqConstants
  DEF PartsInit, IrqInit, IrqInv, IrqTypes, Enabling, MuEnabled, BeforeLink, WordUnderWay
<1>2. ASSUME IrqInv, UNCHANGED irqVars PROVE IrqInv'
  BY <1>2, WordsKept DEF irqVars, m4Vars, IrqInv, IrqTypes, Enabling, MuEnabled
<1>3. IrqInv /\ [PartsNext]_partVars => IrqInv'
  BY <1>2, NextIrq DEF PartsNext, partVars
<1>4. IrqInv => KicksTaken
  BY IrqConstants
  DEF IrqInv, IrqTypes, Enabling, MuEnabled, KicksTaken, Raised, MU_GetStatusFlags
<1> QED
  BY <1>1, <1>3, <1>4, PTL DEF PartsSpec
=============================================================================
