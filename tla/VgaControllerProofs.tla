------------------------ MODULE VgaControllerProofs ------------------------
(***************************************************************************)
(* The theorems about VgaController, for every picture size and every       *)
(* placing of the sync pulses that satisfies TimingAssumption.              *)
(***************************************************************************)
EXTENDS VgaController, TLAPS

\* The pixels begun give the beam's place: counting from the last tick, the
\* beam is on pixel `drawn`, and back at the origin when all have been begun.
Place ==
  \/ drawn = vc * (hpixels + 1) + hc
  \/ AtOrigin /\ drawn = PicturePixels

\* Around the origin: the beam comes there from the last pixel, on an edge
\* that raises clkdiv; the tick is high for the one edge that moves it on.
Origin ==
  /\ frame_tick => AtOrigin /\ ~clkdiv /\ drawn = PicturePixels
  /\ drawn = PicturePixels => AtOrigin /\ (clkdiv \/ frame_tick)
  /\ AtOrigin /\ clkdiv =>
       draw_x_d = hpixels /\ draw_y_d = vlines /\ drawn = PicturePixels /\ ~frame_tick
  /\ AtOrigin /\ ~clkdiv => draw_x_d = 0 /\ draw_y_d = 0

VInv == TypeOK /\ Place /\ Origin

\* A place on the picture comes before its end; the ends of lines and of the
\* picture follow on.
LEMMA PlaceBound ==
  ASSUME NEW W \in Nat, NEW H \in Nat, NEW x \in 0..W, NEW y \in 0..H
  PROVE  /\ y * (W + 1) + x \in Nat
         /\ y * (W + 1) + x < (W + 1) * (H + 1)
         /\ y * (W + 1) + W + 1 = (y + 1) * (W + 1)
         /\ H * (W + 1) + W + 1 = (W + 1) * (H + 1)
<1>1. y * (W + 1) + x \in Nat
  OBVIOUS
<1>2. y * (W + 1) <= H * (W + 1)
  OBVIOUS
<1>3. y * (W + 1) + W + 1 = (y + 1) * (W + 1) /\ H * (W + 1) + W + 1 = (W + 1) * (H + 1)
  OBVIOUS
<1>4. y * (W + 1) + x < (W + 1) * (H + 1)
  <2> DEFINE a == y * (W + 1)
             b == H * (W + 1)
             c == (W + 1) * (H + 1)
  <2>1. a \in Int /\ b \in Int /\ c \in Int
    OBVIOUS
  <2>2. a <= b /\ b + W + 1 = c /\ x <= W /\ x \in Int
    BY <1>2, <1>3
  <2> HIDE DEF a, b, c
  <2>3. a + x < c
    BY <2>1, <2>2
  <2> QED BY <2>3 DEF a, c
<1> QED BY <1>1, <1>3, <1>4

LEMMA Sizes ==
  /\ hpixels \in Nat /\ vlines \in Nat /\ hpixels >= 1 /\ vlines >= 1
  /\ hpixels # 0 /\ vlines # 0
  /\ PicturePixels \in Nat /\ PicturePixels # 0
  /\ 0 * (hpixels + 1) + 0 = 0
  /\ 0 \in 0..hpixels /\ 0 \in 0..vlines /\ 0 \in 0..(PicturePixels + 1)
<1>1. hpixels \in Nat /\ vlines \in Nat /\ hpixels >= 1 /\ vlines >= 1
  BY TimingAssumption
<1>2. /\ 0 * (hpixels + 1) + 0 \in Nat
      /\ 0 * (hpixels + 1) + 0 < (hpixels + 1) * (vlines + 1)
  BY <1>1, PlaceBound
<1>3. 0 * (hpixels + 1) + 0 = 0 /\ (hpixels + 1) * (vlines + 1) \in Int
  BY <1>1
<1>4. (hpixels + 1) * (vlines + 1) \in Nat /\ (hpixels + 1) * (vlines + 1) # 0
  BY <1>2, <1>3
<1>5. 0 \in 0..hpixels /\ 0 \in 0..vlines /\ 0 \in 0..((hpixels + 1) * (vlines + 1) + 1)
  BY <1>1, <1>4
<1>6. hpixels # 0 /\ vlines # 0
  BY <1>1
<1> QED BY <1>1, <1>3, <1>4, <1>5, <1>6 DEF PicturePixels

\* What one pixel edge does to the beam's place, without its arithmetic: it is
\* the next place, the start of the next line, or the origin again.
LEMMA NextPlace ==
  ASSUME hc \in 0..hpixels, vc \in 0..vlines, Count
  PROVE  /\ hc' \in 0..hpixels /\ vc' \in 0..vlines
         /\ vc * (hpixels + 1) + hc \in Nat
         /\ vc * (hpixels + 1) + hc < PicturePixels
         /\ \/ /\ ~AtOrigin'
               /\ vc' * (hpixels + 1) + hc' = vc * (hpixels + 1) + hc + 1
               /\ vc' * (hpixels + 1) + hc' < PicturePixels
            \/ /\ AtOrigin' /\ hc = hpixels /\ vc = vlines
               /\ vc * (hpixels + 1) + hc + 1 = PicturePixels
<1>1. hpixels \in Nat /\ vlines \in Nat /\ hpixels >= 1 /\ vlines >= 1
  BY Sizes
<1>2. /\ vc * (hpixels + 1) + hc \in Nat
      /\ vc * (hpixels + 1) + hc < PicturePixels
      /\ vc * (hpixels + 1) + hpixels + 1 = (vc + 1) * (hpixels + 1)
      /\ vlines * (hpixels + 1) + hpixels + 1 = PicturePixels
  BY <1>1, PlaceBound DEF PicturePixels
<1>3. CASE ~LineEnds
  <2>1. hc' = hc + 1 /\ vc' = vc /\ hc' \in 0..hpixels /\ hc' # 0
    BY <1>1, <1>3 DEF Count, LineEnds
  <2>2. vc' * (hpixels + 1) + hc' < PicturePixels
    BY <1>1, <2>1, PlaceBound DEF PicturePixels
  <2>3. vc * (hpixels + 1) + (hc + 1) = vc * (hpixels + 1) + hc + 1
    <3> DEFINE a == vc * (hpixels + 1)
    <3>1. a \in Int /\ hc \in Int
      BY <1>1
    <3> HIDE DEF a
    <3>2. a + (hc + 1) = a + hc + 1
      BY <3>1
    <3> QED BY <3>2 DEF a
  <2> QED BY <1>2, <2>1, <2>2, <2>3 DEF AtOrigin
<1>4. CASE LineEnds /\ vc # vlines
  <2>1. hc = hpixels /\ hc' = 0 /\ vc' = vc + 1 /\ vc' \in 0..vlines /\ vc' # 0 /\ hc' \in 0..hpixels
    BY <1>1, <1>4 DEF Count, LineEnds
  <2>2. vc' * (hpixels + 1) + hc' < PicturePixels
    BY <1>1, <2>1, PlaceBound DEF PicturePixels
  <2>3. vc' * (hpixels + 1) + hc' = vc * (hpixels + 1) + hc + 1
    <3>1. (vc + 1) * (hpixels + 1) \in Int
      BY <1>1
    <3>2. (vc + 1) * (hpixels + 1) + 0 = (vc + 1) * (hpixels + 1)
      BY <3>1
    <3> QED BY <1>2, <2>1, <3>2
  <2> QED BY <1>2, <2>1, <2>2, <2>3 DEF AtOrigin
<1>5. CASE LineEnds /\ vc = vlines
  <2>1. hc = hpixels /\ hc' = 0 /\ vc' = 0
    BY <1>5 DEF Count, LineEnds
  <2>2. hc' \in 0..hpixels /\ vc' \in 0..vlines
    BY <1>1, <2>1
  <2> QED BY <1>2, <1>5, <2>1, <2>2 DEF AtOrigin
<1> QED BY <1>3, <1>4, <1>5

LEMMA InitVInv == Init => VInv
<1> SUFFICES ASSUME Init PROVE VInv
  OBVIOUS
<1>1. TypeOK
  BY Sizes DEF Init, Cleared, TypeOK
<1>2. Place
  BY Sizes DEF Init, Cleared, Place
<1>3. Origin
  BY Sizes DEF Init, Cleared, Origin
<1> QED BY <1>1, <1>2, <1>3 DEF VInv

LEMMA NextVInv == VInv /\ [Next]_vars => VInv'
<1> SUFFICES ASSUME VInv, [Next]_vars PROVE VInv'
  OBVIOUS
<1>0. TypeOK /\ Place /\ Origin /\ PicturePixels' = PicturePixels
  BY DEF VInv, PicturePixels
<1>1. CASE ResetEdge
  <2>1. TypeOK'
    BY <1>0, <1>1, Sizes DEF ResetEdge, Cleared, TypeOK
  <2>2. Place'
    BY <1>1, Sizes DEF ResetEdge, Cleared, Place
  <2>3. Origin'
    BY <1>0, <1>1, Sizes DEF ResetEdge, Cleared, Origin
  <2> QED BY <2>1, <2>2, <2>3 DEF VInv
<1>2. CASE ClkEdge /\ ~PixelEdge
  \* The beam stays; the detector looks.
  <2>1. UNCHANGED <<hc, vc, hs, vs>> /\ clkdiv /\ ~clkdiv' /\ frame_tick' = FrameStarts
        /\ draw_x_d' = hc /\ draw_y_d' = vc
    BY <1>0, <1>2 DEF ClkEdge, PixelEdge, TypeOK
  <2>2. ~frame_tick /\ drawn' = drawn
    BY <1>0, <1>2, <2>1 DEF ClkEdge, Begun, Origin, TypeOK
  <2>3. clkdiv' \in BOOLEAN /\ frame_tick' \in BOOLEAN
    BY <1>0, <1>2 DEF ClkEdge, FrameStarts, TypeOK
  <2>4. TypeOK'
    BY <1>0, <2>1, <2>2, <2>3 DEF TypeOK
  <2>5. Place'
    BY <1>0, <2>1, <2>2 DEF Place, AtOrigin
  <2>6. AtOrigin => frame_tick'
    BY <1>0, <2>1, Sizes DEF Origin, FrameStarts
  <2>7. Origin'
    BY <1>0, <2>1, <2>2, <2>6 DEF Origin, AtOrigin, FrameStarts
  <2> QED BY <2>4, <2>5, <2>7 DEF VInv
<1>3. CASE ClkEdge /\ PixelEdge
  \* The beam moves on.
  <2>1. Count /\ ~clkdiv /\ clkdiv' /\ draw_x_d' = hc /\ draw_y_d' = vc
        /\ hc \in 0..hpixels /\ vc \in 0..vlines /\ frame_tick' = FrameStarts
    BY <1>0, <1>3 DEF ClkEdge, PixelEdge, TypeOK
  <2>2. ~frame_tick'
    BY <1>0, <2>1 DEF Origin, FrameStarts
  <2> DEFINE place == vc * (hpixels + 1) + hc
             place2 == vc' * (hpixels + 1) + hc'
  <2>3. Begun = place
    BY <1>0, <2>1, Sizes DEF Begun, Origin, Place, AtOrigin
  <2>4. /\ hc' \in 0..hpixels /\ vc' \in 0..vlines
        /\ place \in Nat /\ place < PicturePixels
        /\ \/ ~AtOrigin' /\ place2 = place + 1 /\ place2 < PicturePixels
           \/ AtOrigin' /\ hc = hpixels /\ vc = vlines /\ place + 1 = PicturePixels
    BY <2>1, NextPlace
  <2> HIDE DEF place, place2
  <2>5. drawn' = place + 1
    BY <1>3, <2>3, <2>4, Sizes DEF ClkEdge
  <2>6. TypeOK'
    <3>1. hs' \in BOOLEAN /\ vs' \in BOOLEAN /\ clkdiv' \in BOOLEAN
      BY <1>3 DEF ClkEdge, Sync
    <3>2. drawn' \in 0..(PicturePixels + 1)
      BY <2>4, <2>5, Sizes
    <3>3. frame_tick' \in BOOLEAN
      BY <2>1 DEF FrameStarts
    <3> QED BY <2>1, <2>4, <3>1, <3>2, <3>3, <1>0 DEF TypeOK
  <2>7. Place'
    <3>1. drawn' = place2 \/ (AtOrigin' /\ drawn' = PicturePixels)
      BY <2>4, <2>5
    <3> QED BY <1>0, <3>1 DEF Place, place2
  <2>8. Origin'
    BY <1>0, <2>1, <2>2, <2>4, <2>5, Sizes DEF Origin
  <2> QED BY <2>6, <2>7, <2>8 DEF VInv
<1>4. CASE UNCHANGED vars
  BY <1>0, <1>4 DEF vars, VInv, TypeOK, Place, Origin, AtOrigin
<1> QED BY <1>1, <1>2, <1>3, <1>4 DEF Next

\* The invariant holds in every behaviour.
THEOREM BeamInvariant == Spec => []VInv
<1> QED BY InitVInv, NextVInv, PTL DEF Spec

\* The beam stays on the picture.
THEOREM BeamTypeCorrect == Spec => []TypeOK
<1>1. VInv => TypeOK
  BY DEF VInv
<1> QED BY <1>1, BeamInvariant, PTL

\* The game moves exactly once per picture, for every picture size.
THEOREM TickPerPicture == Spec => []OneTickPerPicture
<1>1. VInv => OneTickPerPicture
  <2> SUFFICES ASSUME VInv PROVE OneTickPerPicture
    OBVIOUS
  <2>1. drawn <= PicturePixels
    <3>1. hc \in 0..hpixels /\ vc \in 0..vlines /\ Place
      BY DEF VInv, TypeOK
    <3>2. vc * (hpixels + 1) + hc \in Nat /\ vc * (hpixels + 1) + hc < PicturePixels
      BY <3>1, Sizes, PlaceBound DEF PicturePixels
    <3> QED BY <3>1, <3>2, Sizes DEF Place
  <2> QED BY <2>1 DEF VInv, Origin, OneTickPerPicture
<1> QED BY <1>1, BeamInvariant, PTL

\* And only while the beam is on the picture's first pixel.
THEOREM TickIsAtOrigin == Spec => TickAtOrigin
<1>1. VInv /\ [Next]_vars => [frame_tick => AtOrigin /\ PixelEdge]_vars
  BY DEF VInv, Origin, PixelEdge
<1> QED BY <1>1, BeamInvariant, PTL DEF Spec, TickAtOrigin

\* No sync pulse touches a visible pixel.
THEOREM VisibleWithoutSync == Spec => SyncInBlanking
<1>1. VInv /\ [Next]_vars => [ClkEdge /\ PixelEdge /\ display' => hs' /\ vs']_vars
  <2> SUFFICES ASSUME VInv, ClkEdge, PixelEdge, display' PROVE hs' /\ vs'
    OBVIOUS
  <2>1. Count /\ Sync /\ hc \in 0..hpixels /\ vc \in 0..vlines
    BY DEF ClkEdge, VInv, TypeOK
  <2>2. ~(hc + 1 >= HSYNC_FIRST /\ hc + 1 < HSYNC_END)
    <3>1. hc' < DISPLAY_W /\ hc' = IF hc = hpixels THEN 0 ELSE hc + 1
      BY <2>1 DEF Count, LineEnds, display
    <3>2. hpixels \in Nat /\ DISPLAY_W <= HSYNC_FIRST /\ HSYNC_END <= hpixels + 1
          /\ DISPLAY_W \in Nat /\ HSYNC_FIRST \in Nat /\ HSYNC_END \in Nat
      BY TimingAssumption
    <3> QED BY <2>1, <3>1, <3>2
  <2>3. ~(vc + 1 = VSYNC_FIRST \/ vc + 1 = VSYNC_LAST)
    <3>1. vc' < DISPLAY_H /\ (vc' = vc \/ vc' = vc + 1 \/ (vc = vlines /\ vc' = 0))
      BY <2>1 DEF Count, display
    <3>2. vlines \in Nat /\ DISPLAY_H < VSYNC_FIRST /\ VSYNC_LAST = VSYNC_FIRST + 1
          /\ VSYNC_LAST < vlines /\ DISPLAY_H \in Nat /\ VSYNC_FIRST \in Nat
      BY TimingAssumption
    <3> QED BY <2>1, <3>1, <3>2
  <2> QED BY <2>1, <2>2, <2>3 DEF Sync
<1> QED BY <1>1, BeamInvariant, PTL DEF Spec, SyncInBlanking
=============================================================================
