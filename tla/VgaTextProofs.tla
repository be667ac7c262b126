--------------------------- MODULE VgaTextProofs ---------------------------
(***************************************************************************)
(* For every screen size, glyph table, palette and program: the picture of *)
(* VgaText.                                                                *)
(*                                                                         *)
(* Once memory rests, the memory's second port shows the word of the pixel *)
(* one clock back, and the pins the colour of the pixel two clocks back.   *)
(***************************************************************************)
EXTENDS VgaText, TLAPS

Pixels == (0..(H_TOTAL - 1)) \X (0..(V_TOTAL - 1))

(* The word at the memory's second port, and the colour at the pins. *)
WordInv ==
    settled > 0 /\ Visible(draw_d) => vram_draw_word = vram[DrawIndex(draw_d)]

IInv ==
    /\ draw \in Pixels /\ draw_d \in Pixels
    /\ settled \in 0..2
    /\ WordInv
    /\ PictureMatchesMemory

LEMMA Sizes ==
    /\ COLUMNS \in Nat \ {0} /\ ROWS \in Nat \ {0}
    /\ CELL_W \in Nat \ {0} /\ CELL_H \in Nat \ {0}
    /\ H_TOTAL \in Nat \ {0} /\ V_TOTAL \in Nat \ {0}
    /\ COLUMNS % 2 = 0
BY SizeAssumption

----------------------------------------------------------------------------
(* Twice a number does not change which half it is. *)
LEMMA Halves ==
    ASSUME NEW k \in Nat, NEW c \in Nat
    PROVE  /\ (2 * k + c) \div 2 = k + (c \div 2)
           /\ (2 * k + c) % 2 = c % 2
OBVIOUS

LEMMA Doubled ==
    ASSUME NEW h \in Nat, NEW r \in Nat
    PROVE  r * (2 * h) = 2 * (r * h) /\ r * h \in Nat
OBVIOUS

(* The scan-out's word and half are those of the character's place: a line *)
(* has an even number of characters.                                       *)
LEMMA PlaceSplits ==
    ASSUME NEW r \in Nat, NEW c \in Nat
    PROVE  /\ WordOf(PlaceOf(c, r)) = (r * (COLUMNS \div 2)) + (c \div 2)
           /\ HalfOf(PlaceOf(c, r)) = HalfOf(c)
<1> DEFINE h == COLUMNS \div 2
<1>1. h \in Nat /\ COLUMNS = 2 * h
  BY Sizes
<1>2. PlaceOf(c, r) = 2 * (r * h) + c /\ r * h \in Nat
  <2>1. r * COLUMNS = 2 * (r * h) /\ r * h \in Nat
    <3> HIDE DEF h
    <3> QED
      BY <1>1, Doubled
  <2> QED
    BY <2>1 DEF PlaceOf
<1> HIDE DEF h
<1>3. /\ (2 * (r * h) + c) \div 2 = (r * h) + (c \div 2)
      /\ (2 * (r * h) + c) % 2 = c % 2
  BY <1>2, Halves
<1>4. WordOf(PlaceOf(c, r)) = (r * h) + (c \div 2) /\ HalfOf(PlaceOf(c, r)) = HalfOf(c)
  BY <1>2, <1>3 DEF WordOf, HalfOf
<1> QED
  BY <1>4 DEF h

LEMMA CellType ==
    ASSUME NEW pixel \in Pixels
    PROVE  CharCol(pixel) \in Nat /\ CharRow(pixel) \in Nat
<1>1. ASSUME NEW n \in Nat, NEW d \in Nat \ {0}
      PROVE  n \div d \in Nat
  BY <1>1
<1> QED
  BY <1>1, Sizes DEF Pixels, CharCol, CharRow

(* The character drawn at a pixel, by the scan-out's address. *)
LEMMA CharDrawn ==
    ASSUME NEW pixel \in Pixels
    PROVE  CharAt(PlaceOf(CharCol(pixel), CharRow(pixel))) =
               vram[DrawIndex(pixel)][HalfOf(CharCol(pixel))]
BY CellType, PlaceSplits DEF CharAt, DrawIndex

----------------------------------------------------------------------------
LEMMA NextPixelType ==
    ASSUME draw \in Pixels
    PROVE  NextPixel \in Pixels
BY Sizes DEF Pixels, NextPixel

(* A clock at which the program writes, or leaves memory alone. *)
LEMMA ClockInv ==
    ASSUME IInv, NEW written, Scan(written),
           \/ settled' = 0
           \/ written = {} /\ Rest /\ UNCHANGED <<vram, palette>>
    PROVE  IInv'
<1>1. draw' \in Pixels /\ draw_d' \in Pixels /\ settled' \in 0..2
  BY NextPixelType DEF IInv, Scan, Rest
<1>2. CASE settled' = 0
  BY <1>1, <1>2 DEF IInv, WordInv, PictureMatchesMemory
<1>3. CASE written = {} /\ Rest /\ UNCHANGED <<vram, palette>>
  <2>1. WordInv'
    <3>1. draw_d' = draw /\ (Visible(draw) => vram_draw_word' = vram[DrawIndex(draw)])
      BY <1>3 DEF Scan
    <3> QED
      BY <1>3, <3>1 DEF WordInv, Visible, DrawIndex, CharCol, CharRow
  <2>2. PictureMatchesMemory'
    <3> SUFFICES ASSUME settled' = 2
                 PROVE  rgb' = (IF Visible(shown)
                                THEN Selected(CharAt(PlaceOf(CharCol(shown),
                                                             CharRow(shown))), shown)
                                ELSE Black)'
      BY DEF PictureMatchesMemory
    <3>1. settled > 0
      BY <1>3 DEF Rest, IInv
    <3>2. shown' = draw_d
      BY DEF Scan
    <3>3. CASE ~Visible(draw_d)
      BY <3>2, <3>3 DEF Scan, Visible
    <3>4. CASE Visible(draw_d)
      <4>1. rgb' = Selected(CharAt(PlaceOf(CharCol(draw_d), CharRow(draw_d))), draw_d)
        BY <3>1, <3>4, CharDrawn DEF Scan, IInv, WordInv
      <4> QED
        BY <1>3, <3>2, <3>4, <4>1
        DEF Visible, Selected, CharAt, ColorOf, PlaceOf, CharCol, CharRow
    <3> QED
      BY <3>3, <3>4
  <2> QED
    BY <1>1, <2>1, <2>2 DEF IInv
<1> QED
  BY <1>2, <1>3

(* The program's steps between clocks. *)
LEMMA RestInv ==
    ASSUME IInv, UNCHANGED <<vram, palette, scanVars, settled>>
    PROVE  IInv'
BY DEF IInv, WordInv, PictureMatchesMemory, scanVars, Visible, DrawIndex, Selected, CharAt,
    ColorOf, PlaceOf, CharCol, CharRow

----------------------------------------------------------------------------
LEMMA InitInv == Init => IInv
BY Sizes DEF Init, IInv, Pixels, WordInv, PictureMatchesMemory

LEMMA NextInv == IInv /\ [Next]_vars => IInv'
<1> SUFFICES ASSUME IInv, [Next]_vars
             PROVE  IInv'
  OBVIOUS
<1>1. CASE CallNow \/ UNCHANGED vars
  BY <1>1, RestInv DEF CallNow, vars
<1>2. ASSUME Return PROVE IInv'
  BY <1>2, RestInv DEF Return
<1>3. ASSUME NEW place, NEW field, NEW value, WriteChar(place, field, value)
      PROVE  IInv'
  BY <1>3, ClockInv DEF WriteChar
<1>4. ASSUME NEW w, NEW value, WritePalette(w, value)
      PROVE  IInv'
  BY <1>4, ClockInv DEF WritePalette
<1>5. ASSUME NEW value, ReadFirst(value) \/ ReadSecond(value)
      PROVE  IInv'
  BY <1>5, ClockInv DEF ReadFirst, ReadSecond
<1>6. CASE Wait
  BY <1>6, ClockInv DEF Wait, NoTransfer
<1>7. CASE ClearStep
  BY <1>2, <1>3, <1>7 DEF ClearStep
<1>8. CASE DrawStep
  BY <1>2, <1>3, <1>8 DEF DrawStep
<1>9. CASE ColorStep
  BY <1>2, <1>4, <1>5, <1>9 DEF ColorStep
<1>10. CASE ReadStep
  BY <1>2, <1>5, <1>10 DEF ReadStep
<1> QED
  BY <1>1, <1>6, <1>7, <1>8, <1>9, <1>10 DEF Next

(* The picture is the one memory and palette hold, whatever the program    *)
(* calls (vga_text_avl_interface.sv 161-241).                              *)
THEOREM PictureDrawn == Spec => []PictureMatchesMemory
<1>1. IInv => PictureMatchesMemory
  BY DEF IInv
<1> QED
  BY <1>1, InitInv, NextInv, PTL DEF Spec
=============================================================================
