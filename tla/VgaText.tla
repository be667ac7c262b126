------------------------------ MODULE VgaText ------------------------------
(***************************************************************************)
(* The text-mode display: the functions of text_mode_vga_color.c, the bus  *)
(* between them and vga_text_avl_interface.sv, its memory and palette, and *)
(* the pipeline that turns them into pixels.                               *)
(*                                                                         *)
(* A step is an edge of the 50 MHz clock. The program has at most one bus  *)
(* transfer at an edge; a write takes one, a read two (readWaitTime 1 in   *)
(* VGA_text_mode_controller_hw.tcl).                                       *)
(***************************************************************************)
EXTENDS Integers, Sequences

CONSTANTS
    COLUMNS, ROWS,       \* 80, 30
    PALETTE_PLACE,       \* the place of a character whose bytes are the palette's, 4096
    ADDRESSES,           \* the places of the component's addresses, 8192
    CELL_W, CELL_H,      \* pixels of a character, 8 and 16
    H_TOTAL, V_TOTAL,    \* pixels of a line and lines of a frame, with blanking
    Codes, Colors, Rgb,
    Lit(_, _, _),        \* font_rom: is the pixel (row, column) of a code set?
    Black,
    ResetPalette,        \* the palette's words after RESET
    Garbage,             \* what comes out of a word that is being written
    Calls                \* the calls the program may make

ASSUME SizeAssumption ==
    /\ {COLUMNS, ROWS, CELL_W, CELL_H, H_TOTAL, V_TOTAL} \subseteq Nat \ {0}
    /\ COLUMNS % 2 = 0
    /\ H_TOTAL >= COLUMNS * CELL_W
    /\ V_TOTAL >= ROWS * CELL_H
ASSUME AddressAssumption ==
    /\ {PALETTE_PLACE, ADDRESSES} \subseteq Nat
    /\ PALETTE_PLACE % 2 = 0
    /\ PALETTE_PLACE >= COLUMNS * ROWS
ASSUME ColorAssumption ==
    Colors \subseteq Nat /\ 0 \in Colors /\ 0 \in Codes /\ Black \in Rgb
ASSUME ResetAssumption == ResetPalette \in [{c \div 2 : c \in Colors} -> Rgb \X Rgb]

VARIABLES
    vram,       \* words of two characters
    palette,    \* words of two colours
    vram_draw_word,  \* what the memory's second port shows
    readdata,   \* AVL_READDATA
    half,       \* the second clock of a pixel
    draw,       \* the pixel of VGA_controller
    draw_d,     \* that of the clock before, with the memory's word
    rgb,        \* the pins
    call, pc,   \* the program's call, and how far it is
    bus,        \* a read is in its second clock
    word,       \* the word read, a local variable of the call
    shown,      \* history: the pixel that rgb is meant for
    settled     \* history: clocks since memory or palette were written, up to 2

scanVars == <<vram_draw_word, half, draw, draw_d, rgb, shown>>
vars == <<vram, palette, readdata, scanVars, call, pc, bus, word, settled>>

----------------------------------------------------------------------------
(* Memory. *)

VramWords == 0..((COLUMNS * ROWS) \div 2 - 1)
PaletteWords == {c \div 2 : c \in Colors}

Char(code, foreground, background) ==
    [code |-> code, look |-> <<foreground, background>>]
Chars == [code : Codes, look : Colors \X Colors]
Words == Chars \X Chars
ASSUME GarbageAssumption == Garbage \subseteq Words /\ Garbage # {}

(* The word and the half of a character or a colour. *)
WordOf(n) == n \div 2
HalfOf(n) == (n % 2) + 1

CharAt(place) == vram[WordOf(place)][HalfOf(place)]
ColorOf(color) == palette[WordOf(color)][HalfOf(color)]

(* Where the program writes a character of a text. *)
PlaceOf(x, y) == (y * COLUMNS) + x

(* What the program may call, and how many accesses a call makes: two for *)
(* a character. A text may go on beyond the screen, up to the addresses of *)
(* the other components.                                                  *)
ASSUME CallsAssumption ==
    /\ Calls \subseteq
           [kind : {"clear"}]
           \cup [kind : {"draw"}, str : Seq(Codes), x : Nat, y : Nat,
                 foreground : Colors, background : Colors]
           \cup [kind : {"color"}, color : Colors, rgb : Rgb]
           \cup [kind : {"read"}, word : VramWords]
    /\ \A c \in Calls :
           c.kind = "draw" => PlaceOf(c.x, c.y) + Len(c.str) <= ADDRESSES

Accesses(c) ==
    CASE c.kind = "none" -> 0
      [] c.kind = "clear" -> 2 * (COLUMNS * ROWS)
      [] c.kind = "draw" -> 2 * Len(c.str)
      [] c.kind = "color" -> 3
      [] c.kind = "read" -> 2

TypeOK ==
    /\ vram \in [VramWords -> Words]
    /\ palette \in [PaletteWords -> Rgb \X Rgb]
    /\ vram_draw_word \in Words
    /\ half \in {0, 1}
    /\ {draw, draw_d, shown} \subseteq (0..(H_TOTAL - 1)) \X (0..(V_TOTAL - 1))
    /\ rgb \in Rgb
    /\ call \in Calls \cup {[kind |-> "none"]}
    /\ pc \in 0..Accesses(call)
    /\ bus \in BOOLEAN
    /\ settled \in 0..2

Blank == Char(0, 0, 0)

(* Memory starts with any contents, the palette with the colours of RESET. *)
Init ==
    /\ \E c \in Chars : vram = [w \in VramWords |-> <<c, c>>]
    /\ palette = ResetPalette
    /\ vram_draw_word = <<Blank, Blank>>
    /\ readdata = <<Blank, Blank>>
    /\ half = 0
    /\ draw = <<0, 0>>
    /\ draw_d = <<H_TOTAL - 1, V_TOTAL - 1>>
    /\ shown = draw_d
    /\ rgb = Black
    /\ call = [kind |-> "none"]
    /\ pc = 0
    /\ bus = FALSE
    /\ word = <<Blank, Blank>>
    /\ settled = 0

----------------------------------------------------------------------------
(* Scanning out. *)

Visible(pixel) == pixel[1] < COLUMNS * CELL_W /\ pixel[2] < ROWS * CELL_H

(* draw_word_index = row * 40 + col / 2 *)
CharCol(pixel) == pixel[1] \div CELL_W
CharRow(pixel) == pixel[2] \div CELL_H
DrawIndex(pixel) ==
    (CharRow(pixel) * (COLUMNS \div 2)) + (CharCol(pixel) \div 2)

(* The colour of a pixel for a character and the palette. *)
Selected(char, pixel) ==
    ColorOf(IF Lit(char.code, pixel[2] % CELL_H, pixel[1] % CELL_W)
            THEN char.look[1]
            ELSE char.look[2])

(* Mutant: a line is one pixel longer. *)
NextPixel_LongLine ==
    IF half = 0 THEN draw
    ELSE IF draw[1] < H_TOTAL THEN <<draw[1] + 1, draw[2]>>
    ELSE IF draw[2] < V_TOTAL - 1 THEN <<0, draw[2] + 1>>
    ELSE <<0, 0>>

NextPixel ==
    IF half = 0 THEN draw
    ELSE IF draw[1] < H_TOTAL - 1 THEN <<draw[1] + 1, draw[2]>>
    ELSE IF draw[2] < V_TOTAL - 1 THEN <<0, draw[2] + 1>>
    ELSE <<0, 0>>

(* Mutant: the half is chosen by the present pixel. *)
Scan_HalfNotDelayed(written) ==
    /\ half' = 1 - half
    /\ draw' = NextPixel
    /\ draw_d' = draw
    /\ shown' = draw_d
    /\ IF Visible(draw) /\ DrawIndex(draw) \notin written
       THEN vram_draw_word' = vram[DrawIndex(draw)]
       ELSE IF Visible(draw)
       THEN vram_draw_word' \in Garbage
       ELSE UNCHANGED vram_draw_word
    /\ rgb' = IF Visible(draw_d)
              THEN Selected(vram_draw_word[HalfOf(CharCol(draw))], draw_d)
              ELSE Black

(* The clock registers the word of the pixel, and the colour of the one   *)
(* before. A word that is written at the same edge comes out as garbage.  *)
Scan(written) ==
    /\ half' = 1 - half
    /\ draw' = NextPixel
    /\ draw_d' = draw
    /\ shown' = draw_d
    /\ IF Visible(draw) /\ DrawIndex(draw) \notin written
       THEN vram_draw_word' = vram[DrawIndex(draw)]
       ELSE IF Visible(draw)
       THEN vram_draw_word' \in Garbage
       ELSE UNCHANGED vram_draw_word
    /\ rgb' = IF Visible(draw_d)
              THEN Selected(vram_draw_word[HalfOf(CharCol(draw_d))], draw_d)
              ELSE Black

----------------------------------------------------------------------------
(* The bus. *)

Rest == settled' = IF settled < 2 THEN settled + 1 ELSE settled

NoTransfer ==
    /\ Scan({})
    /\ UNCHANGED <<vram, palette, readdata, bus, word>>
    /\ Rest

(* The halves of a palette word that a byte has bits of: they are the bits *)
(* 12 to 1 and 24 to 13 (palette_rgb).                                     *)
HalvesHit(place, field) ==
    IF HalfOf(place) = 2 THEN {2}
    ELSE IF field = "look" THEN {1}
    ELSE {1, 2}

(* A byte of a character. Beyond the screen's words nothing is written but *)
(* a byte of the palette, whatever colours come of it (202-206).           *)
WriteChar(place, field, value) ==
    LET w == WordOf(place)
        p == WordOf(place - PALETTE_PLACE)
    IN  /\ IF w \in VramWords
           THEN /\ vram' = [vram EXCEPT ![w][HalfOf(place)][field] = value]
                /\ Scan({w})
           ELSE UNCHANGED vram /\ Scan({})
        /\ IF place >= PALETTE_PLACE /\ p \in PaletteWords
           THEN \E pair \in Rgb \X Rgb :
                    /\ \A h \in {1, 2} \ HalvesHit(place, field) : pair[h] = palette[p][h]
                    /\ palette' = [palette EXCEPT ![p] = pair]
           ELSE UNCHANGED palette
        /\ settled' = 0
        /\ UNCHANGED <<readdata, bus, word>>

WritePalette(w, value) ==
    /\ palette' = [palette EXCEPT ![w] = value]
    /\ settled' = 0
    /\ Scan({})
    /\ UNCHANGED <<vram, readdata, bus, word>>

(* The first clock of a read, and the second: the program gets what         *)
(* AVL_READDATA held during the second.                                     *)
ReadFirst(value) ==
    /\ ~bus
    /\ bus' = TRUE
    /\ readdata' = value
    /\ Scan({})
    /\ Rest
    /\ UNCHANGED <<vram, palette, word>>

ReadSecond(value) ==
    /\ bus
    /\ bus' = FALSE
    /\ word' = readdata
    /\ readdata' = value
    /\ Scan({})
    /\ Rest
    /\ UNCHANGED <<vram, palette>>

----------------------------------------------------------------------------
(* The program. *)

CallNow ==
    /\ call.kind = "none"
    /\ call' \in Calls
    /\ pc' = 0
    /\ UNCHANGED <<vram, palette, readdata, scanVars, bus, word, settled>>

Return ==
    /\ call' = [kind |-> "none"]
    /\ pc' = 0
    /\ word' = <<Blank, Blank>>
    /\ UNCHANGED <<vram, palette, readdata, scanVars, bus, settled>>

GoOn == pc' = pc + 1 /\ UNCHANGED call
Wait == UNCHANGED <<call, pc>> /\ NoTransfer /\ ~bus

(* textVGAColorClr: byte after byte. *)
ClearStep ==
    /\ call.kind = "clear"
    /\ IF pc = Accesses(call)
       THEN Return
       ELSE /\ GoOn
            /\ IF pc % 2 = 0
               THEN WriteChar(pc \div 2, "look", <<0, 0>>)
               ELSE WriteChar(pc \div 2, "code", 0)

(* textVGADrawColorText: the colours of a character, then its code. *)
DrawStep ==
    LET place == PlaceOf(call.x, call.y) + (pc \div 2)
    IN  /\ call.kind = "draw"
        /\ IF pc = Accesses(call)
           THEN Return
           ELSE /\ GoOn
                /\ IF pc % 2 = 0
                   THEN WriteChar(place, "look", <<call.foreground, call.background>>)
                   ELSE WriteChar(place, "code", call.str[(pc \div 2) + 1])

(* Mutant: the other half is not kept. *)
ColorStep_WholeWord ==
    LET w == WordOf(call.color)
    IN  /\ call.kind = "color"
        /\ \/ pc = 0 /\ GoOn /\ ReadFirst(palette[w])
           \/ pc = 1 /\ GoOn /\ ReadSecond(palette[w])
           \/ pc = 2 /\ GoOn /\ WritePalette(w, <<call.rgb, call.rgb>>)
           \/ pc = 3 /\ Return

(* setColorPalette: the word is read, its half replaced, and written. *)
ColorStep ==
    LET w == WordOf(call.color)
    IN  /\ call.kind = "color"
        /\ \/ pc = 0 /\ GoOn /\ ReadFirst(palette[w])
           \/ pc = 1 /\ GoOn /\ ReadSecond(palette[w])
           \/ /\ pc = 2
              /\ GoOn
              /\ WritePalette(w, [word EXCEPT ![HalfOf(call.color)] = call.rgb])
           \/ pc = 3 /\ Return

(* A word of VRAM is read back. The memory's port shows the word of the *)
(* clock before, when the address was anything.                         *)
ReadStep ==
    /\ call.kind = "read"
    /\ \/ pc = 0 /\ GoOn /\ \E a \in VramWords : ReadFirst(vram[a])
       \/ pc = 1 /\ GoOn /\ ReadSecond(vram[call.word])
       \/ pc = 2 /\ Return

Next == CallNow \/ ClearStep \/ DrawStep \/ ColorStep \/ ReadStep \/ Wait

Spec == Init /\ [][Next]_vars
----------------------------------------------------------------------------
(* Properties. *)

(* Two clocks after the last write the pins show the picture that memory   *)
(* and palette hold: the character's word, its half, the row and column in *)
(* the glyph and the blanking belong to one pixel, although they reach the *)
(* colour by different registers (vga_text_avl_interface.sv 161-241).      *)
PictureMatchesMemory ==
    settled = 2 =>
        rgb = IF Visible(shown)
              THEN Selected(CharAt(PlaceOf(CharCol(shown), CharRow(shown))), shown)
              ELSE Black

(* The calls implement those of TextDisplay: a colour that shares its word *)
(* with another one is changed alone (text_mode_vga_color.c 35-50), a text *)
(* reaches its places and no other one, and no colour unless it goes on as *)
(* far as the palette, 1696 places beyond the screen (25-33).              *)
Display ==
    INSTANCE TextDisplay WITH
        code <- [p \in 0..(COLUMNS * ROWS - 1) |-> CharAt(p).code],
        look <- [p \in 0..(COLUMNS * ROWS - 1) |-> CharAt(p).look],
        colors <- [c \in Colors |-> ColorOf(c)]
CallsImplemented == Display!Spec

(* text_mode_vga.c 45-57: what was written is read back. *)
VramReadsBack == call.kind = "read" /\ pc = 2 => word = vram[call.word]
=============================================================================
