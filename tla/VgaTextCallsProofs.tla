------------------------- MODULE VgaTextCallsProofs -------------------------
(***************************************************************************)
(* For every screen size, glyph table, palette and set of calls: the       *)
(* variables of VgaText keep their types, and the calls of the program     *)
(* implement those of TextDisplay.                                         *)
(*                                                                         *)
(* What a call has still to do is its accesses from pc on. The invariant   *)
(* says that those before pc are done: the places a clear or a text has    *)
(* passed hold what it wrote, and setColorPalette still has the word that  *)
(* the palette holds.                                                      *)
(***************************************************************************)
EXTENDS VgaTextProofs

Places == 0..(COLUMNS * ROWS - 1)

MemoryType ==
    /\ vram \in [VramWords -> Words]
    /\ palette \in [PaletteWords -> Rgb \X Rgb]

ScanType ==
    /\ vram_draw_word \in Words
    /\ half \in {0, 1}
    /\ draw \in Pixels /\ draw_d \in Pixels /\ shown \in Pixels
    /\ rgb \in Rgb

ProgramType ==
    /\ call \in Calls \cup {[kind |-> "none"]}
    /\ pc \in 0..Accesses(call)
    /\ bus \in BOOLEAN
    /\ settled \in 0..2

(* The word that setColorPalette read is the palette's. *)
WordFetched ==
    call.kind = "color" =>
        /\ pc = 1 => readdata = palette[WordOf(call.color)]
        /\ pc = 2 => word = palette[WordOf(call.color)]

(* The places a clear has passed are blank. *)
ClearedSoFar ==
    call.kind = "clear" =>
        \A p \in Places :
            /\ pc > 2 * p => CharAt(p).look = <<0, 0>>
            /\ pc > 2 * p + 1 => CharAt(p).code = 0

(* The places a text has passed hold its characters. *)
TextPlace(i) == PlaceOf(call.x, call.y) + i
DrawnSoFar ==
    call.kind = "draw" =>
        \A i \in 0..(Len(call.str) - 1) :
            TextPlace(i) \in Places =>
                /\ pc > 2 * i =>
                       CharAt(TextPlace(i)).look = <<call.foreground, call.background>>
                /\ pc > 2 * i + 1 => CharAt(TextPlace(i)).code = call.str[i + 1]

ColorSet == call.kind = "color" /\ pc = 3 => ColorOf(call.color) = call.rgb

CallInv ==
    /\ MemoryType /\ ScanType /\ ProgramType
    /\ WordFetched /\ ClearedSoFar /\ DrawnSoFar /\ ColorSet

----------------------------------------------------------------------------
(* Memory. *)

LEMMA PairUpdate ==
    ASSUME NEW S, NEW t \in S \X S, NEW h \in {1, 2}, NEW v \in S
    PROVE  /\ [t EXCEPT ![h] = v] \in S \X S
           /\ [t EXCEPT ![h] = v][h] = v
           /\ \A g \in {1, 2} : g # h => [t EXCEPT ![h] = v][g] = t[g]
<1>1. t = <<t[1], t[2]>> /\ t[1] \in S /\ t[2] \in S
  OBVIOUS
<1>2. CASE h = 1
  <2>1. [t EXCEPT ![1] = v] = <<v, t[2]>>
    BY <1>1
  <2> QED
    BY <1>1, <1>2, <2>1
<1>3. CASE h = 2
  <2>1. [t EXCEPT ![2] = v] = <<t[1], v>>
    BY <1>1
  <2> QED
    BY <1>1, <1>3, <2>1
<1> QED
  BY <1>2, <1>3

LEMMA PairRead ==
    ASSUME NEW S, NEW t \in S \X S, NEW n \in Nat
    PROVE  HalfOf(n) \in {1, 2} /\ t[HalfOf(n)] \in S
BY DEF HalfOf

(* A place is a word and a half. *)
LEMMA PlacesApart ==
    ASSUME NEW p \in Nat, NEW q \in Nat, WordOf(p) = WordOf(q), HalfOf(p) = HalfOf(q)
    PROVE  p = q
BY DEF WordOf, HalfOf

LEMMA PlaceWords ==
    ASSUME NEW p \in Nat
    PROVE  (p \in Places) <=> (WordOf(p) \in VramWords)
<1> DEFINE size == COLUMNS * ROWS
<1>1. size \in Nat /\ size % 2 = 0
  <2>1. COLUMNS \div 2 \in Nat /\ COLUMNS = 2 * (COLUMNS \div 2)
    BY Sizes
  <2>2. /\ ROWS * (2 * (COLUMNS \div 2)) = 2 * (ROWS * (COLUMNS \div 2))
        /\ ROWS * (COLUMNS \div 2) \in Nat
    BY <2>1, Sizes, Doubled
  <2>3. size = ROWS * COLUMNS
    BY Sizes
  <2> QED
    BY <2>1, <2>2, <2>3
<1>2. (p \in 0..(size - 1)) <=> (WordOf(p) \in 0..((size \div 2) - 1))
  <2> HIDE DEF size
  <2> QED
    BY <1>1 DEF WordOf
<1> QED
  BY <1>2 DEF Places, VramWords

LEMMA CharUpdate ==
    ASSUME NEW char \in Chars, NEW field \in {"code", "look"}, NEW value,
           \/ field = "code" /\ value \in Codes
           \/ field = "look" /\ value \in Colors \X Colors
    PROVE  [char EXCEPT ![field] = value] \in Chars
BY DEF Chars

LEMMA PlaceUpdate ==
    ASSUME vram \in [VramWords -> Words],
           NEW place \in Places,
           NEW field \in {"code", "look"}, NEW value,
           \/ field = "code" /\ value \in Codes
           \/ field = "look" /\ value \in Colors \X Colors,
           vram' = [vram EXCEPT ![WordOf(place)][HalfOf(place)][field] = value]
    PROVE  /\ vram' \in [VramWords -> Words]
           /\ \A p \in Places :
                  CharAt(p)' = IF p = place THEN [CharAt(p) EXCEPT ![field] = value]
                               ELSE CharAt(p)
<1>1. \A p \in Places : p \in Nat /\ WordOf(p) \in VramWords /\ HalfOf(p) \in {1, 2}
  BY PlaceWords DEF Places, HalfOf
<1>2. PICK w \in VramWords, h \in {1, 2} : w = WordOf(place) /\ h = HalfOf(place)
  BY <1>1
<1> DEFINE char == [vram[w][h] EXCEPT ![field] = value]
           new == [vram[w] EXCEPT ![h] = char]
<1>3. vram' = [vram EXCEPT ![w] = new]
  BY <1>2
<1>4. vram[w] \in Chars \X Chars
  BY DEF Words
<1>5. char \in Chars
  BY <1>4, CharUpdate
<1>6. /\ new \in Chars \X Chars
      /\ new[h] = char
      /\ \A g \in {1, 2} : g # h => new[g] = vram[w][g]
  <2> HIDE DEF char
  <2> QED
    BY <1>4, <1>5, PairUpdate
<1> HIDE DEF new
<1>7. vram' \in [VramWords -> Words] /\ vram'[w] = new
  BY <1>3, <1>6 DEF Words
<1>8. \A v \in VramWords : v # w => vram'[v] = vram[v]
  BY <1>3
<1> SUFFICES ASSUME NEW p \in Places
             PROVE  CharAt(p)' = IF p = place THEN [CharAt(p) EXCEPT ![field] = value]
                                 ELSE CharAt(p)
  BY <1>7
<1>9. CASE p = place
  BY <1>2, <1>6, <1>7, <1>9 DEF CharAt
<1>10. CASE p # place
  <2>1. WordOf(p) # WordOf(place) \/ HalfOf(p) # HalfOf(place)
    BY <1>1, <1>10, PlacesApart
  <2> QED
    BY <1>1, <1>2, <1>6, <1>7, <1>8, <1>10, <2>1 DEF CharAt
<1> QED
  BY <1>9, <1>10

LEMMA CharTyped ==
    ASSUME vram \in [VramWords -> Words], NEW p \in Places
    PROVE  CharAt(p) \in Chars
<1>1. p \in Nat /\ WordOf(p) \in VramWords
  BY PlaceWords DEF Places
<1>2. vram[WordOf(p)] \in Chars \X Chars
  BY <1>1 DEF Words
<1> QED
  BY <1>1, <1>2, PairRead DEF CharAt

(* A byte reaches the palette from PALETTE_PLACE on, and there one word. *)
LEMMA PaletteHit ==
    ASSUME MemoryType, NEW place \in Nat, NEW field, NEW value,
           WriteChar(place, field, value)
    PROVE  /\ palette' \in [PaletteWords -> Rgb \X Rgb]
           /\ place < PALETTE_PLACE => palette' = palette
           /\ \A w \in PaletteWords :
                  palette'[w] # palette[w] => w = WordOf(place - PALETTE_PLACE)
<1> DEFINE p == WordOf(place - PALETTE_PLACE)
<1>1. PALETTE_PLACE \in Nat
  BY AddressAssumption
<1>2. CASE place >= PALETTE_PLACE /\ p \in PaletteWords
  <2>1. PICK pair \in Rgb \X Rgb : palette' = [palette EXCEPT ![p] = pair]
    BY <1>2 DEF WriteChar
  <2> QED
    BY <1>1, <1>2, <2>1 DEF MemoryType
<1>3. CASE ~(place >= PALETTE_PLACE /\ p \in PaletteWords)
  <2>1. palette' = palette
    BY <1>3 DEF WriteChar
  <2> QED
    BY <2>1 DEF MemoryType
<1> QED
  BY <1>2, <1>3

(* The screen's places lie before the palette. *)
LEMMA ScreenFirst ==
    ASSUME NEW place \in Places
    PROVE  place \in Nat /\ place < PALETTE_PLACE
<1>1. COLUMNS * ROWS \in Nat /\ PALETTE_PLACE \in Nat /\ PALETTE_PLACE >= COLUMNS * ROWS
  BY Sizes, AddressAssumption
<1> QED
  BY <1>1 DEF Places

(* A write of a byte: the type, and what every place holds. *)
LEMMA Written ==
    ASSUME MemoryType,
           NEW place \in Nat, NEW field \in {"code", "look"}, NEW value,
           \/ field = "code" /\ value \in Codes
           \/ field = "look" /\ value \in Colors \X Colors,
           WriteChar(place, field, value)
    PROVE  /\ MemoryType'
           /\ \A p \in Places :
                  CharAt(p)' = IF p = place THEN [CharAt(p) EXCEPT ![field] = value]
                               ELSE CharAt(p)
<1>1. CASE place \in Places
  <2>1. vram' = [vram EXCEPT ![WordOf(place)][HalfOf(place)][field] = value]
    BY <1>1, PlaceWords DEF WriteChar
  <2>2. vram \in [VramWords -> Words]
    BY DEF MemoryType
  <2>3. vram' \in [VramWords -> Words]
    BY <1>1, <2>1, <2>2, PlaceUpdate
  <2>4. \A p \in Places :
            CharAt(p)' = IF p = place THEN [CharAt(p) EXCEPT ![field] = value]
                         ELSE CharAt(p)
    BY <1>1, <2>1, <2>2, PlaceUpdate
  <2> QED
    BY <2>3, <2>4, PaletteHit DEF MemoryType
<1>2. CASE place \notin Places
  <2>1. vram' = vram
    BY <1>2, PlaceWords DEF WriteChar
  <2> QED
    BY <1>2, <2>1, PaletteHit DEF MemoryType, CharAt
<1> QED
  BY <1>1, <1>2

LEMMA ColorTyped ==
    ASSUME MemoryType, NEW color \in Colors
    PROVE  /\ WordOf(color) \in PaletteWords /\ color \in Nat
           /\ palette[WordOf(color)] \in Rgb \X Rgb
           /\ ColorOf(color) \in Rgb
<1>1. WordOf(color) \in PaletteWords /\ color \in Nat
  BY ColorAssumption DEF WordOf, PaletteWords
<1>2. palette[WordOf(color)] \in Rgb \X Rgb
  BY <1>1 DEF MemoryType
<1> QED
  BY <1>1, <1>2, PairRead DEF ColorOf

(* A write of a palette word with one half replaced. *)
LEMMA ColorWritten ==
    ASSUME MemoryType,
           NEW color \in Colors, NEW value \in Rgb,
           palette' = [palette EXCEPT ![WordOf(color)] =
                          [palette[WordOf(color)] EXCEPT ![HalfOf(color)] = value]]
    PROVE  /\ palette' \in [PaletteWords -> Rgb \X Rgb]
           /\ \A c \in Colors : ColorOf(c)' = IF c = color THEN value ELSE ColorOf(c)
<1> DEFINE w == WordOf(color)
           h == HalfOf(color)
           new == [palette[w] EXCEPT ![h] = value]
<1>1. w \in PaletteWords /\ color \in Nat /\ h \in {1, 2} /\ palette[w] \in Rgb \X Rgb
  BY ColorTyped DEF HalfOf
<1>2. /\ new \in Rgb \X Rgb
      /\ new[h] = value
      /\ \A g \in {1, 2} : g # h => new[g] = palette[w][g]
  <2> HIDE DEF w, h
  <2> QED
    BY <1>1, PairUpdate
<1>3. palette' = [palette EXCEPT ![w] = new]
  OBVIOUS
<1> HIDE DEF new
<1>4. /\ palette' \in [PaletteWords -> Rgb \X Rgb]
      /\ palette'[w] = new
      /\ \A v \in PaletteWords : v # w => palette'[v] = palette[v]
  BY <1>1, <1>2, <1>3 DEF MemoryType
<1> SUFFICES ASSUME NEW c \in Colors
             PROVE  ColorOf(c)' = IF c = color THEN value ELSE ColorOf(c)
  BY <1>4
<1>5. CASE c = color
  <2>1. ColorOf(c)' = palette'[w][h]
    BY <1>5 DEF ColorOf
  <2> HIDE DEF w, h
  <2> QED
    BY <1>2, <1>4, <1>5, <2>1
<1>6. CASE c # color
  <2>1. c \in Nat /\ WordOf(c) \in PaletteWords /\ HalfOf(c) \in {1, 2}
    BY ColorTyped DEF HalfOf
  <2>2. WordOf(c) # w \/ HalfOf(c) # h
    BY <1>1, <1>6, <2>1, PlacesApart
  <2> QED
    BY <1>1, <1>2, <1>4, <1>6, <2>1, <2>2 DEF ColorOf
<1> QED
  BY <1>5, <1>6

----------------------------------------------------------------------------
(* Scanning out. *)

(* A row and a column number a word. *)
LEMMA RowMajor ==
    ASSUME NEW h \in Nat, NEW rows \in Nat, NEW r \in Nat, NEW c \in Nat, r < rows, c < h
    PROVE  r * h + c \in 0..(rows * h - 1)
<1>1. r + 1 <= rows /\ (r + 1) * h <= rows * h
  OBVIOUS
<1>2. (r + 1) * h = r * h + h /\ r * h \in Nat /\ rows * h \in Nat
  OBVIOUS
<1> QED
  BY <1>1, <1>2

LEMMA CellBelow ==
    ASSUME NEW n \in Nat, NEW d \in Nat \ {0}, NEW k \in Nat, n < k * d
    PROVE  n \div d \in Nat /\ n \div d < k
<1> DEFINE q == n \div d
<1>1. q \in Nat /\ q * d <= n
  OBVIOUS
<1>2. ASSUME q >= k PROVE FALSE
  <2>1. q * d >= k * d
    BY <1>1, <1>2
  <2>2. k * d \in Nat /\ q * d \in Nat
    BY <1>1
  <2> QED
    BY <1>1, <2>1, <2>2
<1> QED
  BY <1>1, <1>2

LEMMA DrawIndexType ==
    ASSUME NEW pixel \in Pixels, Visible(pixel)
    PROVE  DrawIndex(pixel) \in VramWords
<1> DEFINE h == COLUMNS \div 2
           r == CharRow(pixel)
           c == CharCol(pixel)
<1>1. h \in Nat /\ COLUMNS = 2 * h
  BY Sizes
<1>2. c \in Nat /\ c < COLUMNS
  <2>1. pixel[1] \in Nat /\ pixel[1] < COLUMNS * CELL_W
    BY Sizes DEF Visible, Pixels
  <2> QED
    BY <2>1, CellBelow, Sizes DEF CharCol
<1>3. r \in Nat /\ r < ROWS
  <2>1. pixel[2] \in Nat /\ pixel[2] < ROWS * CELL_H
    BY Sizes DEF Visible, Pixels
  <2> QED
    BY <2>1, CellBelow, Sizes DEF CharRow
<1>4. c \div 2 \in Nat /\ c \div 2 < h
  <2> HIDE DEF h, c
  <2> QED
    BY <1>1, <1>2
<1>5. r * h + (c \div 2) \in 0..(ROWS * h - 1)
  <2> DEFINE k == c \div 2
  <2> HIDE DEF h, r, k
  <2> QED
    BY <1>1, <1>3, <1>4, RowMajor, Sizes
<1>6. (COLUMNS * ROWS) \div 2 = ROWS * h
  <2>1. ROWS * (2 * h) = 2 * (ROWS * h) /\ ROWS * h \in Nat
    <3> HIDE DEF h
    <3> QED
      BY <1>1, Doubled, Sizes
  <2>2. COLUMNS * ROWS = ROWS * COLUMNS
    BY Sizes
  <2>3. COLUMNS * ROWS = 2 * (ROWS * h)
    BY <1>1, <2>1, <2>2
  <2> QED
    BY <2>1, <2>3
<1> QED
  BY <1>5, <1>6 DEF DrawIndex, VramWords

LEMMA SelectedType ==
    ASSUME MemoryType, NEW char \in Chars, NEW pixel
    PROVE  Selected(char, pixel) \in Rgb
<1>1. char.look[1] \in Colors /\ char.look[2] \in Colors
  BY DEF Chars
<1> QED
  BY <1>1, ColorTyped DEF Selected

LEMMA ScanKeepsType ==
    ASSUME MemoryType, ScanType, NEW written, Scan(written)
    PROVE  ScanType'
<1>1. draw' \in Pixels /\ draw_d' \in Pixels /\ shown' \in Pixels /\ half' \in {0, 1}
  BY NextPixelType DEF ScanType, Scan
<1>2. vram_draw_word' \in Words
  <2>1. Garbage \subseteq Words
    BY GarbageAssumption
  <2>2. Visible(draw) => vram[DrawIndex(draw)] \in Words
    BY DrawIndexType DEF ScanType, MemoryType
  <2> QED
    BY <2>1, <2>2 DEF Scan, ScanType
<1>3. rgb' \in Rgb
  <2>1. CharCol(draw_d) \in Nat
    BY CellType DEF ScanType
  <2>2. vram_draw_word \in Chars \X Chars
    BY DEF ScanType, Words
  <2>3. vram_draw_word[HalfOf(CharCol(draw_d))] \in Chars
    BY <2>1, <2>2, PairRead
  <2> QED
    BY <2>3, SelectedType, ColorAssumption DEF Scan
<1> QED
  BY <1>1, <1>2, <1>3 DEF ScanType

----------------------------------------------------------------------------
(* The calls. *)

LEMMA CallTypes ==
    ASSUME NEW c \in Calls \cup {[kind |-> "none"]}
    PROVE  /\ c.kind \in {"none", "clear", "draw", "color", "read"}
           /\ c.kind = "none" => c = [kind |-> "none"]
           /\ c.kind = "draw" =>
                  /\ c.str \in Seq(Codes) /\ c.x \in Nat /\ c.y \in Nat
                  /\ c.foreground \in Colors /\ c.background \in Colors
           /\ c.kind = "color" => c.color \in Colors /\ c.rgb \in Rgb
           /\ c.kind = "read" => c.word \in VramWords
<1>1. CASE c = [kind |-> "none"]
  BY <1>1
<1>2. CASE c \in Calls
  <2>1. \/ c \in [kind : {"clear"}]
        \/ c \in [kind : {"draw"}, str : Seq(Codes), x : Nat, y : Nat,
                  foreground : Colors, background : Colors]
        \/ c \in [kind : {"color"}, color : Colors, rgb : Rgb]
        \/ c \in [kind : {"read"}, word : VramWords]
    BY <1>2, CallsAssumption
  <2> QED
    BY <2>1
<1> QED
  BY <1>1, <1>2

LEMMA AccessesOf ==
    ASSUME NEW c
    PROVE  /\ c.kind = "none" => Accesses(c) = 0
           /\ c.kind = "clear" => Accesses(c) = 2 * (COLUMNS * ROWS)
           /\ c.kind = "draw" => Accesses(c) = 2 * Len(c.str)
           /\ c.kind = "color" => Accesses(c) = 3
           /\ c.kind = "read" => Accesses(c) = 2
BY Zenon DEF Accesses

LEMMA AccessesType ==
    ASSUME NEW c \in Calls \cup {[kind |-> "none"]}
    PROVE  Accesses(c) \in Nat
<1>1. c.kind = "draw" => Len(c.str) \in Nat
  BY CallTypes
<1>2. COLUMNS * ROWS \in Nat
  BY Sizes
<1> QED
  BY <1>1, <1>2, CallTypes, AccessesOf

LEMMA CharFields ==
    ASSUME NEW char \in Chars, NEW value
    PROVE  /\ [char EXCEPT !["look"] = value].look = value
           /\ [char EXCEPT !["look"] = value].code = char.code
           /\ [char EXCEPT !["code"] = value].code = value
           /\ [char EXCEPT !["code"] = value].look = char.look
BY DEF Chars

(* A byte of a character is written: the other places, and its other field, *)
(* stay.                                                                    *)
LEMMA LookWritten ==
    ASSUME MemoryType, NEW place \in Nat, NEW value \in Colors \X Colors,
           WriteChar(place, "look", value)
    PROVE  /\ MemoryType'
           /\ \A p \in Places :
                  /\ CharAt(p)'.code = CharAt(p).code
                  /\ CharAt(p)'.look = IF p = place THEN value ELSE CharAt(p).look
<1>1. \A p \in Places :
          CharAt(p)' = IF p = place THEN [CharAt(p) EXCEPT !["look"] = value]
                       ELSE CharAt(p)
  BY Written
<1>2. MemoryType'
  BY Written
<1>3. \A p \in Places : CharAt(p) \in Chars
  BY CharTyped DEF MemoryType
<1> QED
  BY <1>1, <1>2, <1>3, CharFields

LEMMA CodeWritten ==
    ASSUME MemoryType, NEW place \in Nat, NEW value \in Codes,
           WriteChar(place, "code", value)
    PROVE  /\ MemoryType'
           /\ \A p \in Places :
                  /\ CharAt(p)'.look = CharAt(p).look
                  /\ CharAt(p)'.code = IF p = place THEN value ELSE CharAt(p).code
<1>1. \A p \in Places :
          CharAt(p)' = IF p = place THEN [CharAt(p) EXCEPT !["code"] = value]
                       ELSE CharAt(p)
  BY Written
<1>2. MemoryType'
  BY Written
<1>3. \A p \in Places : CharAt(p) \in Chars
  BY CharTyped DEF MemoryType
<1> QED
  BY <1>1, <1>2, <1>3, CharFields

(* A step of the program starts or ends a call, or is one more access. *)
LEMMA StartType ==
    ASSUME call' \in Calls \cup {[kind |-> "none"]}, pc' = 0
    PROVE  /\ pc' \in 0..Accesses(call')
           /\ (WordFetched /\ ClearedSoFar /\ DrawnSoFar /\ ColorSet)'
<1>1. Accesses(call') \in Nat
  BY AccessesType
<1>2. \A p \in Places : p \in Nat
  BY Sizes DEF Places
<1> QED
  BY <1>1, <1>2 DEF WordFetched, ClearedSoFar, DrawnSoFar, ColorSet

(* An access that leaves memory, palette and what was read alone, or a clock *)
(* without one.                                                              *)
LEMMA IdleInv ==
    ASSUME CallInv, UNCHANGED <<vram, palette, readdata, word, call, pc>>
    PROVE  MemoryType' /\ (WordFetched /\ ClearedSoFar /\ DrawnSoFar /\ ColorSet)'
BY DEF CallInv, MemoryType, WordFetched, ClearedSoFar, DrawnSoFar, ColorSet, CharAt, ColorOf,
    TextPlace, PlaceOf

(* The access of a clear is to a place of the screen. *)
LEMMA ClearPlace ==
    ASSUME ProgramType, call.kind = "clear", pc # Accesses(call)
    PROVE  pc \div 2 \in Places /\ pc \in Nat /\ pc + 1 \in 0..Accesses(call)
<1> DEFINE n == COLUMNS * ROWS
<1>1. n \in Nat
  BY Sizes
<1>2. Accesses(call) = 2 * n
  BY AccessesOf
<1>3. pc \in 0..(2 * n) /\ pc # 2 * n
  BY <1>2 DEF ProgramType
<1> HIDE DEF n
<1>4. pc \div 2 \in 0..(n - 1) /\ pc \in Nat /\ pc + 1 \in 0..(2 * n)
  BY <1>1, <1>3
<1> QED
  BY <1>2, <1>4 DEF n, Places

LEMMA ClearInv ==
    ASSUME CallInv, ClearStep, pc # Accesses(call)
    PROVE  CallInv'
<1>1. /\ pc \div 2 \in Places /\ pc \div 2 \in Nat /\ pc \in Nat
      /\ pc' = pc + 1 /\ call' = call /\ pc' \in 0..Accesses(call)
  BY ClearPlace DEF CallInv, ClearStep, GoOn, Places
<1>2. \A p \in Places : p \in Nat
  BY DEF Places
<1>3. <<0, 0>> \in Colors \X Colors /\ 0 \in Codes
  BY ColorAssumption
<1>4. MemoryType' /\ ClearedSoFar'
  <2>1. CASE pc % 2 = 0
    <3>1. WriteChar(pc \div 2, "look", <<0, 0>>)
      BY <2>1 DEF ClearStep
    <3>2. /\ MemoryType'
          /\ \A p \in Places :
                 /\ CharAt(p)'.code = CharAt(p).code
                 /\ CharAt(p)'.look = IF p = pc \div 2 THEN <<0, 0>> ELSE CharAt(p).look
      BY <1>1, <1>3, <3>1, LookWritten DEF CallInv
    <3>3. \A p \in Places : pc' > 2 * p => p = pc \div 2 \/ pc > 2 * p
      BY <1>1, <1>2, <2>1
    <3>4. \A p \in Places : pc' > 2 * p + 1 => pc > 2 * p + 1
      BY <1>1, <1>2, <2>1
    <3> QED
      BY <1>1, <3>2, <3>3, <3>4 DEF CallInv, ClearedSoFar
  <2>2. CASE pc % 2 # 0
    <3>1. WriteChar(pc \div 2, "code", 0)
      BY <2>2 DEF ClearStep
    <3>2. /\ MemoryType'
          /\ \A p \in Places :
                 /\ CharAt(p)'.look = CharAt(p).look
                 /\ CharAt(p)'.code = IF p = pc \div 2 THEN 0 ELSE CharAt(p).code
      BY <1>1, <1>3, <3>1, CodeWritten DEF CallInv
    <3>3. \A p \in Places : pc' > 2 * p => pc > 2 * p
      BY <1>1, <1>2, <2>2
    <3>4. \A p \in Places : pc' > 2 * p + 1 => p = pc \div 2 \/ pc > 2 * p + 1
      BY <1>1, <1>2, <2>2
    <3> QED
      BY <1>1, <3>2, <3>3, <3>4 DEF CallInv, ClearedSoFar
  <2> QED
    BY <2>1, <2>2
<1>5. ScanType' /\ bus' = bus /\ settled' = 0
  BY ScanKeepsType DEF CallInv, ClearStep, WriteChar
<1>6. WordFetched' /\ DrawnSoFar' /\ ColorSet'
  BY <1>1 DEF ClearStep, WordFetched, DrawnSoFar, ColorSet
<1>7. ProgramType'
  BY <1>1, <1>5 DEF CallInv, ProgramType
<1> QED
  BY <1>4, <1>5, <1>6, <1>7 DEF CallInv

LEMMA DrawPlace ==
    ASSUME ProgramType, call.kind = "draw", pc # Accesses(call)
    PROVE  /\ pc \div 2 \in 0..(Len(call.str) - 1)
           /\ pc \in Nat /\ pc + 1 \in 0..Accesses(call)
           /\ TextPlace(pc \div 2) = PlaceOf(call.x, call.y) + (pc \div 2)
           /\ TextPlace(pc \div 2) \in Nat
           /\ call.str[(pc \div 2) + 1] \in Codes
<1> DEFINE n == Len(call.str)
<1>1. call.str \in Seq(Codes) /\ call.x \in Nat /\ call.y \in Nat /\ n \in Nat
  BY CallTypes DEF ProgramType
<1>2. Accesses(call) = 2 * n
  BY AccessesOf
<1>3. pc \in 0..(2 * n) /\ pc # 2 * n
  BY <1>2 DEF ProgramType
<1>4. pc \div 2 \in 0..(n - 1) /\ pc \in Nat /\ pc + 1 \in 0..(2 * n)
  <2> HIDE DEF n
  <2> QED
    BY <1>1, <1>3
<1>5. PlaceOf(call.x, call.y) \in Nat
  BY <1>1, Sizes DEF PlaceOf
<1> QED
  BY <1>1, <1>2, <1>4, <1>5 DEF TextPlace

LEMMA DrawInv ==
    ASSUME CallInv, DrawStep, pc # Accesses(call)
    PROVE  CallInv'
<1> DEFINE i == pc \div 2
           place == TextPlace(i)
           n == Len(call.str)
<1>1. /\ i \in 0..(n - 1) /\ place \in Nat /\ pc \in Nat /\ call.str[i + 1] \in Codes
      /\ pc' = pc + 1 /\ call' = call /\ pc' \in 0..Accesses(call)
      /\ place = PlaceOf(call.x, call.y) + i
  BY DrawPlace DEF CallInv, DrawStep, GoOn
<1>2. <<call.foreground, call.background>> \in Colors \X Colors
  BY CallTypes DEF CallInv, ProgramType, DrawStep
<1>3. n \in Nat /\ PlaceOf(call.x, call.y) \in Nat
  <2>1. call.str \in Seq(Codes) /\ call.x \in Nat /\ call.y \in Nat
    BY CallTypes DEF CallInv, ProgramType, DrawStep
  <2> QED
    BY <2>1, Sizes DEF PlaceOf
<1>4. \A k \in 0..(n - 1) : TextPlace(k) = place => k = i
  BY <1>1, <1>3 DEF TextPlace
<1>5. \A k : TextPlace(k)' = TextPlace(k)
  BY <1>1 DEF TextPlace, PlaceOf
<1>6. MemoryType' /\ DrawnSoFar'
  <2>1. CASE pc % 2 = 0
    <3>1. WriteChar(place, "look", <<call.foreground, call.background>>)
      BY <1>1, <2>1 DEF DrawStep
    <3>2. /\ MemoryType'
          /\ \A p \in Places :
                 /\ CharAt(p)'.code = CharAt(p).code
                 /\ CharAt(p)'.look = IF p = place THEN <<call.foreground, call.background>>
                                      ELSE CharAt(p).look
      BY <1>1, <1>2, <3>1, LookWritten DEF CallInv
    <3>3. \A k \in 0..(n - 1) : pc' > 2 * k => k = i \/ pc > 2 * k
      BY <1>1, <1>3, <2>1
    <3>4. \A k \in 0..(n - 1) : pc' > 2 * k + 1 => pc > 2 * k + 1
      BY <1>1, <1>3, <2>1
    <3> HIDE DEF i
    <3>5. DrawnSoFar'
      BY <1>1, <1>5, <3>2, <3>3, <3>4 DEF CallInv, DrawnSoFar
    <3> QED
      BY <3>2, <3>5
  <2>2. CASE pc % 2 # 0
    <3>1. WriteChar(place, "code", call.str[i + 1])
      BY <1>1, <2>2 DEF DrawStep
    <3>2. /\ MemoryType'
          /\ \A p \in Places :
                 /\ CharAt(p)'.look = CharAt(p).look
                 /\ CharAt(p)'.code = IF p = place THEN call.str[i + 1] ELSE CharAt(p).code
      BY <1>1, <3>1, CodeWritten DEF CallInv
    <3>3. \A k \in 0..(n - 1) : pc' > 2 * k => pc > 2 * k
      BY <1>1, <1>3, <2>2
    <3>4. \A k \in 0..(n - 1) : pc' > 2 * k + 1 => k = i \/ pc > 2 * k + 1
      BY <1>1, <1>3, <2>2
    <3> HIDE DEF i
    <3>5. DrawnSoFar'
      BY <1>1, <1>4, <1>5, <3>2, <3>3, <3>4 DEF CallInv, DrawnSoFar
    <3> QED
      BY <3>2, <3>5
  <2> QED
    BY <2>1, <2>2
<1>7. ScanType' /\ bus' = bus /\ settled' = 0
  BY ScanKeepsType DEF CallInv, DrawStep, WriteChar
<1>8. WordFetched' /\ ClearedSoFar' /\ ColorSet'
  BY <1>1 DEF DrawStep, WordFetched, ClearedSoFar, ColorSet
<1>9. ProgramType'
  BY <1>1, <1>7 DEF CallInv, ProgramType
<1> QED
  BY <1>6, <1>7, <1>8, <1>9 DEF CallInv

(* A transfer on the bus, as far as the types of the scan-out, of the bus and *)
(* of the history go.                                                         *)
LEMMA TransferType ==
    ASSUME CallInv, NEW w, NEW value,
           ReadFirst(value) \/ ReadSecond(value) \/ WritePalette(w, value)
    PROVE  ScanType' /\ bus' \in BOOLEAN /\ settled' \in 0..2
<1>1. ScanType'
  BY ScanKeepsType DEF CallInv, ReadFirst, ReadSecond, WritePalette
<1>2. settled' \in 0..2
  BY DEF CallInv, ProgramType, ReadFirst, ReadSecond, WritePalette, Rest
<1>3. bus' = TRUE \/ bus' = FALSE \/ bus' = bus
  BY DEF ReadFirst, ReadSecond, WritePalette
<1>4. bus \in BOOLEAN
  BY DEF CallInv, ProgramType
<1>5. bus' \in BOOLEAN
  BY <1>3, <1>4
<1> QED
  BY <1>1, <1>2, <1>5

LEMMA ColorInv ==
    ASSUME CallInv, ColorStep, pc # 3
    PROVE  CallInv'
<1> DEFINE w == WordOf(call.color)
<1>1. call.color \in Colors /\ call.rgb \in Rgb /\ Accesses(call) = 3 /\ call.kind = "color"
  BY CallTypes, AccessesOf DEF CallInv, ProgramType, ColorStep
<1>2. pc \in {0, 1, 2} /\ pc' = pc + 1 /\ call' = call
  BY <1>1 DEF ColorStep, GoOn
<1>3. ScanType' /\ ProgramType'
  <2>1. ScanType' /\ bus' \in BOOLEAN /\ settled' \in 0..2
    BY TransferType DEF ColorStep
  <2> QED
    BY <1>1, <1>2, <2>1 DEF CallInv, ProgramType
<1>4. ClearedSoFar' /\ DrawnSoFar'
  BY <1>1, <1>2 DEF ClearedSoFar, DrawnSoFar
<1>5. MemoryType' /\ WordFetched' /\ ColorSet'
  <2>1. CASE pc = 0
    BY <1>2, <2>1
    DEF ColorStep, ReadFirst, CallInv, MemoryType, WordFetched, ColorSet, WordOf
  <2>2. CASE pc = 1
    BY <1>1, <1>2, <2>2
    DEF ColorStep, ReadSecond, CallInv, MemoryType, WordFetched, ColorSet, WordOf
  <2>3. CASE pc = 2
    <3>1. WritePalette(w, [palette[w] EXCEPT ![HalfOf(call.color)] = call.rgb])
      BY <1>1, <2>3 DEF ColorStep, CallInv, WordFetched
    <3>2. /\ palette' \in [PaletteWords -> Rgb \X Rgb]
          /\ \A c \in Colors :
                 ColorOf(c)' = IF c = call.color THEN call.rgb ELSE ColorOf(c)
      BY <1>1, <3>1, ColorWritten DEF CallInv, WritePalette
    <3>3. MemoryType'
      BY <3>1, <3>2 DEF WritePalette, CallInv, MemoryType
    <3>4. ColorOf(call.color)' = call.rgb
      BY <1>1, <1>2, <3>2 DEF ColorOf
    <3> QED
      BY <1>2, <2>3, <3>3, <3>4 DEF WordFetched, ColorSet
  <2> QED
    BY <1>2, <2>1, <2>2, <2>3
<1> QED
  BY <1>3, <1>4, <1>5 DEF CallInv

LEMMA ReadInv ==
    ASSUME CallInv, ReadStep, pc # 2
    PROVE  CallInv'
<1>1. Accesses(call) = 2 /\ call.kind = "read"
  BY AccessesOf DEF ReadStep
<1>2. pc \in {0, 1} /\ pc' = pc + 1 /\ call' = call
  BY <1>1 DEF ReadStep, GoOn
<1>3. /\ ScanType' /\ bus' \in BOOLEAN /\ settled' \in 0..2
      /\ UNCHANGED <<vram, palette>>
  <2>1. \E value : ReadFirst(value) \/ ReadSecond(value)
    BY DEF ReadStep
  <2> QED
    BY <2>1, TransferType DEF ReadFirst, ReadSecond
<1>4. MemoryType' /\ ProgramType'
  BY <1>1, <1>2, <1>3 DEF CallInv, MemoryType, ProgramType
<1>5. (WordFetched /\ ClearedSoFar /\ DrawnSoFar /\ ColorSet)'
  BY <1>1, <1>2 DEF WordFetched, ClearedSoFar, DrawnSoFar, ColorSet
<1> QED
  BY <1>3, <1>4, <1>5 DEF CallInv

(* A call starts or returns. *)
LEMMA BoundaryInv ==
    ASSUME CallInv, CallNow \/ Return
    PROVE  CallInv'
<1>1. call' \in Calls \cup {[kind |-> "none"]} /\ pc' = 0
  BY DEF CallNow, Return
<1>2. UNCHANGED <<vram, palette, scanVars, bus, settled>>
  BY DEF CallNow, Return
<1>3. pc' \in 0..Accesses(call') /\ (WordFetched /\ ClearedSoFar /\ DrawnSoFar /\ ColorSet)'
  BY <1>1, StartType
<1>4. ScanType' /\ MemoryType'
  BY <1>2 DEF CallInv, ScanType, MemoryType, scanVars
<1>5. ProgramType'
  BY <1>1, <1>2, <1>3 DEF CallInv, ProgramType
<1> QED
  BY <1>3, <1>4, <1>5 DEF CallInv

LEMMA WaitInv ==
    ASSUME CallInv, Wait
    PROVE  CallInv'
<1>1. UNCHANGED <<vram, palette, readdata, word, call, pc, bus>> /\ Scan({}) /\ Rest
  BY DEF Wait, NoTransfer
<1>2. MemoryType' /\ (WordFetched /\ ClearedSoFar /\ DrawnSoFar /\ ColorSet)'
  BY <1>1, IdleInv
<1>3. ScanType' /\ ProgramType'
  BY <1>1, ScanKeepsType DEF CallInv, ProgramType, Rest
<1> QED
  BY <1>2, <1>3 DEF CallInv

LEMMA StutterInv ==
    ASSUME CallInv, UNCHANGED vars
    PROVE  CallInv'
<1>1. MemoryType' /\ (WordFetched /\ ClearedSoFar /\ DrawnSoFar /\ ColorSet)'
  BY IdleInv DEF vars
<1>2. ScanType' /\ ProgramType'
  BY DEF CallInv, vars, scanVars, ScanType, ProgramType
<1> QED
  BY <1>1, <1>2 DEF CallInv

----------------------------------------------------------------------------
LEMMA CallInit == Init => CallInv
<1> SUFFICES ASSUME Init
             PROVE  CallInv
  OBVIOUS
<1>1. Blank \in Chars
  BY ColorAssumption DEF Blank, Char, Chars
<1>2. MemoryType
  BY ResetAssumption DEF Init, MemoryType, Words, PaletteWords
<1>3. ScanType
  BY <1>1, Sizes, ColorAssumption DEF Init, ScanType, Words, Pixels
<1>4. ProgramType
  <2>1. Accesses(call) = 0 /\ call \in Calls \cup {[kind |-> "none"]}
    BY AccessesOf DEF Init
  <2>2. bus \in BOOLEAN
    BY DEF Init
  <2>3. pc = 0 /\ settled = 0
    BY DEF Init
  <2> QED
    BY <2>1, <2>2, <2>3 DEF ProgramType
<1>5. WordFetched /\ ClearedSoFar /\ DrawnSoFar /\ ColorSet
  BY DEF Init, WordFetched, ClearedSoFar, DrawnSoFar, ColorSet
<1> QED
  BY <1>2, <1>3, <1>4, <1>5 DEF CallInv

LEMMA CallNext == CallInv /\ [Next]_vars => CallInv'
<1> SUFFICES ASSUME CallInv, [Next]_vars
             PROVE  CallInv'
  OBVIOUS
<1>1. CASE CallNow
  BY <1>1, BoundaryInv
<1>2. CASE ClearStep
  BY <1>2, BoundaryInv, ClearInv DEF ClearStep
<1>3. CASE DrawStep
  BY <1>3, BoundaryInv, DrawInv DEF DrawStep
<1>4. CASE ColorStep
  BY <1>4, BoundaryInv, ColorInv DEF ColorStep
<1>5. CASE ReadStep
  BY <1>5, BoundaryInv, ReadInv DEF ReadStep
<1>6. CASE Wait
  BY <1>6, WaitInv
<1>7. CASE UNCHANGED vars
  BY <1>7, StutterInv
<1> QED
  BY <1>1, <1>2, <1>3, <1>4, <1>5, <1>6, <1>7 DEF Next

(* The variables keep their types, whatever is called and whatever a word  *)
(* shows while it is written: the scan-out's address is a word of memory   *)
(* wherever the beam is visible (vga_text_avl_interface.sv 161-241), and a *)
(* text that runs over the end writes none (text_mode_vga_color.c 25-33).  *)
THEOREM TypeCorrect == Spec => []TypeOK
<1>1. CallInv => TypeOK
  BY DEF CallInv, MemoryType, ScanType, ProgramType, TypeOK, Pixels
<1>2. Spec => []CallInv
  BY CallInit, CallNext, PTL DEF Spec
<1> QED
  BY <1>1, <1>2, PTL

----------------------------------------------------------------------------
(* The calls of TextDisplay. *)

DisplayCode == [p \in 0..(COLUMNS * ROWS - 1) |-> CharAt(p).code]
DisplayLook == [p \in 0..(COLUMNS * ROWS - 1) |-> CharAt(p).look]
DisplayColors == [c \in Colors |-> ColorOf(c)]

(* What the display shows changes with memory and palette only. *)
LEMMA CharsShown ==
    ASSUME UNCHANGED vram
    PROVE  UNCHANGED <<DisplayCode, DisplayLook>>
BY DEF DisplayCode, DisplayLook, CharAt

LEMMA ColorsShown ==
    ASSUME UNCHANGED palette
    PROVE  UNCHANGED DisplayColors
BY DEF DisplayColors, ColorOf

LEMMA Shown ==
    ASSUME UNCHANGED <<vram, palette, call>>
    PROVE  UNCHANGED Display!vars
<1>1. UNCHANGED <<DisplayCode, DisplayLook, DisplayColors>>
  BY CharsShown, ColorsShown
<1> QED
  BY <1>1 DEF Display!vars, DisplayCode, DisplayLook, DisplayColors

LEMMA DisplayInit == Init => Display!Init
<1> SUFFICES ASSUME Init
             PROVE  Display!Init
  OBVIOUS
<1>1. MemoryType
  BY CallInit DEF CallInv
<1>2. \A p \in Places : CharAt(p).code \in Codes /\ CharAt(p).look \in Colors \X Colors
  BY <1>1, CharTyped DEF MemoryType, Chars
<1>3. \A c \in Colors : ColorOf(c) \in Rgb
  BY <1>1, ColorTyped
<1>4. call = Display!None
  BY DEF Init, Display!None
<1> QED
  BY <1>2, <1>3, <1>4 DEF Display!Init, Display!Places, Places

(* A text's i-th character and the step that writes it. *)
LEMMA TextPlaces ==
    ASSUME ProgramType, call.kind = "draw"
    PROVE  /\ Display!Within(call) = {i \in 1..Len(call.str) : TextPlace(i - 1) \in Places}
           /\ \A i \in 1..Len(call.str) : Display!Place(call, i) = TextPlace(i - 1)
<1>1. call.str \in Seq(Codes) /\ call.x \in Nat /\ call.y \in Nat
  BY CallTypes DEF ProgramType
<1>2. call.y * COLUMNS \in Nat
  BY <1>1, Sizes
<1>3. \A i \in 1..Len(call.str) : Display!Place(call, i) = TextPlace(i - 1)
  BY <1>1, <1>2 DEF Display!Place, TextPlace, PlaceOf
<1> QED
  BY <1>3 DEF Display!Within, Display!Places, Places

(* When a call returns, it has done what TextDisplay promises. *)
LEMMA ReturnDone ==
    ASSUME CallInv, Return, call.kind # "none", pc = Accesses(call)
    PROVE  Display!Return
<1>1. \A p \in Places : p \in Nat /\ p < COLUMNS * ROWS
  BY Sizes DEF Places
<1>2. \A p \in Places : Display!CodeWanted(call, p) \subseteq {CharAt(p).code}
  <2> SUFFICES ASSUME NEW p \in Places, NEW k \in Display!CodeWanted(call, p)
               PROVE  k = CharAt(p).code
    OBVIOUS
  <2>1. CASE call.kind = "clear"
    <3>1. pc > 2 * p + 1
      BY <1>1, <2>1, AccessesOf, Sizes
    <3> QED
      BY <2>1, <3>1 DEF CallInv, ClearedSoFar, Display!CodeWanted
  <2>2. CASE call.kind = "draw"
    <3>1. PICK i \in 1..Len(call.str) : TextPlace(i - 1) = p /\ k = call.str[i]
      BY <2>2, TextPlaces DEF CallInv, Display!CodeWanted
    <3>2. /\ i - 1 \in 0..(Len(call.str) - 1) /\ (i - 1) + 1 = i
          /\ pc > 2 * (i - 1) + 1
      <4>1. Len(call.str) \in Nat /\ pc = 2 * Len(call.str)
        BY <2>2, AccessesOf, CallTypes DEF CallInv, ProgramType
      <4> QED
        BY <4>1
    <3> QED
      BY <2>2, <3>1, <3>2 DEF CallInv, DrawnSoFar
  <2>3. CASE call.kind \notin {"clear", "draw"}
    BY <2>3 DEF Display!CodeWanted
  <2> QED
    BY <2>1, <2>2, <2>3
<1>3. \A p \in Places : Display!LookWanted(call, p) \subseteq {CharAt(p).look}
  <2> SUFFICES ASSUME NEW p \in Places, NEW k \in Display!LookWanted(call, p)
               PROVE  k = CharAt(p).look
    OBVIOUS
  <2>1. CASE call.kind = "clear"
    <3>1. pc > 2 * p
      BY <1>1, <2>1, AccessesOf, Sizes
    <3> QED
      BY <2>1, <3>1 DEF CallInv, ClearedSoFar, Display!LookWanted, Display!Look
  <2>2. CASE call.kind = "draw"
    <3>1. PICK i \in 1..Len(call.str) :
              TextPlace(i - 1) = p /\ k = <<call.foreground, call.background>>
      BY <2>2, TextPlaces DEF CallInv, Display!LookWanted, Display!Look
    <3>2. i - 1 \in 0..(Len(call.str) - 1) /\ pc > 2 * (i - 1)
      <4>1. Len(call.str) \in Nat /\ pc = 2 * Len(call.str)
        BY <2>2, AccessesOf, CallTypes DEF CallInv, ProgramType
      <4> QED
        BY <4>1
    <3> QED
      BY <2>2, <3>1, <3>2 DEF CallInv, DrawnSoFar
  <2>3. CASE call.kind \notin {"clear", "draw"}
    BY <2>3 DEF Display!LookWanted
  <2> QED
    BY <2>1, <2>2, <2>3
<1>4. call.kind = "color" => call.color \in Colors /\ ColorOf(call.color) = call.rgb
  BY AccessesOf, CallTypes DEF CallInv, ProgramType, ColorSet
<1>5. Display!Done
  BY <1>2, <1>3, <1>4 DEF Display!Done, Display!Places, Places
<1>6. call # Display!None /\ call' = Display!None
  BY DEF Display!None, Return
<1>7. UNCHANGED <<DisplayCode, DisplayLook, DisplayColors>>
  BY CharsShown, ColorsShown DEF Return
<1> QED
  BY <1>5, <1>6, <1>7 DEF Display!Return, DisplayCode, DisplayLook, DisplayColors

(* A byte of a character that the call is to write. *)
LEMMA LookShown ==
    ASSUME MemoryType, NEW place \in Places, NEW value \in Colors \X Colors,
           WriteChar(place, "look", value), UNCHANGED call,
           value \in Display!LookWanted(call, place)
    PROVE  Display!PutLook
<1>1. \A p \in Places :
          /\ CharAt(p)'.code = CharAt(p).code
          /\ CharAt(p)'.look = IF p = place THEN value ELSE CharAt(p).look
  BY LookWritten DEF Places
<1>2. DisplayCode' = DisplayCode
  BY <1>1 DEF DisplayCode, Places
<1>3. DisplayLook' = [DisplayLook EXCEPT ![place] = value]
  BY <1>1 DEF DisplayLook, Places
<1>4. DisplayColors' = DisplayColors
  BY ColorsShown, PaletteHit, ScreenFirst
<1>5. place \in Display!Places
  BY DEF Display!Places, Places
<1> QED
  BY <1>2, <1>3, <1>4, <1>5 DEF Display!PutLook, DisplayCode, DisplayLook, DisplayColors

LEMMA CodeShown ==
    ASSUME MemoryType, NEW place \in Places, NEW value \in Codes,
           WriteChar(place, "code", value), UNCHANGED call,
           value \in Display!CodeWanted(call, place)
    PROVE  Display!PutCode
<1>1. \A p \in Places :
          /\ CharAt(p)'.look = CharAt(p).look
          /\ CharAt(p)'.code = IF p = place THEN value ELSE CharAt(p).code
  BY CodeWritten DEF Places
<1>2. DisplayLook' = DisplayLook
  BY <1>1 DEF DisplayLook, Places
<1>3. DisplayCode' = [DisplayCode EXCEPT ![place] = value]
  BY <1>1 DEF DisplayCode, Places
<1>4. DisplayColors' = DisplayColors
  BY ColorsShown, PaletteHit, ScreenFirst
<1>5. place \in Display!Places
  BY DEF Display!Places, Places
<1> QED
  BY <1>2, <1>3, <1>4, <1>5 DEF Display!PutCode, DisplayCode, DisplayLook, DisplayColors

LEMMA ClearShown ==
    ASSUME CallInv, ClearStep, pc # Accesses(call)
    PROVE  Display!Next
<1>1. pc \div 2 \in Places /\ call' = call /\ MemoryType
  BY ClearPlace DEF CallInv, ClearStep, GoOn
<1>2. CASE pc % 2 = 0
  <2>1. WriteChar(pc \div 2, "look", <<0, 0>>)
    BY <1>2 DEF ClearStep
  <2>2. <<0, 0>> \in Colors \X Colors
    BY ColorAssumption
  <2>3. <<0, 0>> \in Display!LookWanted(call, pc \div 2)
    BY DEF ClearStep, Display!LookWanted, Display!Look
  <2> QED
    BY <1>1, <2>1, <2>2, <2>3, LookShown DEF Display!Next
<1>3. CASE pc % 2 # 0
  <2>1. WriteChar(pc \div 2, "code", 0)
    BY <1>3 DEF ClearStep
  <2>2. 0 \in Display!CodeWanted(call, pc \div 2)
    BY DEF ClearStep, Display!CodeWanted
  <2> QED
    BY <1>1, <2>1, <2>2, CodeShown, ColorAssumption DEF Display!Next
<1> QED
  BY <1>2, <1>3

(* A byte of a character that falls on the palette. *)
LEMMA SpoilShown ==
    ASSUME MemoryType, NEW place \in Nat, NEW field, NEW value,
           WriteChar(place, field, value), UNCHANGED <<vram, call>>,
           place >= PALETTE_PLACE, call.kind = "draw",
           \E i \in 1..Len(call.str) : Display!Place(call, i) = place
    PROVE  Display!SpoilColors
<1>1. \A c \in Colors : WordOf(c) \in PaletteWords /\ c \in Nat
  BY ColorTyped
<1>2. /\ palette' \in [PaletteWords -> Rgb \X Rgb]
      /\ \A w \in PaletteWords :
             palette'[w] # palette[w] => w = WordOf(place - PALETTE_PLACE)
  BY PaletteHit
<1>3. DisplayColors' \in [Colors -> Rgb]
  <2>1. \A c \in Colors : palette'[WordOf(c)] \in Rgb \X Rgb
    BY <1>1, <1>2
  <2>2. \A c \in Colors : palette'[WordOf(c)][HalfOf(c)] \in Rgb
    BY <1>1, <2>1, PairRead
  <2> QED
    BY <2>2 DEF DisplayColors, ColorOf
<1>4. \A c \in Colors :
          DisplayColors'[c] # DisplayColors[c] =>
              c \div 2 = (place - PALETTE_PLACE) \div 2
  BY <1>1, <1>2 DEF DisplayColors, ColorOf, WordOf
<1>5. UNCHANGED <<DisplayCode, DisplayLook>>
  BY CharsShown
<1> QED
  BY <1>3, <1>4, <1>5 DEF Display!SpoilColors, DisplayCode, DisplayLook, DisplayColors

LEMMA DrawShown ==
    ASSUME CallInv, DrawStep, pc # Accesses(call)
    PROVE  Display!Next \/ UNCHANGED Display!vars
<1> DEFINE i == (pc \div 2) + 1
           place == TextPlace(pc \div 2)
<1>1. /\ i \in 1..Len(call.str) /\ i - 1 = pc \div 2 /\ place \in Nat
      /\ call.str[i] \in Codes
      /\ place = PlaceOf(call.x, call.y) + (pc \div 2)
  <2>1. Len(call.str) \in Nat
    BY CallTypes DEF CallInv, ProgramType, DrawStep
  <2>2. pc \in Nat
    BY DrawPlace DEF CallInv, DrawStep
  <2>3. pc \div 2 \in 0..(Len(call.str) - 1)
    BY DrawPlace DEF CallInv, DrawStep
  <2>4. i \in 1..Len(call.str) /\ i - 1 = pc \div 2
    BY <2>1, <2>2, <2>3
  <2> QED
    BY <2>4, DrawPlace DEF CallInv, DrawStep
<1>2. call' = call /\ MemoryType /\ call.kind = "draw"
  BY DEF CallInv, DrawStep, GoOn
<1>3. CASE place \notin Places
  <2>1. PICK field, value : WriteChar(place, field, value)
    BY <1>1 DEF DrawStep
  <2>2. vram' = vram
    BY <1>1, <1>3, <2>1, PlaceWords DEF WriteChar
  <2>3. CASE place < PALETTE_PLACE
    BY <1>1, <1>2, <2>1, <2>2, <2>3, PaletteHit, Shown
  <2>4. CASE ~(place < PALETTE_PLACE)
    <3>1. place \in Nat /\ place >= PALETTE_PLACE
      BY <1>1, <2>4, AddressAssumption
    <3>2. Display!Place(call, i) = place
      BY <1>1, <1>2, TextPlaces DEF CallInv
    <3> HIDE DEF place, i
    <3>3. Display!SpoilColors
      BY <1>1, <1>2, <2>1, <2>2, <3>1, <3>2, SpoilShown
    <3> QED
      BY <3>3 DEF Display!Next
  <2> QED
    BY <2>3, <2>4
<1>4. CASE place \in Places
  <2>1. i \in {j \in Display!Within(call) : Display!Place(call, j) = place}
    BY <1>1, <1>2, <1>4, TextPlaces DEF CallInv
  <2>2. CASE pc % 2 = 0
    <3> DEFINE value == <<call.foreground, call.background>>
    <3>1. WriteChar(place, "look", value)
      BY <1>1, <2>2 DEF DrawStep
    <3>2. value \in Colors \X Colors
      BY <1>2, CallTypes DEF CallInv, ProgramType
    <3>3. value \in Display!LookWanted(call, place)
      BY <1>2, <2>1 DEF Display!LookWanted, Display!Look
    <3> QED
      BY <1>2, <1>4, <3>1, <3>2, <3>3, LookShown DEF Display!Next
  <2>3. CASE pc % 2 # 0
    <3>1. WriteChar(place, "code", call.str[i])
      BY <1>1, <2>3 DEF DrawStep
    <3>2. call.str[i] \in Display!CodeWanted(call, place)
      BY <1>2, <2>1 DEF Display!CodeWanted
    <3> QED
      BY <1>1, <1>2, <1>4, <3>1, <3>2, CodeShown DEF Display!Next
  <2> QED
    BY <2>2, <2>3
<1> QED
  BY <1>3, <1>4

LEMMA ColorShown ==
    ASSUME CallInv, ColorStep, pc # 3
    PROVE  Display!Next \/ UNCHANGED Display!vars
<1>1. call.color \in Colors /\ call.rgb \in Rgb /\ call.kind = "color" /\ call' = call
  BY CallTypes DEF CallInv, ProgramType, ColorStep, GoOn
<1>2. CASE pc \in {0, 1}
  BY <1>1, <1>2, Shown DEF ColorStep, ReadFirst, ReadSecond
<1>3. CASE pc = 2
  <2> DEFINE w == WordOf(call.color)
  <2>1. WritePalette(w, [palette[w] EXCEPT ![HalfOf(call.color)] = call.rgb])
    BY <1>1, <1>3 DEF ColorStep, CallInv, WordFetched
  <2>2. \A c \in Colors :
            ColorOf(c)' = IF c = call.color THEN call.rgb ELSE ColorOf(c)
    BY <1>1, <2>1, ColorWritten DEF CallInv, WritePalette
  <2>3. DisplayColors' = [DisplayColors EXCEPT ![call.color] = call.rgb]
    BY <1>1, <2>2 DEF DisplayColors
  <2>4. UNCHANGED <<DisplayCode, DisplayLook>>
    BY <2>1, CharsShown DEF WritePalette
  <2>5. Display!SetColor
    BY <1>1, <2>3, <2>4 DEF Display!SetColor, DisplayCode, DisplayLook, DisplayColors
  <2> QED
    BY <2>5 DEF Display!Next
<1> QED
  BY <1>2, <1>3 DEF ColorStep

LEMMA DisplayNext == CallInv /\ [Next]_vars => [Display!Next]_(Display!vars)
<1> SUFFICES ASSUME CallInv, [Next]_vars
             PROVE  Display!Next \/ UNCHANGED Display!vars
  OBVIOUS
<1>1. CASE CallNow
  <2>1. call = Display!None
    BY <1>1, CallTypes DEF CallNow, CallInv, ProgramType, Display!None
  <2>2. UNCHANGED <<DisplayCode, DisplayLook, DisplayColors>>
    BY <1>1, CharsShown, ColorsShown DEF CallNow
  <2>3. Display!Start
    BY <1>1, <2>1, <2>2
    DEF CallNow, Display!Start, DisplayCode, DisplayLook, DisplayColors
  <2> QED
    BY <2>3 DEF Display!Next
<1>2. CASE ClearStep
  BY <1>2, ClearShown, ReturnDone DEF ClearStep, Display!Next
<1>3. CASE DrawStep
  BY <1>3, DrawShown, ReturnDone DEF DrawStep, Display!Next
<1>4. CASE ColorStep
  <2>1. pc = 3 => Return /\ pc = Accesses(call) /\ call.kind # "none"
    BY <1>4, AccessesOf DEF ColorStep
  <2> QED
    BY <1>4, <2>1, ColorShown, ReturnDone DEF Display!Next
<1>5. CASE ReadStep
  <2>1. pc = 2 => Return /\ pc = Accesses(call) /\ call.kind # "none"
    BY <1>5, AccessesOf DEF ReadStep
  <2>2. pc # 2 => UNCHANGED <<vram, palette, call>>
    BY <1>5 DEF ReadStep, GoOn, ReadFirst, ReadSecond
  <2> QED
    BY <2>1, <2>2, Shown, ReturnDone DEF Display!Next
<1>6. CASE Wait \/ UNCHANGED vars
  BY <1>6, Shown DEF Wait, NoTransfer, vars
<1> QED
  BY <1>1, <1>2, <1>3, <1>4, <1>5, <1>6 DEF Next

(* The calls implement those of TextDisplay, for every screen size, palette *)
(* and text within the component's addresses: a call changes the characters *)
(* or the colour it names and no others, and all of them when it returns,   *)
(* although a colour shares its word with another one, but for a text that  *)
(* goes on as far as the palette, each of whose characters there changes at *)
(* most the two colours of a word (text_mode_vga_color.c 18-50).            *)
THEOREM CallsCorrect == Spec => CallsImplemented
<1>1. Spec => []CallInv
  BY CallInit, CallNext, PTL DEF Spec
<1> QED
  BY <1>1, DisplayInit, DisplayNext, PTL DEF Spec, CallsImplemented, Display!Spec
=============================================================================
