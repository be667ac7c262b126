--------------------------- MODULE VgaController ---------------------------
(***************************************************************************)
(* src/VGA_controller.sv, and the detector in src/fc_galaxian_game.sv      *)
(* (lines 130-142) that turns the beam's return into the game's frame_tick. *)
(*                                                                         *)
(* One step is one edge of the 50 MHz clock, with the reset key up          *)
(* (ClkEdge) or down (ResetEdge); the key is held for at least one edge.    *)
(* The counters run on clkdiv, which that clock derives: they change on     *)
(* every other edge, just after it, so the detector reads the old ones.     *)
(***************************************************************************)
EXTENDS Integers

CONSTANTS
  hpixels, vlines,              \* 799, 524: the last column and the last line
  DISPLAY_W, DISPLAY_H,         \* 640, 480
  HSYNC_FIRST, HSYNC_END,       \* 656, 752
  VSYNC_FIRST, VSYNC_LAST       \* 490, 491

ASSUME TimingAssumption ==
  /\ {hpixels, vlines, DISPLAY_W, DISPLAY_H, HSYNC_FIRST, HSYNC_END,
      VSYNC_FIRST, VSYNC_LAST} \subseteq Nat
  /\ 1 <= hpixels /\ 1 <= vlines
  /\ DISPLAY_W <= HSYNC_FIRST /\ HSYNC_END <= hpixels + 1
  /\ DISPLAY_H < VSYNC_FIRST /\ VSYNC_LAST = VSYNC_FIRST + 1 /\ VSYNC_LAST < vlines

VARIABLES
  clkdiv,                       \* pixel_clk
  hc, vc,                       \* DrawX, DrawY
  hs, vs,                       \* the sync outputs, low while pulsed
  draw_x_d, draw_y_d,           \* the beam one clock ago
  frame_tick,
  drawn                         \* history: pixels begun since the last tick,
                                \* counted up to one more than a picture has

vars == <<clkdiv, hc, vc, hs, vs, draw_x_d, draw_y_d, frame_tick, drawn>>

-----------------------------------------------------------------------------
PixelEdge == ~clkdiv            \* this clock edge raises clkdiv
AtOrigin == hc = 0 /\ vc = 0
display == hc < DISPLAY_W /\ vc < DISPLAY_H
PicturePixels == (hpixels + 1) * (vlines + 1)

\* Mutant: one column too many.
LineEnds_Late == hc > hpixels
LineEnds == hc = hpixels

Count ==
  /\ hc' = IF LineEnds THEN 0 ELSE hc + 1
  /\ vc' = IF ~LineEnds THEN vc ELSE IF vc = vlines THEN 0 ELSE vc + 1

\* Mutant: the vertical pulse has no end.
Sync_NoEnd ==
  /\ hs' = ~(hc + 1 >= HSYNC_FIRST /\ hc + 1 < HSYNC_END)
  /\ vs' = ~(vc + 1 >= VSYNC_FIRST)

\* Both pulses are registered, and both look one count ahead.
Sync ==
  /\ hs' = ~(hc + 1 >= HSYNC_FIRST /\ hc + 1 < HSYNC_END)
  /\ vs' = ~(vc + 1 = VSYNC_FIRST \/ vc + 1 = VSYNC_LAST)

\* Mutants: a tick on every clock at the origin; a tick at the picture's end.
FrameStarts_Level == AtOrigin
FrameStarts_AtEnd == hc = hpixels + 1 /\ vc = vlines /\ (draw_x_d # 0 \/ draw_y_d # 0)

FrameStarts == AtOrigin /\ (draw_x_d # 0 \/ draw_y_d # 0)

\* The registers that frame_tick enables change at the edge that ends it.
Begun == IF frame_tick THEN 0 ELSE drawn

ClkEdge ==
  /\ clkdiv' = ~clkdiv
  /\ IF PixelEdge THEN Count /\ Sync ELSE UNCHANGED <<hc, vc, hs, vs>>
  /\ draw_x_d' = hc
  /\ draw_y_d' = vc
  /\ frame_tick' = FrameStarts
  /\ drawn' = IF PixelEdge /\ Begun <= PicturePixels THEN Begun + 1 ELSE Begun

Cleared(c, x, y, h, v, xd, yd, t) ==
  /\ c = FALSE /\ x = 0 /\ y = 0 /\ h = FALSE /\ v = FALSE
  /\ xd = 0 /\ yd = 0 /\ t = FALSE

ResetEdge ==
  /\ Cleared(clkdiv', hc', vc', hs', vs', draw_x_d', draw_y_d', frame_tick')
  /\ drawn' = 0

\* Registers power up at 0, as after a reset.
Init == Cleared(clkdiv, hc, vc, hs, vs, draw_x_d, draw_y_d, frame_tick) /\ drawn = 0

Next == ClkEdge \/ ResetEdge
Spec == Init /\ [][Next]_vars

\* The 50 MHz oscillator does not stop.
FairSpec == Spec /\ WF_vars(ClkEdge)

-----------------------------------------------------------------------------
(***************************************************************************)
(* Properties                                                               *)
(***************************************************************************)
\* The beam stays in the picture's frame, and the counters in their 10 bits.
TypeOK ==
  /\ clkdiv \in BOOLEAN
  /\ hc \in 0..hpixels /\ vc \in 0..vlines
  /\ hs \in BOOLEAN /\ vs \in BOOLEAN
  /\ draw_x_d \in 0..hpixels /\ draw_y_d \in 0..vlines
  /\ frame_tick \in BOOLEAN
  /\ drawn \in 0..(PicturePixels + 1)

\* The game moves exactly once per picture: when its registers change
\* (frame_tick high, fc_galaxian_game.sv:392) every pixel of one picture has
\* been begun since they last did or since the reset, and no picture is begun
\* twice without them changing; the tick is found by comparing the beam with
\* itself one clock earlier, while the beam moves on every second clock.
OneTickPerPicture ==
  /\ drawn <= PicturePixels
  /\ frame_tick => drawn = PicturePixels

\* The game's registers change only while the beam is on the first pixel, so
\* all the others of a picture are drawn from one state of the game.
TickAtOrigin == [][frame_tick => AtOrigin /\ PixelEdge]_vars

\* A sync pulse never falls on a visible pixel, although the pulses are
\* registered (lines 87-109) and the display flag is not (lines 113-119).
SyncInBlanking == [][ClkEdge /\ PixelEdge /\ display' => hs' /\ vs']_vars

\* Unless the reset key is pressed for ever again, frames never stop: this is
\* the fairness FcGalaxianGame assumes of its Tick.
FramesKeepComing == <>[][ClkEdge]_vars => []<>frame_tick

\* Line 98: "vertical sync pulse is 2 lines(800 pixels) long at line 490-491".
\* The first pixel of a line is left out: the registered pulse may lag by one.
VSyncAtItsLines ==
  [][ClkEdge /\ PixelEdge /\ hc' # 0 => (~vs' <=> vc' \in {VSYNC_FIRST, VSYNC_LAST})]_vars
=============================================================================
