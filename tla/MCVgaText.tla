----------------------------- MODULE MCVgaText -----------------------------
(* Small instances of VgaText for TLC. *)
EXTENDS VgaText

(* The glyph of 0 is empty, that of 1 has its left column set. *)
LeftColumn(code, row, column) == code = 1 /\ column = 0

TwoColors == {0, 1}
BlackAndOne == [w \in {0} |-> <<0, 1>>]

(* A character that is on no screen of these programs. *)
OddWord == {<<Char(1, 1, 1), Char(1, 1, 1)>>}

Draw(str, x, y, background, foreground) ==
    [kind |-> "draw", str |-> str, x |-> x, y |-> y,
     background |-> background, foreground |-> foreground]

(* A text over the end of a line, one over the end of the screen, and one *)
(* that falls on the palette.                                             *)
ProgramCalls ==
    {[kind |-> "clear"], [kind |-> "read", word |-> 1],
     Draw(<<1, 1>>, 1, 0, 0, 1), Draw(<<1, 0>>, 1, 1, 0, 1), Draw(<<1>>, 0, 3, 0, 1)}
        \cup {[kind |-> "color", color |-> c, rgb |-> v] : c \in Colors, v \in Rgb}

ReadCalls ==
    {Draw(<<1>>, 0, 0, 0, 1)} \cup {[kind |-> "read", word |-> w] : w \in VramWords}
=============================================================================
