---------------------------- MODULE TextDisplay ----------------------------
(***************************************************************************)
(* What the text-mode display promises to a program that calls             *)
(* textVGAColorClr, textVGADrawColorText and setColorPalette: a call       *)
(* changes the characters or the colour it names and nothing else, and all *)
(* of them when it returns. A character's code and its colours change one  *)
(* after the other. Only a text that goes on as far as the palette changes *)
(* colours it does not name.                                               *)
(***************************************************************************)
EXTENDS Integers, Sequences

CONSTANTS
    COLUMNS, ROWS,   \* characters of a line, lines
    PALETTE_PLACE,   \* from here on a text is written to the palette
    Codes, Colors, Rgb,
    Calls            \* the calls a program may make

VARIABLES
    code, look,  \* of each place: its character, and its colours
    colors,      \* the palette
    call         \* the call in progress

vars == <<code, look, colors, call>>

Places == 0..(COLUMNS * ROWS - 1)
Look(foreground, background) == <<foreground, background>>
None == [kind |-> "none"]

Init ==
    /\ code \in [Places -> Codes]
    /\ look \in [Places -> Colors \X Colors]
    /\ colors \in [Colors -> Rgb]
    /\ call = None

(* The places of a text, which goes on in the next line and is cut off at *)
(* the end of the last one.                                               *)
Place(c, i) == (c.y * COLUMNS) + c.x + i - 1
Within(c) == {i \in 1..Len(c.str) : Place(c, i) \in Places}

CodeWanted(c, p) ==
    IF c.kind = "clear" THEN {0}
    ELSE IF c.kind = "draw" THEN {c.str[i] : i \in {j \in Within(c) : Place(c, j) = p}}
    ELSE {}
LookWanted(c, p) ==
    IF c.kind = "clear" THEN {Look(0, 0)}
    ELSE IF c.kind = "draw"
    THEN {Look(c.foreground, c.background) : i \in {j \in Within(c) : Place(c, j) = p}}
    ELSE {}

Start ==
    /\ call = None
    /\ call' \in Calls
    /\ UNCHANGED <<code, look, colors>>

PutCode ==
    /\ \E p \in Places : \E k \in CodeWanted(call, p) : code' = [code EXCEPT ![p] = k]
    /\ UNCHANGED <<look, colors, call>>

PutLook ==
    /\ \E p \in Places : \E k \in LookWanted(call, p) : look' = [look EXCEPT ![p] = k]
    /\ UNCHANGED <<code, colors, call>>

SetColor ==
    /\ call.kind = "color"
    /\ colors' = [colors EXCEPT ![call.color] = call.rgb]
    /\ UNCHANGED <<code, look, call>>

(* A character beyond the screen that falls on the two colours of a word. *)
SpoilColors ==
    /\ call.kind = "draw"
    /\ \E i \in 1..Len(call.str) :
           /\ Place(call, i) >= PALETTE_PLACE
           /\ colors' \in [Colors -> Rgb]
           /\ \A c \in Colors :
                  colors'[c] # colors[c] => c \div 2 = (Place(call, i) - PALETTE_PLACE) \div 2
    /\ UNCHANGED <<code, look, call>>

Done ==
    /\ \A p \in Places : CodeWanted(call, p) \subseteq {code[p]}
    /\ \A p \in Places : LookWanted(call, p) \subseteq {look[p]}
    /\ call.kind = "color" => colors[call.color] = call.rgb

Return ==
    /\ call # None
    /\ Done
    /\ call' = None
    /\ UNCHANGED <<code, look, colors>>

Next == Start \/ PutCode \/ PutLook \/ SetColor \/ SpoilColors \/ Return

Spec == Init /\ [][Next]_vars
=============================================================================
