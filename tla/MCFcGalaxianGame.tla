------------------------- MODULE MCFcGalaxianGame -------------------------
(***************************************************************************)
(* Instances of FcGalaxianGame for TLC.  The grids are in the .cfg files.   *)
(***************************************************************************)
EXTENDS FcGalaxianGame

SW(p, e, f, b) ==
  [player_bullets |-> p, enemy_bullets |-> e, formation |-> f, boost |-> b]

AllKeys == KeyCodes
FireKeys == {"none", "fire"}
IdleKeys == {"none", "enter"}

TwoShots == {SW(1, 0, 0, 0)}
MovingSwitches == {SW(0, 1, 0, 0), SW(0, 1, 1, 1), SW(0, 0, 2, 0), SW(0, 1, 3, 1)}
HardSwitches == {SW(3, 3, 1, 3)}
=============================================================================
