--------------------------- MODULE GalaxianRules ---------------------------
(***************************************************************************)
(* The rules a player of the game is promised, without geometry, shots or   *)
(* timers: lives, waves, the enemies left and the score.  FcGalaxianGame    *)
(* implements it (RulesImplemented there).                                   *)
(***************************************************************************)
EXTENDS Integers, FiniteSets

CONSTANTS Fleet,        \* the enemies of a full wave
          Lives,        \* the lives a game starts with
          LastWave,     \* the wave number stops here; waves go on
          TopScore      \* the largest count of kills the display shows

VARIABLES phase, lives, wave, fleet, points
vars == <<phase, lives, wave, fleet, points>>

NewGame == lives' = Lives /\ wave' = 1 /\ fleet' = Fleet /\ points' = 0

\* Nothing is shown of a game before it starts.
Title == phase' = "title" /\ NewGame
Start == phase \in {"title", "over"} /\ phase' = "play" /\ NewGame

\* At most one enemy dies at a time, for one point; the last one of a wave
\* brings the next wave.  Past the display's range nothing is promised.
Shoot ==
  \/ UNCHANGED <<wave, fleet, points>>
  \/ \E e \in fleet :
       /\ points' \in IF points < TopScore THEN {points + 1} ELSE 0..TopScore
       /\ IF fleet = {e}
          THEN fleet' = Fleet /\ wave' = IF wave = LastWave THEN wave ELSE wave + 1
          ELSE fleet' = fleet \ {e} /\ wave' = wave

\* At most one life goes at a time; a landed formation takes them all.
Survive == phase' = "play" /\ lives' = lives
LoseLife == phase' = "hit" /\ lives > 1 /\ lives' = lives - 1
Die == phase' = "over" /\ lives' = 0

Play == phase = "play" /\ Shoot /\ (Survive \/ LoseLife \/ Die)
Respawn == phase = "hit" /\ phase' = "play" /\ UNCHANGED <<lives, wave, fleet, points>>

Init == phase = "title" /\ lives = 0 /\ wave = 0 /\ fleet = {} /\ points = 0
Next == Title \/ Start \/ Play \/ Respawn
Spec == Init /\ [][Next]_vars
=============================================================================
