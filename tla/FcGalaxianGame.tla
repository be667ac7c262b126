--------------------------- MODULE FcGalaxianGame ---------------------------
(***************************************************************************)
(* The game core of src/fc_galaxian_game.sv: the registers written by the   *)
(* always_ff block (lines 368-593) and the combinational logic that feeds   *)
(* it (lines 105-116, 157-171, 221-291, 305-366).                           *)
(*                                                                         *)
(* One step is one clock edge at which the registers may change: a reset    *)
(* (reset_n low) or an edge with frame_tick high, one per video frame.  All *)
(* assignments are non-blocking, so every right-hand side reads the old     *)
(* registers, and of several assignments to one register the last wins.     *)
(* The keycode and the slide switches are inputs sampled at the tick; they  *)
(* are not registered, so any tick may see any of them.                     *)
(*                                                                         *)
(* Localparams keep their names.  The code's numeric literals are constants *)
(* too (the literal is in the comment), so that TLC can use a coarse grid    *)
(* and the proofs cover every grid that satisfies the assumptions.          *)
(***************************************************************************)
EXTENDS Integers, FiniteSets, FiniteSetsExt

CONSTANTS
  SCREEN_W, SCREEN_H,                    \* 640, 480
  PLAYER_W, PLAYER_H,                    \* 32, 18
  PLAYER_START_X, PLAYER_START_Y,        \* 304 (literal), 432
  PLAYER_MIN_Y, PLAYER_MAX_Y,            \* 344, 452
  PLAYER_STEP,                           \* 5
  PLAYER_MAX_BULLETS,                    \* 4
  PLAYER_BULLET_W, PLAYER_BULLET_H,      \* 4, 12
  PLAYER_BULLET_RISE,                    \* 8, pixels a shot climbs per tick
  PLAYER_BULLET_TOP,                     \* 30, a shot at or above it is dropped
  ENEMY_MAX_BULLETS,                     \* 4
  ENEMY_BULLET_W, ENEMY_BULLET_H,        \* 6, 12
  ENEMY_BULLET_SPEED,                    \* 4, at level 0
  ENEMY_ROWS, ENEMY_COLS,                \* 4, 8
  ENEMY_W, ENEMY_H,                      \* 24, 16
  ENEMY_X_STEP, ENEMY_Y_STEP,            \* 56, 34
  ENEMY_MOVE_X, ENEMY_MOVE_Y,            \* 4, 16
  ENEMY_START_X, ENEMY_START_Y,          \* 70, 84
  WAVE_START_Y,                          \* 72, at level 0
  LEFT_EDGE, RIGHT_EDGE,                 \* 20, 620
  MOVE_PERIOD,                           \* 20, at level 0
  FIRE_PERIOD, FIRE_SPEEDUP,             \* 96 at level 0, less 6 per level
  FIRE_COOLDOWN, RESPAWN_TICKS,          \* 10, 45
  START_LIVES, MAX_WAVE, MAX_LEVEL,      \* 3, 15, 10
  SCORE_RADIX,                           \* 10
  Keys,                                  \* the keycodes the keyboard may present
  Switches                               \* the settings of SW[17:8] a tick may see

\* What the decoders of lines 105-111 tell apart; every other code is "none".
KeyCodes == {"none", "left", "right", "up", "down", "fire", "enter", "restart"}

\* The switch fields of lines 112-113, 228, 245 and 305, as numbers.
SwitchSettings == [player_bullets : 0..3, enemy_bullets : 0..3,
                   formation : 0..3, boost : 0..3]

ASSUME SizeAssumption ==
  /\ {SCREEN_W, SCREEN_H, PLAYER_W, PLAYER_H, PLAYER_START_X, PLAYER_START_Y,
      PLAYER_MIN_Y, PLAYER_MAX_Y, PLAYER_BULLET_W, PLAYER_BULLET_TOP,
      ENEMY_BULLET_W, ENEMY_BULLET_SPEED, ENEMY_W, ENEMY_X_STEP, ENEMY_Y_STEP,
      ENEMY_START_X, ENEMY_START_Y, WAVE_START_Y, LEFT_EDGE, RIGHT_EDGE,
      MOVE_PERIOD, FIRE_PERIOD, FIRE_SPEEDUP, FIRE_COOLDOWN, RESPAWN_TICKS,
      MAX_LEVEL} \subseteq Nat
  /\ {PLAYER_STEP, PLAYER_MAX_BULLETS, PLAYER_BULLET_H, PLAYER_BULLET_RISE,
      ENEMY_MAX_BULLETS, ENEMY_BULLET_H, ENEMY_ROWS, ENEMY_COLS, ENEMY_H,
      ENEMY_MOVE_X, ENEMY_MOVE_Y, START_LIVES, MAX_WAVE,
      SCORE_RADIX} \subseteq Nat \ {0}
  /\ Keys \subseteq KeyCodes
  /\ Switches \subseteq SwitchSettings

\* The march is never due on two ticks in a row, and no period is negative.
ASSUME PeriodAssumption == MOVE_PERIOD > MAX_LEVEL /\ FIRE_PERIOD >= FIRE_SPEEDUP * MAX_LEVEL

\* The ship's start and travel, and the first step of a shot, are on screen.
ASSUME ShipAssumption ==
  /\ PLAYER_START_X + PLAYER_W <= SCREEN_W
  /\ PLAYER_START_Y \in (PLAYER_MIN_Y + 1)..(PLAYER_MAX_Y - 1)
  /\ PLAYER_BULLET_H <= PLAYER_MIN_Y
  /\ PLAYER_BULLET_W <= PLAYER_W
  /\ PLAYER_BULLET_RISE <= PLAYER_BULLET_TOP + 1

\* The march's edges leave room for the widest formation (14 pixels either
\* side), and the lowest ship for one more drop of it (12 pixels below).
ASSUME FormationAssumption ==
  /\ ENEMY_ROWS <= 4 /\ ENEMY_COLS <= 8
  /\ LEFT_EDGE - ENEMY_MOVE_X >= 13
  /\ RIGHT_EDGE + 13 <= SCREEN_W
  /\ ENEMY_START_X >= 14
  /\ ENEMY_START_X + (ENEMY_COLS - 1) * ENEMY_X_STEP + ENEMY_W + 14 <= SCREEN_W
  /\ ENEMY_START_Y >= 4 /\ WAVE_START_Y >= 4
  /\ ENEMY_START_Y + (ENEMY_ROWS - 1) * ENEMY_Y_STEP + ENEMY_H < PLAYER_MAX_Y
  /\ WAVE_START_Y + 4 * MAX_LEVEL + (ENEMY_ROWS - 1) * ENEMY_Y_STEP + ENEMY_H < PLAYER_MAX_Y
  /\ PLAYER_MAX_Y + ENEMY_MOVE_Y + 11 <= SCREEN_H
  /\ ENEMY_BULLET_SPEED + MAX_LEVEL \div 2 <= ENEMY_BULLET_H
  /\ 2 * ENEMY_BULLET_W <= ENEMY_W

\* Between two shots the first outruns the ship by more than its length.
ASSUME ShotAssumption ==
  /\ PLAYER_BULLET_RISE >= PLAYER_STEP
  /\ (FIRE_COOLDOWN + 1) * PLAYER_BULLET_RISE - FIRE_COOLDOWN * PLAYER_STEP >= PLAYER_BULLET_H

\* In one tick a shot and what it is aimed at close by less than their heights.
ASSUME TunnelAssumption ==
  /\ PLAYER_BULLET_RISE + ENEMY_MOVE_Y < PLAYER_BULLET_H + ENEMY_H
  /\ ENEMY_BULLET_SPEED + MAX_LEVEL \div 2 + PLAYER_STEP < ENEMY_BULLET_H + PLAYER_H

\* The score's digits hold the kills of every wave before the last.
ASSUME ScoreAssumption == MAX_WAVE * ENEMY_ROWS * ENEMY_COLS <= SCORE_RADIX * SCORE_RADIX * SCORE_RADIX

VARIABLES
  state,
  player_x, player_y,
  player_bullet,       \* slot -> position, or NoBullet when not active
  enemy_bullet,        \* slot -> position, or NoBullet when not active
  enemy_alive,         \* the indexes whose bit is set
  enemy_base_x, enemy_base_y, enemy_dir_right,
  lives, wave,
  score_thousands, score_hundreds, score_tens,  \* score_ones is never but 0
  move_timer, enemy_fire_timer, fire_cooldown, respawn_timer,
  attack_cursor, fire_prev

score == <<score_thousands, score_hundreds, score_tens>>
ship == <<player_x, player_y>>
formation == <<enemy_base_x, enemy_base_y, enemy_dir_right>>
timers == <<move_timer, enemy_fire_timer, fire_cooldown, respawn_timer>>
vars == <<state, ship, player_bullet, enemy_bullet, enemy_alive, formation,
          lives, wave, score, timers, attack_cursor, fire_prev>>

-----------------------------------------------------------------------------
GameStates == {"TITLE", "PLAY", "LIFE_LOST", "GAME_OVER"}
PlayerSlots == 0..(PLAYER_MAX_BULLETS - 1)
EnemySlots == 0..(ENEMY_MAX_BULLETS - 1)
ENEMY_COUNT == ENEMY_ROWS * ENEMY_COLS
Enemies == 0..(ENEMY_COUNT - 1)
NoBullet == <<>>     \* the position of an inactive shot is never read
NoPlayerBullets == [b \in PlayerSlots |-> NoBullet]
NoEnemyBullets == [b \in EnemySlots |-> NoBullet]

key_fire(key) == key = "fire"
key_start(key) == key \in {"enter", "fire"}
player_bullet_limit(sw) == sw.player_bullets + 1
enemy_bullet_limit(sw) == sw.enemy_bullets + 1

overlap(ax, ay, aw, ah, bx, by, bw, bh) ==
  /\ ax < bx + bw
  /\ ax + aw > bx
  /\ ay < by + bh
  /\ ay + ah > by

-----------------------------------------------------------------------------
(***************************************************************************)
(* Where an enemy is.  The switches select one of four formations; two of   *)
(* them change with the wave number.                                        *)
(***************************************************************************)
Row(i) == i \div ENEMY_COLS
Col(i) == i % ENEMY_COLS

\* In formation 2, the columns that stand forward in this wave.
Forward(col) == col % 4 = wave % 4 \/ (col + 2) % 4 = wave % 4

OffsetX(i, sw) ==
  CASE sw.formation = 1 -> IF Row(i) % 2 # wave % 2 THEN 14 ELSE -14
    [] sw.formation = 2 -> IF Forward(Col(i)) THEN 10 ELSE -6
    [] sw.formation = 3 -> IF Row(i) < 2 THEN 12 - Row(i) * 8 ELSE Row(i) * 8 - 20
    [] OTHER -> 0

OffsetY(i, sw) ==
  CASE sw.formation = 1 -> IF Col(i) % 2 # wave % 2 THEN 4 ELSE -4
    [] sw.formation = 2 -> IF Forward(Col(i)) THEN 12 ELSE -2
    [] sw.formation = 3 -> IF Col(i) < 4 THEN Col(i) * 2 ELSE (7 - Col(i)) * 2
    [] OTHER -> 0

enemy_x_pos(i, sw) == enemy_base_x + Col(i) * ENEMY_X_STEP + OffsetX(i, sw)
enemy_y_pos(i, sw) == enemy_base_y + Row(i) * ENEMY_Y_STEP + OffsetY(i, sw)

capped_wave(value) == IF value > MAX_LEVEL THEN MAX_LEVEL ELSE value
enemy_move_period(value) == MOVE_PERIOD - capped_wave(value)
enemy_fire_period(value) == FIRE_PERIOD - FIRE_SPEEDUP * capped_wave(value)
enemy_bullet_speed(value) == ENEMY_BULLET_SPEED + capped_wave(value) \div 2
enemy_wave_start_y(value) == WAVE_START_Y + 4 * capped_wave(value)
difficulty_level(sw) == capped_wave(wave + sw.boost)

-----------------------------------------------------------------------------
(***************************************************************************)
(* The combinational block (lines 307-366).                                 *)
(***************************************************************************)
FreePlayerSlots(sw) ==
  {b \in PlayerSlots : b < player_bullet_limit(sw) /\ player_bullet[b] = NoBullet}
FreeEnemySlots(sw) ==
  {b \in EnemySlots : b < enemy_bullet_limit(sw) /\ enemy_bullet[b] = NoBullet}

\* Enemy shots that touch the ship: only the lowest slot is acted upon.
HittingEnemyBullets ==
  {b \in EnemySlots :
     /\ enemy_bullet[b] # NoBullet
     /\ overlap(enemy_bullet[b].x, enemy_bullet[b].y, ENEMY_BULLET_W, ENEMY_BULLET_H,
                player_x, player_y, PLAYER_W, PLAYER_H)}
player_hit_by_enemy == HittingEnemyBullets # {}
player_hit_enemy_bullet_index == Min(HittingEnemyBullets)

Hits(b, i, sw) ==
  /\ player_bullet[b] # NoBullet
  /\ overlap(player_bullet[b].x, player_bullet[b].y, PLAYER_BULLET_W, PLAYER_BULLET_H,
             enemy_x_pos(i, sw), enemy_y_pos(i, sw), ENEMY_W, ENEMY_H)

\* Living enemies a shot touches: the lowest index, then the lowest slot, wins.
HitEnemies(sw) == {i \in enemy_alive : \E b \in PlayerSlots : Hits(b, i, sw)}
bullet_hit_enemy(sw) == HitEnemies(sw) # {}
bullet_hit_index(sw) == Min(HitEnemies(sw))

\* Mutant: the lowest slot with a shot in flight.
bullet_hit_player_bullet_index_Lowest(sw) ==
  Min({b \in PlayerSlots : player_bullet[b] # NoBullet})

bullet_hit_player_bullet_index(sw) ==
  Min({b \in PlayerSlots : Hits(b, bullet_hit_index(sw), sw)})

\* The next living enemy at or after attack_cursor, round robin.
AheadOfCursor(i) == (attack_cursor + i) % ENEMY_COUNT
enemy_fire_candidate_index ==
  AheadOfCursor(Min({i \in Enemies : AheadOfCursor(i) \in enemy_alive}))

-----------------------------------------------------------------------------
(***************************************************************************)
(* What a tick in ST_PLAY does to each register (lines 422-549).            *)
(***************************************************************************)
player_x_next(key) ==
  IF key = "left" /\ player_x > PLAYER_STEP THEN player_x - PLAYER_STEP
  ELSE IF key = "right" /\ player_x < SCREEN_W - PLAYER_W - PLAYER_STEP
       THEN player_x + PLAYER_STEP
       ELSE player_x

player_y_next(key) ==
  IF key = "up" /\ player_y > PLAYER_MIN_Y + PLAYER_STEP THEN player_y - PLAYER_STEP
  ELSE IF key = "down" /\ player_y < PLAYER_MAX_Y - PLAYER_STEP
       THEN player_y + PLAYER_STEP
       ELSE player_y

\* Mutant: no cool-down.
Fires_NoCooldown(key, sw) ==
  /\ key_fire(key)
  /\ ~fire_prev
  /\ FreePlayerSlots(sw) # {}

Fires(key, sw) ==
  /\ key_fire(key)
  /\ ~fire_prev
  /\ FreePlayerSlots(sw) # {}
  /\ fire_cooldown = 0

\* The last living enemy is hit: enemies_remaining still counts it.
WaveCleared(sw) == bullet_hit_enemy(sw) /\ Cardinality(enemy_alive) <= 1

PlayerShot == [x |-> player_x + PLAYER_W \div 2 - PLAYER_BULLET_W \div 2,
               y |-> player_y - PLAYER_BULLET_H]

\* Mutants: a shot is dropped only at the top line itself; a shot climbs twice
\* its step.
Climb_Zero(p) == IF p.y = 0 THEN NoBullet ELSE [p EXCEPT !.y = @ - PLAYER_BULLET_RISE]

Climb_Double(p) == IF p.y <= PLAYER_BULLET_TOP THEN NoBullet
                   ELSE [p EXCEPT !.y = @ - 2 * PLAYER_BULLET_RISE]

Climb(p) == IF p.y <= PLAYER_BULLET_TOP THEN NoBullet
            ELSE [p EXCEPT !.y = @ - PLAYER_BULLET_RISE]

player_bullet_next(key, sw) ==
  [b \in PlayerSlots |->
     IF \/ player_hit_by_enemy
        \/ WaveCleared(sw)
        \/ bullet_hit_enemy(sw) /\ b = bullet_hit_player_bullet_index(sw)
        \/ b >= player_bullet_limit(sw)
     THEN NoBullet
     ELSE IF Fires(key, sw) /\ b = Min(FreePlayerSlots(sw)) THEN PlayerShot
     ELSE IF player_bullet[b] # NoBullet THEN Climb(player_bullet[b])
     ELSE NoBullet]

EnemyFireDue(sw) ==
  /\ ~player_hit_by_enemy
  /\ enemy_fire_timer >= enemy_fire_period(difficulty_level(sw))

\* The candidate and the free slot come from the registers before this tick.
EnemyFires(sw) == EnemyFireDue(sw) /\ enemy_alive # {} /\ FreeEnemySlots(sw) # {}

EnemyShot(sw) ==
  [x |-> enemy_x_pos(enemy_fire_candidate_index, sw) + ENEMY_W \div 2,
   y |-> enemy_y_pos(enemy_fire_candidate_index, sw) + ENEMY_H]

\* Mutant: the shot's own height is forgotten.
Fall_NoHeight(p, sw) ==
  IF p.y >= SCREEN_H THEN NoBullet
  ELSE [p EXCEPT !.y = @ + enemy_bullet_speed(difficulty_level(sw))]

Fall(p, sw) ==
  IF p.y >= SCREEN_H - ENEMY_BULLET_H THEN NoBullet
  ELSE [p EXCEPT !.y = @ + enemy_bullet_speed(difficulty_level(sw))]

\* Mutant: a cleared wave leaves its shots in flight.
enemy_bullet_next_Kept(sw) ==
  [b \in EnemySlots |->
     IF EnemyFires(sw) /\ b = Min(FreeEnemySlots(sw)) THEN EnemyShot(sw)
     ELSE IF \/ b >= enemy_bullet_limit(sw)
             \/ player_hit_by_enemy /\ b = player_hit_enemy_bullet_index
             \/ enemy_bullet[b] = NoBullet
     THEN NoBullet
     ELSE Fall(enemy_bullet[b], sw)]

\* Firing (line 535) is assigned after the wave's reset (line 475): it wins.
enemy_bullet_next(sw) ==
  [b \in EnemySlots |->
     IF EnemyFires(sw) /\ b = Min(FreeEnemySlots(sw)) THEN EnemyShot(sw)
     ELSE IF \/ WaveCleared(sw)
             \/ b >= enemy_bullet_limit(sw)
             \/ player_hit_by_enemy /\ b = player_hit_enemy_bullet_index
             \/ enemy_bullet[b] = NoBullet
     THEN NoBullet
     ELSE Fall(enemy_bullet[b], sw)]

enemy_alive_next(sw) ==
  IF WaveCleared(sw) THEN Enemies
  ELSE IF bullet_hit_enemy(sw) THEN enemy_alive \ {bullet_hit_index(sw)}
  ELSE enemy_alive

\* Mutant: the carry into the hundreds is lost.
CountKill_NoCarry(sw) ==
  /\ score_tens' = IF bullet_hit_enemy(sw) THEN (score_tens + 1) % SCORE_RADIX ELSE score_tens
  /\ UNCHANGED <<score_hundreds, score_thousands>>

\* Mutant: the thousands wrap with the digits below them.
CountKill_AllWrap(sw) ==
  IF bullet_hit_enemy(sw)
  THEN LET carry == score_tens = SCORE_RADIX - 1
           carry2 == carry /\ score_hundreds = SCORE_RADIX - 1
           next(digit, up) == IF up THEN (digit + 1) % SCORE_RADIX ELSE digit
       IN /\ score_tens' = next(score_tens, TRUE)
          /\ score_hundreds' = next(score_hundreds, carry)
          /\ score_thousands' = next(score_thousands, carry2)
  ELSE UNCHANGED score

\* Thousands stop at the last digit; hundreds and tens wrap below them.
CountKill(sw) ==
  IF bullet_hit_enemy(sw)
  THEN LET nine == SCORE_RADIX - 1
           carry == score_tens = nine
           carry2 == carry /\ score_hundreds = nine
       IN /\ score_tens' = IF carry THEN 0 ELSE score_tens + 1
          /\ score_hundreds' = IF carry2 THEN 0
                               ELSE IF carry THEN score_hundreds + 1
                               ELSE score_hundreds
          /\ score_thousands' = IF carry2 /\ score_thousands # nine
                                THEN score_thousands + 1 ELSE score_thousands
  ELSE UNCHANGED score

\* Mutant: due only when the timer equals the period.
MarchDue_Equal(sw) == move_timer = enemy_move_period(difficulty_level(sw))

MarchDue(sw) == move_timer >= enemy_move_period(difficulty_level(sw))
\* Mutant: the right edge forgets the enemy's width.
AtEdge_NoWidth ==
  IF enemy_dir_right
  THEN enemy_base_x + (ENEMY_COLS - 1) * ENEMY_X_STEP + ENEMY_MOVE_X >= RIGHT_EDGE
  ELSE enemy_base_x <= LEFT_EDGE

AtEdge ==
  IF enemy_dir_right
  THEN enemy_base_x + (ENEMY_COLS - 1) * ENEMY_X_STEP + ENEMY_W + ENEMY_MOVE_X >= RIGHT_EDGE
  ELSE enemy_base_x <= LEFT_EDGE

\* Mutant: the formation turns at the edges without coming down.
MoveFormation_Level(sw) ==
  /\ enemy_base_x' = IF MarchDue(sw) /\ ~AtEdge
                     THEN IF enemy_dir_right THEN enemy_base_x + ENEMY_MOVE_X
                                             ELSE enemy_base_x - ENEMY_MOVE_X
                     ELSE IF WaveCleared(sw) THEN ENEMY_START_X
                     ELSE enemy_base_x
  /\ enemy_base_y' = IF WaveCleared(sw) THEN enemy_wave_start_y(wave) ELSE enemy_base_y
  /\ enemy_dir_right' = IF MarchDue(sw) /\ AtEdge THEN ~enemy_dir_right
                        ELSE enemy_dir_right \/ WaveCleared(sw)

\* The march (lines 482-505) is assigned after the wave's reset (lines
\* 472-474): what it assigns wins, from the old base; the rest is reset.
MoveFormation(sw) ==
  /\ enemy_base_x' = IF MarchDue(sw) /\ ~AtEdge
                     THEN IF enemy_dir_right THEN enemy_base_x + ENEMY_MOVE_X
                                             ELSE enemy_base_x - ENEMY_MOVE_X
                     ELSE IF WaveCleared(sw) THEN ENEMY_START_X
                     ELSE enemy_base_x
  /\ enemy_base_y' = IF MarchDue(sw) /\ AtEdge THEN enemy_base_y + ENEMY_MOVE_Y
                     ELSE IF WaveCleared(sw) THEN enemy_wave_start_y(wave)
                     ELSE enemy_base_y
  /\ enemy_dir_right' = IF MarchDue(sw) /\ AtEdge THEN ~enemy_dir_right
                        ELSE enemy_dir_right \/ WaveCleared(sw)

\* The bottom row's lower edge, living or not, has reached the ship's top.
Invaded == enemy_base_y + (ENEMY_ROWS - 1) * ENEMY_Y_STEP + ENEMY_H >= player_y

\* Mutants: the last life is not the last; a hit on landing costs only one.
LoseLife_OffByOne ==
  /\ lives' = IF Invaded \/ (player_hit_by_enemy /\ lives < 1) THEN 0
              ELSE IF player_hit_by_enemy THEN lives - 1
              ELSE lives
  /\ state' = IF Invaded \/ (player_hit_by_enemy /\ lives < 1) THEN "GAME_OVER"
              ELSE IF player_hit_by_enemy THEN "LIFE_LOST"
              ELSE state
  /\ respawn_timer' = IF player_hit_by_enemy /\ lives > 1 THEN RESPAWN_TICKS
                      ELSE respawn_timer
LoseLife_HitWins ==
  /\ lives' = IF player_hit_by_enemy THEN lives - 1 ELSE IF Invaded THEN 0 ELSE lives
  /\ state' = IF Invaded \/ (player_hit_by_enemy /\ lives <= 1) THEN "GAME_OVER"
              ELSE IF player_hit_by_enemy THEN "LIFE_LOST"
              ELSE state
  /\ respawn_timer' = IF player_hit_by_enemy /\ lives > 1 THEN RESPAWN_TICKS
                      ELSE respawn_timer

\* Invasion (lines 545-548) is assigned after the hit (519-531): it wins.
LoseLife ==
  /\ lives' = IF Invaded \/ (player_hit_by_enemy /\ lives <= 1) THEN 0
              ELSE IF player_hit_by_enemy THEN lives - 1
              ELSE lives
  /\ state' = IF Invaded \/ (player_hit_by_enemy /\ lives <= 1) THEN "GAME_OVER"
              ELSE IF player_hit_by_enemy THEN "LIFE_LOST"
              ELSE state
  /\ respawn_timer' = IF player_hit_by_enemy /\ lives > 1 THEN RESPAWN_TICKS
                      ELSE respawn_timer

-----------------------------------------------------------------------------
(***************************************************************************)
(* The assignments that start a game (lines 400-416 and 567-585).           *)
(***************************************************************************)
SetUpShip ==
  /\ player_x' = PLAYER_START_X
  /\ player_y' = PLAYER_START_Y
  /\ player_bullet' = NoPlayerBullets
  /\ enemy_bullet' = NoEnemyBullets

SetUpGame ==
  /\ SetUpShip
  /\ enemy_alive' = Enemies
  /\ enemy_base_x' = ENEMY_START_X
  /\ enemy_base_y' = ENEMY_START_Y
  /\ enemy_dir_right' = TRUE
  /\ lives' = START_LIVES
  /\ score_thousands' = 0 /\ score_hundreds' = 0 /\ score_tens' = 0
  /\ wave' = 1
  /\ move_timer' = 0
  /\ enemy_fire_timer' = 0
  /\ attack_cursor' = 0

\* Lines 393-396, before the case on the state.
SampleFireKey(key) == fire_prev' = key_fire(key)
CoolDown == fire_cooldown' = IF fire_cooldown # 0 THEN fire_cooldown - 1 ELSE 0

TitleTick(key) ==
  /\ state = "TITLE"
  /\ SampleFireKey(key) /\ CoolDown
  /\ SetUpGame
  /\ state' = IF key_start(key) THEN "PLAY" ELSE state
  /\ UNCHANGED respawn_timer

PlayTick(key, sw) ==
  /\ state = "PLAY"
  /\ SampleFireKey(key)
  /\ IF Fires(key, sw) THEN fire_cooldown' = FIRE_COOLDOWN ELSE CoolDown
  /\ player_x' = player_x_next(key)
  /\ player_y' = player_y_next(key)
  /\ player_bullet' = player_bullet_next(key, sw)
  /\ enemy_alive' = enemy_alive_next(sw)
  /\ CountKill(sw)
  /\ wave' = IF WaveCleared(sw) /\ wave # MAX_WAVE THEN wave + 1 ELSE wave
  /\ MoveFormation(sw)
  /\ move_timer' = IF MarchDue(sw) THEN 0 ELSE move_timer + 1
  /\ enemy_bullet' = enemy_bullet_next(sw)
  /\ enemy_fire_timer' = IF player_hit_by_enemy THEN enemy_fire_timer
                         ELSE IF EnemyFireDue(sw) THEN 0
                         ELSE enemy_fire_timer + 1
  /\ attack_cursor' = IF EnemyFires(sw) THEN enemy_fire_candidate_index + 1
                      ELSE attack_cursor
  /\ LoseLife

\* Mutant: the respawn timer does not run.
LifeLostTick_Stuck(key) ==
  /\ state = "LIFE_LOST"
  /\ SampleFireKey(key) /\ CoolDown
  /\ SetUpShip
  /\ state' = IF respawn_timer # 0 THEN state ELSE "PLAY"
  /\ UNCHANGED <<respawn_timer, enemy_alive, formation, lives, wave, score,
                 move_timer, enemy_fire_timer, attack_cursor>>

LifeLostTick(key) ==
  /\ state = "LIFE_LOST"
  /\ SampleFireKey(key) /\ CoolDown
  /\ SetUpShip
  /\ IF respawn_timer # 0
     THEN respawn_timer' = respawn_timer - 1 /\ UNCHANGED state
     ELSE state' = "PLAY" /\ UNCHANGED respawn_timer
  /\ UNCHANGED <<enemy_alive, formation, lives, wave, score,
                 move_timer, enemy_fire_timer, attack_cursor>>

\* A finished game stays on the screen, without its shots.
GameOverTick(key) ==
  /\ state = "GAME_OVER"
  /\ ~(key = "restart" \/ key_start(key))
  /\ SampleFireKey(key) /\ CoolDown
  /\ player_bullet' = NoPlayerBullets
  /\ enemy_bullet' = NoEnemyBullets
  /\ UNCHANGED <<state, ship, enemy_alive, formation, lives, wave, score,
                 move_timer, enemy_fire_timer, respawn_timer, attack_cursor>>

\* R, Enter or Space starts the next game at once, without the title.
RestartTick(key) ==
  /\ state = "GAME_OVER"
  /\ key = "restart" \/ key_start(key)
  /\ SampleFireKey(key)
  /\ fire_cooldown' = 0
  /\ respawn_timer' = 0
  /\ SetUpGame
  /\ state' = "PLAY"

Tick == \E key \in Keys, sw \in Switches :
          \/ TitleTick(key)
          \/ PlayTick(key, sw)
          \/ LifeLostTick(key)
          \/ GameOverTick(key)
          \/ RestartTick(key)

\* A clock edge with reset_n low (lines 369-391), at any time.
Reset ==
  /\ SetUpGame
  /\ state' = "TITLE"
  /\ fire_cooldown' = 0
  /\ respawn_timer' = 0
  /\ fire_prev' = FALSE

\* The device powers up with every register 0 (ST_TITLE is 0); nothing
\* requires a reset before the first tick.
Init ==
  /\ state = "TITLE"
  /\ player_x = 0 /\ player_y = 0
  /\ player_bullet = NoPlayerBullets /\ enemy_bullet = NoEnemyBullets
  /\ enemy_alive = {}
  /\ enemy_base_x = 0 /\ enemy_base_y = 0 /\ enemy_dir_right = FALSE
  /\ lives = 0 /\ wave = 0
  /\ score_thousands = 0 /\ score_hundreds = 0 /\ score_tens = 0
  /\ move_timer = 0 /\ enemy_fire_timer = 0
  /\ fire_cooldown = 0 /\ respawn_timer = 0
  /\ attack_cursor = 0 /\ fire_prev = FALSE

Next == Tick \/ Reset
Spec == Init /\ [][Next]_vars

\* Frames never stop coming: the VGA counters run free of the game.
FairSpec == Spec /\ WF_vars(Tick)

-----------------------------------------------------------------------------
(***************************************************************************)
(* Properties                                                               *)
(***************************************************************************)
PlayerBullets == [x : 0..SCREEN_W, y : 0..SCREEN_H]
EnemyBullets == [x : 0..SCREEN_W, y : 0..SCREEN_H]
Digits == 0..(SCORE_RADIX - 1)

\* Every register keeps to a range its width holds, so that no assignment of
\* lines 368-593 wraps: the timers of lines 79-82 stop at their periods, no
\* count goes below 0, and every shot in flight has both its corners' origin
\* on the screen (line 448 subtracts from an unsigned y).
TypeOK ==
  /\ state \in GameStates
  /\ player_x \in 0..(SCREEN_W - PLAYER_W)
  /\ player_y \in 0..(PLAYER_MAX_Y - 1)
  /\ player_bullet \in [PlayerSlots -> PlayerBullets \cup {NoBullet}]
  /\ enemy_bullet \in [EnemySlots -> EnemyBullets \cup {NoBullet}]
  /\ enemy_alive \subseteq Enemies
  /\ enemy_base_x \in 0..SCREEN_W
  /\ enemy_base_y \in 0..SCREEN_H
  /\ enemy_dir_right \in BOOLEAN
  /\ lives \in 0..START_LIVES
  /\ wave \in 0..MAX_WAVE
  /\ score_thousands \in Digits /\ score_hundreds \in Digits /\ score_tens \in Digits
  /\ move_timer \in 0..MOVE_PERIOD
  /\ enemy_fire_timer \in 0..FIRE_PERIOD
  /\ fire_cooldown \in 0..FIRE_COOLDOWN
  /\ respawn_timer \in 0..RESPAWN_TICKS
  /\ attack_cursor \in 0..ENEMY_COUNT
  /\ fire_prev \in BOOLEAN

\* A game that goes on has a life, a wave and an enemy left, and a game that
\* is over has no life: the hit (lines 519-531), the kill (452-480) and the
\* invasion (545-548) of one tick never leave them disagreeing.
GameAlive ==
  /\ state \in {"PLAY", "LIFE_LOST"} => lives > 0 /\ wave > 0 /\ enemy_alive # {}
  /\ state = "GAME_OVER" => lives = 0

\* No enemy place, whatever the switches select at this tick (lines 221-253),
\* ever lies off the screen: not after the double assignment of a cleared
\* wave and a march (lines 472-502), and not after the last drop of a
\* formation that has reached the ship.
FormationOnScreen ==
  state # "TITLE" =>
    \A i \in Enemies, sw \in Switches :
      /\ enemy_x_pos(i, sw) >= 0 /\ enemy_x_pos(i, sw) + ENEMY_W <= SCREEN_W
      /\ enemy_y_pos(i, sw) >= 0 /\ enemy_y_pos(i, sw) + ENEMY_H <= SCREEN_H

\* What keeps it there: the march stays between its edges, and the formation's
\* bottom is above the lowest ship except right after a drop (the move timer
\* is then 0, so no second drop comes before the landing is noticed).
FormationBottom == enemy_base_y + (ENEMY_ROWS - 1) * ENEMY_Y_STEP + ENEMY_H
FormationRoom ==
  state # "TITLE" =>
    /\ enemy_base_x >= 14
    /\ enemy_base_x + (ENEMY_COLS - 1) * ENEMY_X_STEP + ENEMY_W + 14 <= SCREEN_W
    /\ enemy_base_y >= 4
    /\ FormationBottom < PLAYER_MAX_Y + ENEMY_MOVE_Y
    /\ state # "GAME_OVER" /\ move_timer # 0 => FormationBottom < PLAYER_MAX_Y

\* Two shots of the ship never overlap: the cool-down (lines 395-396, 433-438)
\* outlasts the ship's climb after its own shot, in whatever slots they are.
ShotsKeepApart ==
  \A b, c \in PlayerSlots :
    b # c /\ player_bullet[b] # NoBullet /\ player_bullet[c] # NoBullet =>
      \/ player_bullet[b].y >= player_bullet[c].y + PLAYER_BULLET_H
      \/ player_bullet[c].y >= player_bullet[b].y + PLAYER_BULLET_H

\* Before the last wave the displayed score (lines 455-468) is exactly the
\* enemies missing from this wave and those of the waves before it: no kill is
\* counted twice or lost, also when it clears the wave or ends the game.
ScoreValue ==
  (score_thousands * SCORE_RADIX + score_hundreds) * SCORE_RADIX + score_tens
ScoreMatchesWaves ==
  wave \in 1..(MAX_WAVE - 1) =>
    ScoreValue = (wave - 1) * ENEMY_COUNT + (ENEMY_COUNT - Cardinality(enemy_alive))

\* Every enemy that dies scores, in the last wave too, and nothing else changes
\* the score in any state, but for the start of a game: a kill adds one, and
\* lets the score fall only from the largest one it can show to the first of
\* the last thousand (lines 455-468, where the hundreds and tens wrap and the
\* thousands stay). A fleet of one, whose last kill brings it back on the same
\* tick, is not what is meant.
TopScore == SCORE_RADIX * SCORE_RADIX * SCORE_RADIX - 1
ScoreAfterKill ==
  IF ScoreValue < TopScore THEN ScoreValue + 1
  ELSE (SCORE_RADIX - 1) * SCORE_RADIX * SCORE_RADIX
StartsGame ==
  "TITLE" \in {state, state'} \/ (state = "GAME_OVER" /\ state' = "PLAY")
KillsScore ==
  [][ScoreValue' = IF StartsGame THEN 0
                   ELSE IF enemy_alive' # enemy_alive THEN ScoreAfterKill
                   ELSE ScoreValue]_vars

\* A new wave meets at most one enemy shot in flight, fired by the old wave on
\* the very tick that cleared it (line 535 after line 475) and never one of
\* those already in the air, and none of the ship's own.
WaveStartsQuiet ==
  [][wave' = wave + 1 /\ state # "TITLE" =>
       /\ \A b, c \in EnemySlots :
            enemy_bullet'[b] # NoBullet /\ enemy_bullet'[c] # NoBullet =>
              b = c /\ enemy_bullet[b] = NoBullet
       /\ player_bullet' = NoPlayerBullets]_vars

\* A kill spends the shot that made it: every enemy that dies was touched by a
\* shot of the ship that is gone after the tick (lines 453-454), although the
\* shot's slot is chosen apart from the enemy's index (lines 349-358).
KillSpendsShot ==
  [][\A i \in enemy_alive \ enemy_alive' :
       \E b \in PlayerSlots, sw \in Switches :
         Hits(b, i, sw) /\ player_bullet'[b] = NoBullet]_vars

\* No shot passes through what it is aimed at between two tests for overlap
\* (lines 335-358 test once per tick, before anything moves): under one setting
\* of the switches a shot below a living enemy is not above it a tick later,
\* although the enemy may come down as the shot climbs, and an enemy shot above
\* the ship is not below it, although the ship may climb as the shot falls.
ShotPassesEnemy(b, i, sw) ==
  /\ player_bullet[b] # NoBullet /\ player_bullet'[b] # NoBullet
  /\ player_bullet[b].y >= enemy_y_pos(i, sw) + ENEMY_H
  /\ player_bullet'[b].y + PLAYER_BULLET_H <= enemy_y_pos(i, sw)'
ShotPassesShip(b) ==
  /\ enemy_bullet[b] # NoBullet /\ enemy_bullet'[b] # NoBullet
  /\ enemy_bullet[b].y + ENEMY_BULLET_H <= player_y
  /\ enemy_bullet'[b].y >= player_y' + PLAYER_H
NoTunnelling ==
  [][/\ \A b \in PlayerSlots, i \in enemy_alive \cap enemy_alive', sw \in Switches :
          ~ShotPassesEnemy(b, i, sw)
     /\ \A b \in EnemySlots : ~ShotPassesShip(b)]_vars

\* Every tick is a move of the game's rules, although it makes several of
\* them at once (a kill, a hit and a landing are decided side by side, lines
\* 452-548) and the last assignment to a register wins.
Phase == CASE state = "TITLE" -> "title"
           [] state = "PLAY" -> "play"
           [] state = "LIFE_LOST" -> "hit"
           [] OTHER -> "over"
Rules == INSTANCE GalaxianRules WITH
  Fleet <- Enemies, Lives <- START_LIVES, LastWave <- MAX_WAVE, TopScore <- TopScore,
  phase <- Phase, fleet <- enemy_alive, points <- ScoreValue
RulesImplemented == Rules!Spec

\* A lost life always ends in play again, or in a reset: the respawn timer
\* (lines 551-561) is loaded by every hit that leads there.
RespawnEnds == state = "LIFE_LOST" ~> state \in {"PLAY", "TITLE"}

\* No wave lasts for ever: whoever plays, the formation comes down (lines
\* 482-505) until it is cleared, lands or takes the last life.
WavesEnd ==
  \A w \in 1..(MAX_WAVE - 1) :
    state = "PLAY" /\ wave = w ~> wave # w \/ state \in {"GAME_OVER", "TITLE"}

=============================================================================
