------------------------ MODULE FcGalaxianGameProofs ------------------------
(***************************************************************************)
(* Proofs about FcGalaxianGame for every grid that satisfies its            *)
(* assumptions.                                                             *)
(***************************************************************************)
EXTENDS FcGalaxianGame, FiniteSetTheorems, TLAPS

-----------------------------------------------------------------------------
(***************************************************************************)
(* Arithmetic                                                               *)
(***************************************************************************)
\* Multiplication by a natural number is monotone.
LEMMA TimesMonotone ==
  ASSUME NEW k \in Nat, NEW m \in Nat, NEW n \in Nat, m <= n
  PROVE  /\ m * k \in Nat
         /\ m * k <= n * k
  OBVIOUS

\* An index of a rows-by-cols grid splits into a row and a column of it.
LEMMA GridIndex ==
  ASSUME NEW r \in Nat \ {0}, NEW c \in Nat \ {0}, NEW i \in 0..(r * c - 1)
  PROVE  /\ i \div c \in 0..(r - 1)
         /\ i % c \in 0..(c - 1)
<1>1. i \div c \in Int /\ i % c \in 0..(c - 1) /\ i = c * (i \div c) + (i % c)
  BY SMT
<1>2. i \div c >= 0
  BY <1>1, SMT
<1>3. i \div c < r
  <2>1. SUFFICES ASSUME i \div c >= r PROVE FALSE
    BY <1>1
  <2>2. r * c <= (i \div c) * c
    BY <1>1, <1>2, <2>1, TimesMonotone
  <2>3. QED
    BY <1>1, <2>2
<1>4. QED
  BY <1>1, <1>2, <1>3

\* The least element of a non-empty set of natural numbers is one of them.
LEMMA MinInSet ==
  ASSUME NEW S \in SUBSET Nat, S # {}
  PROVE  Min(S) \in S
<1>1. PICK x \in S : \A y \in S : ~ (<<y, x>> \in OpToRel(<, Nat))
  BY NatLessThanWellFounded, WFMin
<1>2. ASSUME NEW y \in S PROVE x <= y
  <2>1. ~ (y < x)
    BY <1>1, Zenon DEF OpToRel
  <2>2. QED
    BY <2>1
<1>3. \E z \in S : \A y \in S : z <= y
  BY <1>2
<1>4. QED
  BY <1>3, Zenon DEF Min

-----------------------------------------------------------------------------
(***************************************************************************)
(* The formation                                                            *)
(***************************************************************************)
\* The inductive invariant: the types, the lives, the formation's room, and a
\* ship that is high enough for its shots once a game has begun.
ShipAboveFloor == state # "TITLE" => player_y > PLAYER_MIN_Y
IInv == TypeOK /\ GameAlive /\ FormationRoom /\ ShipAboveFloor

LEMMA ConstantTypes ==
  /\ SCREEN_W \in Nat /\ SCREEN_H \in Nat /\ PLAYER_W \in Nat /\ PLAYER_H \in Nat
  /\ PLAYER_START_X \in Nat /\ PLAYER_START_Y \in Nat
  /\ PLAYER_MIN_Y \in Nat /\ PLAYER_MAX_Y \in Nat
  /\ PLAYER_BULLET_W \in Nat /\ PLAYER_BULLET_TOP \in Nat
  /\ ENEMY_BULLET_W \in Nat /\ ENEMY_BULLET_SPEED \in Nat
  /\ ENEMY_W \in Nat /\ ENEMY_X_STEP \in Nat /\ ENEMY_Y_STEP \in Nat
  /\ ENEMY_START_X \in Nat /\ ENEMY_START_Y \in Nat /\ WAVE_START_Y \in Nat
  /\ LEFT_EDGE \in Nat /\ RIGHT_EDGE \in Nat
  /\ MOVE_PERIOD \in Nat /\ FIRE_PERIOD \in Nat /\ FIRE_SPEEDUP \in Nat
  /\ FIRE_COOLDOWN \in Nat /\ RESPAWN_TICKS \in Nat /\ MAX_LEVEL \in Nat
  /\ PLAYER_STEP \in Nat \ {0} /\ PLAYER_MAX_BULLETS \in Nat \ {0}
  /\ PLAYER_BULLET_H \in Nat \ {0} /\ PLAYER_BULLET_RISE \in Nat \ {0}
  /\ ENEMY_MAX_BULLETS \in Nat \ {0} /\ ENEMY_BULLET_H \in Nat \ {0}
  /\ ENEMY_ROWS \in Nat \ {0} /\ ENEMY_COLS \in Nat \ {0} /\ ENEMY_H \in Nat \ {0}
  /\ ENEMY_MOVE_X \in Nat \ {0} /\ ENEMY_MOVE_Y \in Nat \ {0}
  /\ START_LIVES \in Nat \ {0} /\ MAX_WAVE \in Nat \ {0} /\ SCORE_RADIX \in Nat \ {0}
BY SizeAssumption

LEMMA EnemiesNonEmpty == ENEMY_COUNT \in Nat \ {0} /\ 0 \in Enemies
<1>1. ENEMY_COUNT \in Nat \ {0}
  BY ConstantTypes DEF ENEMY_COUNT
<1>2. QED
  BY <1>1 DEF Enemies

LEMMA RowColType ==
  ASSUME NEW i \in Enemies
  PROVE  /\ Row(i) \in 0..(ENEMY_ROWS - 1)
         /\ Col(i) \in 0..(ENEMY_COLS - 1)
BY ConstantTypes, GridIndex DEF Row, Col, Enemies, ENEMY_COUNT

\* No formation moves an enemy by more than the room the assumptions leave.
LEMMA OffsetRange ==
  ASSUME TypeOK, NEW i \in Enemies, NEW sw \in SwitchSettings
  PROVE  /\ OffsetX(i, sw) \in -14..14
         /\ OffsetY(i, sw) \in -4..12
<1>1. sw.formation \in 0..3
  BY DEF SwitchSettings
<1>2. Row(i) \in 0..3 /\ Col(i) \in 0..7
  BY RowColType, ConstantTypes, FormationAssumption
<1>3. OffsetX(i, sw) \in -14..14
  BY <1>1, <1>2 DEF OffsetX
<1>4. OffsetY(i, sw) \in -4..12
  BY <1>1, <1>2 DEF OffsetY
<1>5. QED
  BY <1>3, <1>4

\* The room of the march is room for every enemy under every switch setting.
LEMMA FormationInside ==
  ASSUME TypeOK, FormationRoom, state # "TITLE",
         NEW i \in Enemies, NEW sw \in SwitchSettings
  PROVE  /\ enemy_x_pos(i, sw) \in 0..(SCREEN_W - ENEMY_W)
         /\ enemy_y_pos(i, sw) \in 0..(SCREEN_H - ENEMY_H)
<1>1. OffsetX(i, sw) \in -14..14 /\ OffsetY(i, sw) \in -4..12
  BY OffsetRange
<1>2. Row(i) * ENEMY_Y_STEP \in 0..((ENEMY_ROWS - 1) * ENEMY_Y_STEP)
  BY RowColType, ConstantTypes, TimesMonotone
<1>3. Col(i) * ENEMY_X_STEP \in 0..((ENEMY_COLS - 1) * ENEMY_X_STEP)
  BY RowColType, ConstantTypes, TimesMonotone
<1>4. enemy_x_pos(i, sw) \in 0..(SCREEN_W - ENEMY_W)
  <2> DEFINE c == Col(i) * ENEMY_X_STEP
             last == (ENEMY_COLS - 1) * ENEMY_X_STEP
  <2>1. c \in Int /\ last \in Int /\ 0 <= c /\ c <= last
    BY <1>3, ConstantTypes
  <2>2. enemy_base_x \in Int /\ enemy_base_x >= 14 /\ enemy_base_x + last + ENEMY_W + 14 <= SCREEN_W
    BY DEF TypeOK, FormationRoom
  <2> HIDE DEF c, last
  <2>3. enemy_base_x + c + OffsetX(i, sw) \in 0..(SCREEN_W - ENEMY_W)
    BY <1>1, <2>1, <2>2, ConstantTypes
  <2>4. QED
    BY <2>3 DEF enemy_x_pos, c
<1>5. enemy_y_pos(i, sw) \in 0..(SCREEN_H - ENEMY_H)
  <2> DEFINE r == Row(i) * ENEMY_Y_STEP
             last == (ENEMY_ROWS - 1) * ENEMY_Y_STEP
  <2>1. r \in Int /\ last \in Int /\ 0 <= r /\ r <= last
    BY <1>2, ConstantTypes
  <2>2. /\ enemy_base_y \in Int /\ enemy_base_y >= 4
        /\ enemy_base_y + last + ENEMY_H < PLAYER_MAX_Y + ENEMY_MOVE_Y
    BY DEF TypeOK, FormationRoom, FormationBottom
  <2>3. PLAYER_MAX_Y + ENEMY_MOVE_Y + 11 <= SCREEN_H
    BY FormationAssumption
  <2> HIDE DEF r, last
  <2>4. enemy_base_y + r + OffsetY(i, sw) \in 0..(SCREEN_H - ENEMY_H)
    BY <1>1, <2>1, <2>2, <2>3, ConstantTypes
  <2>5. QED
    BY <2>4 DEF enemy_y_pos, r
<1>6. QED
  BY <1>4, <1>5

\* FormationOnScreen is the room, seen from each enemy.
LEMMA RoomImpliesOnScreen == TypeOK /\ FormationRoom => FormationOnScreen
<1>1. SUFFICES ASSUME TypeOK, FormationRoom, state # "TITLE",
                      NEW i \in Enemies, NEW sw \in Switches
               PROVE  /\ enemy_x_pos(i, sw) >= 0 /\ enemy_x_pos(i, sw) + ENEMY_W <= SCREEN_W
                      /\ enemy_y_pos(i, sw) >= 0 /\ enemy_y_pos(i, sw) + ENEMY_H <= SCREEN_H
  BY DEF FormationOnScreen
<1>2. sw \in SwitchSettings
  BY SizeAssumption
<1>3. /\ enemy_x_pos(i, sw) \in 0..(SCREEN_W - ENEMY_W)
      /\ enemy_y_pos(i, sw) \in 0..(SCREEN_H - ENEMY_H)
  BY <1>1, <1>2, FormationInside
<1>4. QED
  BY <1>3, ConstantTypes

\* The round robin finds a living enemy from any position of the cursor.
LEMMA CandidateType ==
  ASSUME TypeOK, enemy_alive # {}
  PROVE  enemy_fire_candidate_index \in Enemies
<1> DEFINE S == {i \in Enemies : AheadOfCursor(i) \in enemy_alive}
<1>1. PICK e \in enemy_alive : e \in Enemies
  BY DEF TypeOK
<1> DEFINE d == IF e >= attack_cursor THEN e - attack_cursor
                ELSE e - attack_cursor + ENEMY_COUNT
<1>2. attack_cursor \in 0..ENEMY_COUNT /\ ENEMY_COUNT \in Nat \ {0}
  BY EnemiesNonEmpty DEF TypeOK
<1>3. d \in Enemies
  BY <1>1, <1>2 DEF Enemies
<1>4. (attack_cursor + d) % ENEMY_COUNT = e
  <2>1. e % ENEMY_COUNT = e
    BY <1>1, <1>2 DEF Enemies
  <2>2. (e + ENEMY_COUNT) % ENEMY_COUNT = e
    BY <1>1, <1>2 DEF Enemies
  <2>3. attack_cursor + d = e \/ attack_cursor + d = e + ENEMY_COUNT
    BY <1>1, <1>2 DEF Enemies
  <2>4. QED
    BY <2>1, <2>2, <2>3
<1>5. d \in S
  BY <1>1, <1>3, <1>4 DEF AheadOfCursor
<1>6. S \subseteq Nat
  BY <1>2 DEF Enemies
<1>7. Min(S) \in S
  BY <1>5, <1>6, MinInSet
<1>8. AheadOfCursor(Min(S)) \in Enemies
  BY <1>7 DEF TypeOK
<1>9. QED
  BY <1>8 DEF enemy_fire_candidate_index

-----------------------------------------------------------------------------
(***************************************************************************)
(* One lemma for each group of registers a tick in play assigns             *)
(***************************************************************************)
\* The ship stays on its strip of the screen.
LEMMA ShipStep ==
  ASSUME IInv, state = "PLAY", NEW key
  PROVE  /\ player_x_next(key) \in 0..(SCREEN_W - PLAYER_W)
         /\ player_y_next(key) \in (PLAYER_MIN_Y + 1)..(PLAYER_MAX_Y - 1)
<1>1. player_x \in 0..(SCREEN_W - PLAYER_W)
  BY DEF IInv, TypeOK
<1>2. player_y \in (PLAYER_MIN_Y + 1)..(PLAYER_MAX_Y - 1)
  BY ConstantTypes DEF IInv, TypeOK, ShipAboveFloor
<1>3. player_x_next(key) \in 0..(SCREEN_W - PLAYER_W)
  BY <1>1, ConstantTypes DEF player_x_next
<1>4. player_y_next(key) \in (PLAYER_MIN_Y + 1)..(PLAYER_MAX_Y - 1)
  BY <1>2, ConstantTypes DEF player_y_next
<1>5. QED
  BY <1>3, <1>4

\* A shot of the ship appears and climbs without leaving the screen.
LEMMA PlayerShotsStep ==
  ASSUME IInv, state = "PLAY", NEW key, NEW sw
  PROVE  player_bullet_next(key, sw) \in [PlayerSlots -> PlayerBullets \cup {NoBullet}]
<1>1. PlayerShot \in PlayerBullets
  <2>1. player_x \in 0..(SCREEN_W - PLAYER_W)
    BY DEF IInv, TypeOK
  <2>2. player_y \in (PLAYER_MIN_Y + 1)..(PLAYER_MAX_Y - 1)
    BY ConstantTypes DEF IInv, TypeOK, ShipAboveFloor
  <2>3. player_x + PLAYER_W \div 2 - PLAYER_BULLET_W \div 2 \in 0..SCREEN_W
    BY <2>1, ConstantTypes, ShipAssumption
  <2>4. player_y - PLAYER_BULLET_H \in 0..SCREEN_H
    BY <2>2, ConstantTypes, ShipAssumption, FormationAssumption
  <2>5. QED
    BY <2>3, <2>4 DEF PlayerShot, PlayerBullets
<1>2. ASSUME NEW p \in PlayerBullets PROVE Climb(p) \in PlayerBullets \cup {NoBullet}
  <2>1. p.y \in 0..SCREEN_H /\ p.x \in 0..SCREEN_W
    BY DEF PlayerBullets
  <2>2. CASE p.y <= PLAYER_BULLET_TOP
    BY <2>2 DEF Climb
  <2>3. CASE p.y > PLAYER_BULLET_TOP
    <3>1. p.y - PLAYER_BULLET_RISE \in 0..SCREEN_H
      BY <2>1, <2>3, ConstantTypes, ShipAssumption
    <3>2. Climb(p) = [p EXCEPT !.y = p.y - PLAYER_BULLET_RISE]
      BY <2>1, <2>3, ConstantTypes DEF Climb
    <3>3. QED
      BY <3>1, <3>2 DEF PlayerBullets
  <2>4. QED
    BY <2>1, <2>2, <2>3, ConstantTypes
<1>3. ASSUME NEW b \in PlayerSlots, player_bullet[b] # NoBullet
      PROVE  player_bullet[b] \in PlayerBullets
  BY <1>3 DEF IInv, TypeOK
<1>4. QED
  BY <1>1, <1>2, <1>3 DEF player_bullet_next

\* The level never passes its cap, so the periods stay within their timers.
LEMMA LevelRange ==
  ASSUME TypeOK, NEW sw \in SwitchSettings
  PROVE  /\ difficulty_level(sw) \in 0..MAX_LEVEL
         /\ enemy_move_period(difficulty_level(sw)) \in 1..MOVE_PERIOD
         /\ enemy_fire_period(difficulty_level(sw)) \in 0..FIRE_PERIOD
         /\ enemy_bullet_speed(difficulty_level(sw)) \in 0..ENEMY_BULLET_H
<1> DEFINE level == difficulty_level(sw)
<1>1. level \in 0..MAX_LEVEL
  BY ConstantTypes DEF TypeOK, difficulty_level, capped_wave, SwitchSettings
<1>2. capped_wave(level) = level
  BY <1>1, ConstantTypes DEF capped_wave
<1> HIDE DEF level
<1>3. enemy_move_period(level) \in 1..MOVE_PERIOD
  BY <1>1, <1>2, ConstantTypes, PeriodAssumption DEF enemy_move_period
<1>4. level * FIRE_SPEEDUP \in Nat /\ level * FIRE_SPEEDUP <= MAX_LEVEL * FIRE_SPEEDUP
  BY <1>1, ConstantTypes, TimesMonotone
<1>5. enemy_fire_period(level) \in 0..FIRE_PERIOD
  BY <1>1, <1>2, <1>4, ConstantTypes, PeriodAssumption DEF enemy_fire_period
<1>6. enemy_bullet_speed(level) \in 0..ENEMY_BULLET_H
  BY <1>1, <1>2, ConstantTypes, FormationAssumption DEF enemy_bullet_speed
<1>7. QED
  BY <1>1, <1>3, <1>5, <1>6 DEF level

\* An enemy's shot appears and falls without leaving the screen.
LEMMA EnemyShotsStep ==
  ASSUME IInv, state = "PLAY", NEW sw \in SwitchSettings
  PROVE  enemy_bullet_next(sw) \in [EnemySlots -> EnemyBullets \cup {NoBullet}]
<1>1. ASSUME EnemyFires(sw) PROVE EnemyShot(sw) \in EnemyBullets
  <2>1. enemy_fire_candidate_index \in Enemies
    BY <1>1, CandidateType DEF EnemyFires, IInv
  <2>2. /\ enemy_x_pos(enemy_fire_candidate_index, sw) \in 0..(SCREEN_W - ENEMY_W)
        /\ enemy_y_pos(enemy_fire_candidate_index, sw) \in 0..(SCREEN_H - ENEMY_H)
    BY <2>1, FormationInside DEF IInv
  <2>3. QED
    BY <2>2, ConstantTypes DEF EnemyShot, EnemyBullets
<1>2. ASSUME NEW p \in EnemyBullets PROVE Fall(p, sw) \in EnemyBullets \cup {NoBullet}
  <2> DEFINE v == enemy_bullet_speed(difficulty_level(sw))
  <2>1. v \in 0..ENEMY_BULLET_H
    BY LevelRange DEF IInv
  <2>2. p.y \in 0..SCREEN_H /\ p.x \in 0..SCREEN_W
    BY DEF EnemyBullets
  <2>3. CASE p.y >= SCREEN_H - ENEMY_BULLET_H
    BY <2>3 DEF Fall
  <2>4. CASE p.y < SCREEN_H - ENEMY_BULLET_H
    <3>1. Fall(p, sw) = [p EXCEPT !.y = p.y + v]
      BY <2>2, <2>4, ConstantTypes DEF Fall
    <3> HIDE DEF v
    <3>2. p.y + v \in 0..SCREEN_H
      BY <2>1, <2>2, <2>4, ConstantTypes
    <3>3. QED
      BY <3>1, <3>2 DEF EnemyBullets
  <2>5. QED
    BY <2>2, <2>3, <2>4, ConstantTypes
<1>3. ASSUME NEW b \in EnemySlots, enemy_bullet[b] # NoBullet
      PROVE  enemy_bullet[b] \in EnemyBullets
  BY <1>3 DEF IInv, TypeOK
<1>4. QED
  BY <1>1, <1>2, <1>3 DEF enemy_bullet_next

\* A tick kills at most one enemy and never leaves an empty fleet.
LEMMA FleetStep ==
  ASSUME IInv, state = "PLAY", NEW sw
  PROVE  enemy_alive_next(sw) \subseteq Enemies /\ enemy_alive_next(sw) # {}
<1>1. enemy_alive \subseteq Enemies /\ enemy_alive # {}
  BY DEF IInv, TypeOK, GameAlive
<1>2. CASE WaveCleared(sw)
  BY <1>2, EnemiesNonEmpty DEF enemy_alive_next
<1>3. CASE ~WaveCleared(sw) /\ bullet_hit_enemy(sw)
  <2>1. ~(Cardinality(enemy_alive) <= 1)
    BY <1>3 DEF WaveCleared
  <2>2. ASSUME enemy_alive \ {bullet_hit_index(sw)} = {} PROVE FALSE
    <3>1. enemy_alive = {bullet_hit_index(sw)}
      BY <1>1, <2>2
    <3>2. Cardinality(enemy_alive) = 1
      BY <3>1, FS_Singleton
    <3>3. QED
      BY <2>1, <3>2
  <2>3. QED
    BY <1>1, <1>3, <2>2 DEF enemy_alive_next
<1>4. CASE ~WaveCleared(sw) /\ ~bullet_hit_enemy(sw)
  BY <1>1, <1>4 DEF enemy_alive_next
<1>5. QED
  BY <1>2, <1>3, <1>4

\* Every digit of the score stays a digit.
LEMMA ScoreStep ==
  ASSUME TypeOK, NEW sw, CountKill(sw)
  PROVE  score_thousands' \in Digits /\ score_hundreds' \in Digits /\ score_tens' \in Digits
BY ConstantTypes DEF TypeOK, Digits, CountKill, score

\* The march keeps its room.  It drops only when the move timer has run, so
\* the formation was still above the lowest ship.
LEMMA FormationStep ==
  ASSUME IInv, state = "PLAY", NEW sw \in SwitchSettings,
         MoveFormation(sw), LoseLife,
         move_timer' = IF MarchDue(sw) THEN 0 ELSE move_timer + 1
  PROVE  /\ FormationRoom'
         /\ enemy_base_x' \in 0..SCREEN_W
         /\ enemy_base_y' \in 0..SCREEN_H
         /\ enemy_dir_right' \in BOOLEAN
         /\ move_timer' \in 0..MOVE_PERIOD
<1> DEFINE width == (ENEMY_COLS - 1) * ENEMY_X_STEP
           height == (ENEMY_ROWS - 1) * ENEMY_Y_STEP
<1>1. width \in Nat /\ height \in Nat
  BY ConstantTypes
<1>2. move_timer \in 0..MOVE_PERIOD /\ enemy_base_x \in Int /\ enemy_base_y \in Int
      /\ enemy_dir_right \in BOOLEAN
  BY DEF IInv, TypeOK
<1>3. enemy_move_period(difficulty_level(sw)) \in 1..MOVE_PERIOD
  BY LevelRange DEF IInv
<1>4. MarchDue(sw) => move_timer # 0
  BY <1>2, <1>3 DEF MarchDue
<1>5. move_timer' \in 0..MOVE_PERIOD
  BY <1>2, <1>3, ConstantTypes DEF MarchDue
<1>6. /\ enemy_base_x >= 14
      /\ enemy_base_x + width + ENEMY_W + 14 <= SCREEN_W
      /\ enemy_base_y >= 4
      /\ enemy_base_y + height + ENEMY_H < PLAYER_MAX_Y + ENEMY_MOVE_Y
      /\ move_timer # 0 => enemy_base_y + height + ENEMY_H < PLAYER_MAX_Y
  BY DEF IInv, FormationRoom, FormationBottom
<1>7. enemy_wave_start_y(wave) \in Nat
      /\ enemy_wave_start_y(wave) >= 4
      /\ enemy_wave_start_y(wave) + height + ENEMY_H < PLAYER_MAX_Y
  <2>1. capped_wave(wave) \in 0..MAX_LEVEL
    BY ConstantTypes DEF IInv, TypeOK, capped_wave
  <2>2. /\ WAVE_START_Y + 4 * MAX_LEVEL + height + ENEMY_H < PLAYER_MAX_Y
        /\ WAVE_START_Y >= 4
    BY FormationAssumption
  <2> HIDE DEF height
  <2>3. QED
    BY <1>1, <2>1, <2>2, ConstantTypes DEF enemy_wave_start_y
<1>8. /\ ENEMY_START_X >= 14
      /\ ENEMY_START_X + width + ENEMY_W + 14 <= SCREEN_W
      /\ LEFT_EDGE - ENEMY_MOVE_X >= 13
      /\ RIGHT_EDGE + 13 <= SCREEN_W
      /\ PLAYER_MAX_Y + ENEMY_MOVE_Y + 11 <= SCREEN_H
  BY FormationAssumption
<1>9. AtEdge <=> IF enemy_dir_right
                 THEN enemy_base_x + width + ENEMY_W + ENEMY_MOVE_X >= RIGHT_EDGE
                 ELSE enemy_base_x <= LEFT_EDGE
  BY DEF AtEdge
<1>10. Invaded <=> enemy_base_y + height + ENEMY_H >= player_y
  BY DEF Invaded
<1>11. player_y \in 0..(PLAYER_MAX_Y - 1)
  BY DEF IInv, TypeOK
<1>12. ~Invaded => enemy_base_y + height + ENEMY_H < PLAYER_MAX_Y
  BY <1>1, <1>2, <1>10, <1>11, ConstantTypes
<1> HIDE DEF width, height
<1>13. /\ enemy_base_x' \in 14..SCREEN_W
       /\ enemy_base_x' + width + ENEMY_W + 14 <= SCREEN_W
  BY <1>1, <1>2, <1>6, <1>8, <1>9, ConstantTypes DEF MoveFormation
<1>14. /\ enemy_base_y' \in 4..SCREEN_H
       /\ enemy_base_y' + height + ENEMY_H < PLAYER_MAX_Y + ENEMY_MOVE_Y
  BY <1>1, <1>2, <1>4, <1>6, <1>7, <1>8, ConstantTypes DEF MoveFormation
<1>15. ASSUME state' # "GAME_OVER", move_timer' # 0
       PROVE  enemy_base_y' + height + ENEMY_H < PLAYER_MAX_Y
  <2>1. ~Invaded
    BY <1>15 DEF LoseLife
  <2>2. ~MarchDue(sw)
    BY <1>15
  <2>3. QED
    BY <1>1, <1>2, <1>7, <1>12, <2>1, <2>2, ConstantTypes DEF MoveFormation
<1>16. enemy_dir_right' \in BOOLEAN
  BY <1>2, Zenon DEF MoveFormation, WaveCleared, bullet_hit_enemy
<1>17. FormationRoom'
  <2>1. FormationBottom' = enemy_base_y' + height + ENEMY_H
    BY DEF FormationBottom, height
  <2>2. enemy_base_x' >= 14 /\ enemy_base_y' >= 4
    BY <1>13, <1>14, ConstantTypes
  <2>3. enemy_base_x' + (ENEMY_COLS - 1) * ENEMY_X_STEP + ENEMY_W + 14 <= SCREEN_W
    BY <1>13 DEF width
  <2>4. FormationBottom' < PLAYER_MAX_Y + ENEMY_MOVE_Y
    BY <1>14, <2>1
  <2>5. state' # "GAME_OVER" /\ move_timer' # 0 => FormationBottom' < PLAYER_MAX_Y
    BY <1>15, <2>1
  <2>6. QED
    BY <2>2, <2>3, <2>4, <2>5 DEF FormationRoom
<1>18. QED
  BY <1>5, <1>13, <1>14, <1>16, <1>17, ConstantTypes

\* A tick in play leaves a life to a game that goes on, and none to one over.
LEMMA LifeStep ==
  ASSUME IInv, state = "PLAY", LoseLife
  PROVE  /\ state' \in {"PLAY", "LIFE_LOST", "GAME_OVER"}
         /\ lives' \in 0..START_LIVES
         /\ respawn_timer' \in 0..RESPAWN_TICKS
         /\ state' # "GAME_OVER" => lives' > 0
         /\ state' = "GAME_OVER" => lives' = 0
<1>1. lives \in 1..START_LIVES /\ respawn_timer \in 0..RESPAWN_TICKS
  BY ConstantTypes DEF IInv, TypeOK, GameAlive
<1>2. QED
  BY <1>1, ConstantTypes DEF LoseLife

-----------------------------------------------------------------------------
(***************************************************************************)
(* The inductive step, one lemma per action                                 *)
(***************************************************************************)
LEMMA SetUpGameIInv ==
  ASSUME SetUpGame, state' \in {"TITLE", "PLAY"}, fire_prev' \in BOOLEAN,
         fire_cooldown' \in 0..FIRE_COOLDOWN, respawn_timer' \in 0..RESPAWN_TICKS
  PROVE  IInv'
<1>1. PLAYER_START_X \in 0..(SCREEN_W - PLAYER_W)
      /\ PLAYER_START_Y \in (PLAYER_MIN_Y + 1)..(PLAYER_MAX_Y - 1)
  BY ConstantTypes, ShipAssumption
<1> DEFINE width == (ENEMY_COLS - 1) * ENEMY_X_STEP
           height == (ENEMY_ROWS - 1) * ENEMY_Y_STEP
<1>2. width \in Nat /\ height \in Nat
  BY ConstantTypes
<1>3. /\ ENEMY_START_X >= 14
      /\ ENEMY_START_X + width + ENEMY_W + 14 <= SCREEN_W
      /\ ENEMY_START_Y >= 4
      /\ ENEMY_START_Y + height + ENEMY_H < PLAYER_MAX_Y
      /\ PLAYER_MAX_Y + ENEMY_MOVE_Y + 11 <= SCREEN_H
  BY FormationAssumption
<1>4. FormationRoom'
  BY <1>2, <1>3, ConstantTypes DEF FormationRoom, FormationBottom, SetUpGame
<1> HIDE DEF width, height
<1>5. ENEMY_START_X \in 0..SCREEN_W /\ ENEMY_START_Y \in 0..SCREEN_H
  BY <1>2, <1>3, ConstantTypes
<1>6. player_bullet' \in [PlayerSlots -> PlayerBullets \cup {NoBullet}]
      /\ enemy_bullet' \in [EnemySlots -> EnemyBullets \cup {NoBullet}]
  BY DEF SetUpGame, SetUpShip, NoPlayerBullets, NoEnemyBullets
<1>7. TypeOK'
  BY <1>1, <1>5, <1>6, ConstantTypes, EnemiesNonEmpty
     DEF TypeOK, SetUpGame, SetUpShip, GameStates, Digits
<1>8. GameAlive'
  BY ConstantTypes, EnemiesNonEmpty DEF GameAlive, SetUpGame
<1>9. ShipAboveFloor'
  BY <1>1, ConstantTypes DEF ShipAboveFloor, SetUpGame, SetUpShip
<1>10. QED
  BY <1>4, <1>7, <1>8, <1>9 DEF IInv

LEMMA CoolDownType ==
  ASSUME TypeOK, NEW key, SampleFireKey(key)
  PROVE  /\ CoolDown => fire_cooldown' \in 0..FIRE_COOLDOWN
         /\ fire_prev' \in BOOLEAN
BY ConstantTypes DEF TypeOK, CoolDown, SampleFireKey, key_fire

LEMMA PlayTickIInv ==
  ASSUME IInv, NEW key \in Keys, NEW sw \in SwitchSettings, PlayTick(key, sw)
  PROVE  IInv'
<1>1. state = "PLAY" /\ TypeOK
  BY DEF PlayTick, IInv
<1>2. /\ player_x' \in 0..(SCREEN_W - PLAYER_W)
      /\ player_y' \in (PLAYER_MIN_Y + 1)..(PLAYER_MAX_Y - 1)
  BY <1>1, ShipStep DEF PlayTick
<1>3. player_bullet' \in [PlayerSlots -> PlayerBullets \cup {NoBullet}]
  BY <1>1, PlayerShotsStep DEF PlayTick
<1>4. enemy_bullet' \in [EnemySlots -> EnemyBullets \cup {NoBullet}]
  BY <1>1, EnemyShotsStep DEF PlayTick
<1>5. enemy_alive' \subseteq Enemies /\ enemy_alive' # {}
  BY <1>1, FleetStep DEF PlayTick
<1>6. score_thousands' \in Digits /\ score_hundreds' \in Digits /\ score_tens' \in Digits
  BY <1>1, ScoreStep DEF PlayTick
<1>7. /\ FormationRoom'
      /\ enemy_base_x' \in 0..SCREEN_W
      /\ enemy_base_y' \in 0..SCREEN_H
      /\ enemy_dir_right' \in BOOLEAN
      /\ move_timer' \in 0..MOVE_PERIOD
  BY <1>1, FormationStep DEF PlayTick
<1>8. /\ state' \in {"PLAY", "LIFE_LOST", "GAME_OVER"}
      /\ lives' \in 0..START_LIVES
      /\ respawn_timer' \in 0..RESPAWN_TICKS
      /\ state' # "GAME_OVER" => lives' > 0
      /\ state' = "GAME_OVER" => lives' = 0
  BY <1>1, LifeStep DEF PlayTick
<1>9. wave' \in 1..MAX_WAVE
  <2>1. wave \in 1..MAX_WAVE
    BY <1>1, ConstantTypes DEF IInv, GameAlive, TypeOK
  <2>2. QED
    BY <2>1, ConstantTypes DEF PlayTick
<1>10. enemy_fire_timer' \in 0..FIRE_PERIOD
  <2>1. enemy_fire_period(difficulty_level(sw)) \in 0..FIRE_PERIOD
    BY <1>1, LevelRange
  <2>2. enemy_fire_timer \in 0..FIRE_PERIOD
    BY <1>1 DEF TypeOK
  <2>3. QED
    BY <2>1, <2>2, ConstantTypes DEF PlayTick, EnemyFireDue
<1>11. attack_cursor' \in 0..ENEMY_COUNT
  <2>1. CASE EnemyFires(sw)
    <3>1. enemy_fire_candidate_index \in Enemies
      BY <1>1, <2>1, CandidateType DEF EnemyFires
    <3>2. QED
      BY <2>1, <3>1, EnemiesNonEmpty DEF PlayTick, Enemies
  <2>2. CASE ~EnemyFires(sw)
    BY <1>1, <2>2 DEF PlayTick, TypeOK
  <2>3. QED
    BY <2>1, <2>2
<1>12. fire_cooldown' \in 0..FIRE_COOLDOWN /\ fire_prev' \in BOOLEAN
  BY <1>1, CoolDownType, ConstantTypes DEF PlayTick
<1>13. player_y' \in 0..(PLAYER_MAX_Y - 1) /\ wave' \in 0..MAX_WAVE /\ state' \in GameStates
  BY <1>2, <1>8, <1>9, ConstantTypes DEF GameStates
<1>14. TypeOK'
  BY <1>2, <1>3, <1>4, <1>5, <1>6, <1>7, <1>8, <1>10, <1>11, <1>12, <1>13, Zenon DEF TypeOK
<1>15. GameAlive'
  BY <1>5, <1>8, <1>9 DEF GameAlive
<1>16. ShipAboveFloor'
  BY <1>2, ConstantTypes DEF ShipAboveFloor
<1>17. QED
  BY <1>7, <1>14, <1>15, <1>16 DEF IInv

LEMMA LifeLostTickIInv ==
  ASSUME IInv, NEW key \in Keys, LifeLostTick(key)
  PROVE  IInv'
<1>1. state = "LIFE_LOST" /\ state' \in {"LIFE_LOST", "PLAY"} /\ TypeOK
  BY DEF LifeLostTick, IInv
<1>2. fire_cooldown' \in 0..FIRE_COOLDOWN /\ fire_prev' \in BOOLEAN
  BY <1>1, CoolDownType DEF LifeLostTick
<1>3. respawn_timer' \in 0..RESPAWN_TICKS
  BY <1>1, ConstantTypes DEF LifeLostTick, TypeOK
<1>4. /\ player_x' \in 0..(SCREEN_W - PLAYER_W)
      /\ player_y' \in (PLAYER_MIN_Y + 1)..(PLAYER_MAX_Y - 1)
  BY ConstantTypes, ShipAssumption DEF LifeLostTick, SetUpShip
<1>5. player_bullet' \in [PlayerSlots -> PlayerBullets \cup {NoBullet}]
      /\ enemy_bullet' \in [EnemySlots -> EnemyBullets \cup {NoBullet}]
  BY DEF LifeLostTick, SetUpShip, NoPlayerBullets, NoEnemyBullets
<1>6. UNCHANGED <<enemy_alive, formation, lives, wave, score,
                  move_timer, enemy_fire_timer, attack_cursor>>
  BY DEF LifeLostTick
<1>7. TypeOK'
  BY <1>1, <1>2, <1>3, <1>4, <1>5, <1>6, ConstantTypes
     DEF TypeOK, GameStates, formation, score
<1>8. GameAlive'
  BY <1>1, <1>6 DEF IInv, GameAlive
<1>9. FormationRoom'
  BY <1>1, <1>6 DEF IInv, FormationRoom, FormationBottom, formation
<1>10. ShipAboveFloor'
  BY <1>4, ConstantTypes DEF ShipAboveFloor
<1>11. QED
  BY <1>7, <1>8, <1>9, <1>10 DEF IInv

LEMMA GameOverTickIInv ==
  ASSUME IInv, NEW key \in Keys, GameOverTick(key)
  PROVE  IInv'
<1>1. state = "GAME_OVER" /\ TypeOK
  BY DEF GameOverTick, IInv
<1>2. fire_cooldown' \in 0..FIRE_COOLDOWN /\ fire_prev' \in BOOLEAN
  BY <1>1, CoolDownType DEF GameOverTick
<1>3. player_bullet' \in [PlayerSlots -> PlayerBullets \cup {NoBullet}]
      /\ enemy_bullet' \in [EnemySlots -> EnemyBullets \cup {NoBullet}]
  BY DEF GameOverTick, NoPlayerBullets, NoEnemyBullets
<1>4. UNCHANGED <<state, ship, enemy_alive, formation, lives, wave, score,
                  move_timer, enemy_fire_timer, respawn_timer, attack_cursor>>
  BY DEF GameOverTick
<1>5. TypeOK'
  BY <1>1, <1>2, <1>3, <1>4 DEF TypeOK, ship, formation, score
<1>6. QED
  BY <1>4, <1>5 DEF IInv, GameAlive, FormationRoom, FormationBottom, ShipAboveFloor,
                    ship, formation

-----------------------------------------------------------------------------
(***************************************************************************)
(* The theorems                                                             *)
(***************************************************************************)
\* The invariant holds in every state of every run on every grid.
THEOREM GameInvariant == Spec => []IInv
<1>1. Init => IInv
  <2>1. SUFFICES ASSUME Init PROVE IInv
    OBVIOUS
  <2>2. player_bullet \in [PlayerSlots -> PlayerBullets \cup {NoBullet}]
        /\ enemy_bullet \in [EnemySlots -> EnemyBullets \cup {NoBullet}]
    BY <2>1 DEF Init, NoPlayerBullets, NoEnemyBullets
  <2>3. 0 \in 0..(SCREEN_W - PLAYER_W) /\ 0 \in 0..(PLAYER_MAX_Y - 1)
    BY ConstantTypes, ShipAssumption
  <2>4. TypeOK
    <3>1. \A n \in Nat : 0 \in 0..n
      OBVIOUS
    <3>2. ENEMY_COUNT \in Nat /\ 0 \in Digits
      BY EnemiesNonEmpty, ConstantTypes DEF Digits
    <3>3. /\ state \in GameStates /\ enemy_alive \subseteq Enemies
          /\ enemy_dir_right \in BOOLEAN /\ fire_prev \in BOOLEAN
      BY <2>1 DEF Init, GameStates
    <3>4. QED
      BY <2>1, <2>2, <2>3, <3>1, <3>2, <3>3, ConstantTypes, Zenon DEF Init, TypeOK
  <2>5. QED
    BY <2>1, <2>4 DEF Init, IInv, GameAlive, FormationRoom, ShipAboveFloor
<1>2. IInv /\ [Next]_vars => IInv'
  <2>1. SUFFICES ASSUME IInv, [Next]_vars PROVE IInv'
    OBVIOUS
  <2>2. ASSUME NEW key \in Keys, TitleTick(key) PROVE IInv'
    <3>1. fire_cooldown' \in 0..FIRE_COOLDOWN /\ fire_prev' \in BOOLEAN
      BY <2>1, <2>2, CoolDownType DEF TitleTick, IInv
    <3>2. respawn_timer' \in 0..RESPAWN_TICKS
      BY <2>1, <2>2 DEF TitleTick, IInv, TypeOK
    <3>3. QED
      BY <2>2, <3>1, <3>2, SetUpGameIInv DEF TitleTick
  <2>3. ASSUME NEW key \in Keys, NEW sw \in Switches, PlayTick(key, sw) PROVE IInv'
    BY <2>1, <2>3, SizeAssumption, PlayTickIInv
  <2>4. ASSUME NEW key \in Keys, LifeLostTick(key) PROVE IInv'
    BY <2>1, <2>4, LifeLostTickIInv
  <2>5. ASSUME NEW key \in Keys, GameOverTick(key) PROVE IInv'
    BY <2>1, <2>5, GameOverTickIInv
  <2>6. ASSUME NEW key \in Keys, RestartTick(key) PROVE IInv'
    <3>1. fire_prev' \in BOOLEAN
      BY <2>1, <2>6, CoolDownType DEF RestartTick, IInv
    <3>2. QED
      BY <2>6, <3>1, SetUpGameIInv, ConstantTypes DEF RestartTick
  <2>7. CASE Reset
    <3>1. /\ SetUpGame /\ state' \in {"TITLE", "PLAY"} /\ fire_prev' \in BOOLEAN
          /\ fire_cooldown' = 0 /\ respawn_timer' = 0
      BY <2>7 DEF Reset
    <3>2. 0 \in 0..FIRE_COOLDOWN /\ 0 \in 0..RESPAWN_TICKS
      BY ConstantTypes
    <3>3. QED
      BY <3>1, <3>2, SetUpGameIInv
  <2>8. CASE UNCHANGED vars
    BY <2>1, <2>8 DEF vars, ship, formation, score, timers, IInv, TypeOK, GameAlive,
       FormationRoom, FormationBottom, ShipAboveFloor
  <2>9. QED
    BY <2>1, <2>2, <2>3, <2>4, <2>5, <2>6, <2>7, <2>8 DEF Next, Tick
<1>3. QED
  BY <1>1, <1>2, PTL DEF Spec

\* No register ever leaves the range its width holds.
THEOREM TypeCorrect == Spec => []TypeOK
<1>1. IInv => TypeOK
  BY DEF IInv
<1>2. QED
  BY <1>1, GameInvariant, PTL

\* A game that goes on has a life and an enemy left; one that is over has none.
THEOREM LivesDecideGame == Spec => []GameAlive
<1>1. IInv => GameAlive
  BY DEF IInv
<1>2. QED
  BY <1>1, GameInvariant, PTL

\* The formation is always on the screen, whatever the switches select.
THEOREM FormationVisible == Spec => []FormationOnScreen
<1>1. IInv => FormationOnScreen
  BY RoomImpliesOnScreen DEF IInv
<1>2. QED
  BY <1>1, GameInvariant, PTL

-----------------------------------------------------------------------------
(***************************************************************************)
(* The game implements its rules                                            *)
(***************************************************************************)
\* Three digits never show more than the largest count.
LEMMA DigitsRange ==
  ASSUME NEW t \in Digits, NEW h \in Digits, NEW u \in Digits
  PROVE  (t * SCORE_RADIX + h) * SCORE_RADIX + u \in 0..TopScore
<1> DEFINE r == SCORE_RADIX
<1>1. r \in Nat \ {0} /\ t \in 0..(r - 1) /\ h \in 0..(r - 1) /\ u \in 0..(r - 1)
  BY ConstantTypes DEF Digits
<1> HIDE DEF r
<1> DEFINE high == t * r + h
<1>2. t * r \in 0..((r - 1) * r)
  BY <1>1, TimesMonotone
<1>3. (r - 1) * r = r * r - r /\ r * r \in Nat
  BY <1>1
<1>4. high \in 0..(r * r - 1)
  BY <1>1, <1>2, <1>3
<1> HIDE DEF high
<1>5. high * r \in 0..((r * r - 1) * r)
  BY <1>1, <1>3, <1>4, TimesMonotone
<1>6. (r * r - 1) * r = r * r * r - r /\ r * r * r \in Nat
  BY <1>1, <1>3
<1>7. high * r + u \in 0..(r * r * r - 1)
  BY <1>1, <1>5, <1>6
<1>8. QED
  BY <1>7 DEF TopScore, high, r

LEMMA ScoreRange == TypeOK => ScoreValue \in 0..TopScore
BY DigitsRange DEF TypeOK, ScoreValue

\* A kill scores one point, until every digit is at its last; then the
\* thousands stay.
LEMMA KillScores ==
  ASSUME TypeOK, NEW sw, CountKill(sw), bullet_hit_enemy(sw)
  PROVE  ScoreValue' = ScoreAfterKill
<1> DEFINE r == SCORE_RADIX
           t == score_thousands
           h == score_hundreds
           u == score_tens
<1>1. r \in Nat \ {0} /\ t \in 0..(r - 1) /\ h \in 0..(r - 1) /\ u \in 0..(r - 1)
  BY ConstantTypes DEF TypeOK, Digits
<1> SUFFICES \/ ScoreValue' = ScoreValue + 1
             \/ /\ ScoreValue = TopScore
                /\ ScoreValue' = (r - 1) * r * r
  <2>1. score_thousands' \in Digits /\ score_hundreds' \in Digits /\ score_tens' \in Digits
    BY ScoreStep
  <2>2. ScoreValue' \in 0..TopScore /\ ScoreValue \in 0..TopScore
    BY <2>1, ScoreRange, DigitsRange DEF ScoreValue
  <2>3. TopScore \in Int
    BY ConstantTypes DEF TopScore
  <2>4. QED
    BY <2>2, <2>3 DEF ScoreAfterKill
<1>2. \A a \in Int : (a + 1) * r = a * r + r
  BY <1>1
<1>3. CASE u # r - 1
  <2>1. t' = t /\ h' = h /\ u' = u + 1
    BY <1>1, <1>3 DEF CountKill
  <2>2. (t * r + h) * r \in Int
    BY <1>1
  <2>3. QED
    BY <1>1, <2>1, <2>2 DEF ScoreValue
<1>4. CASE u = r - 1 /\ h # r - 1
  <2>1. t' = t /\ h' = h + 1 /\ u' = 0
    BY <1>1, <1>4 DEF CountKill
  <2>2. (t * r + h) * r \in Int /\ (t * r + (h + 1)) * r = (t * r + h) * r + r
    BY <1>1
  <2>3. ScoreValue' = (t * r + (h + 1)) * r + 0
    BY <2>1 DEF ScoreValue
  <2>4. ScoreValue = (t * r + h) * r + (r - 1)
    BY <1>4 DEF ScoreValue
  <2>5. QED
    BY <1>1, <2>2, <2>3, <2>4
<1>5. CASE u = r - 1 /\ h = r - 1 /\ t # r - 1
  <2>1. t' = t + 1 /\ h' = 0 /\ u' = 0
    BY <1>1, <1>5 DEF CountKill
  <2>2. ScoreValue' = ((t + 1) * r + 0) * r + 0
    BY <2>1 DEF ScoreValue
  <2>3. ScoreValue = (t * r + (r - 1)) * r + (r - 1)
    BY <1>5 DEF ScoreValue
  <2>4. (t + 1) * r = t * r + r /\ t * r \in Int
    BY <1>1, <1>2
  <2> DEFINE a == t * r + (r - 1)
  <2>5. (a + 1) * r = a * r + r /\ a * r \in Int
    BY <1>1, <1>2, <2>4
  <2>6. ((t + 1) * r + 0) * r = (a + 1) * r
    BY <1>1, <2>4
  <2>7. QED
    BY <1>1, <2>2, <2>3, <2>5, <2>6
<1>6. CASE u = r - 1 /\ h = r - 1 /\ t = r - 1
  <2>1. ScoreValue = ((r - 1) * r + (r - 1)) * r + (r - 1)
    BY <1>6 DEF ScoreValue
  <2>2. (r - 1) * r + (r - 1) = r * r - 1 /\ r * r \in Nat
    BY <1>1
  <2>3. (r * r - 1) * r = r * r * r - r /\ r * r * r \in Nat
    BY <1>1, <2>2
  <2>4. ScoreValue = TopScore
    BY <1>1, <2>1, <2>2, <2>3 DEF TopScore
  <2>5. t' = r - 1 /\ h' = 0 /\ u' = 0
    BY <1>1, <1>6 DEF CountKill
  <2>6. ScoreValue' = ((r - 1) * r + 0) * r + 0
    BY <2>5 DEF ScoreValue
  <2>7. (r - 1) * r \in Int /\ (r - 1) * r * r \in Int
    BY <1>1
  <2>8. QED
    BY <2>4, <2>6, <2>7
<1>7. QED
  BY <1>3, <1>4, <1>5, <1>6

\* The enemy that a hit removes was alive.
LEMMA HitIndexAlive ==
  ASSUME TypeOK, NEW sw, bullet_hit_enemy(sw)
  PROVE  bullet_hit_index(sw) \in enemy_alive
<1>1. enemy_alive \subseteq Nat
  BY EnemiesNonEmpty DEF TypeOK, Enemies
<1>2. HitEnemies(sw) \in SUBSET Nat /\ HitEnemies(sw) # {} /\ HitEnemies(sw) \subseteq enemy_alive
  BY <1>1 DEF HitEnemies, bullet_hit_enemy
<1>3. QED
  BY <1>2, MinInSet DEF bullet_hit_index

\* The living enemies are finitely many, at least one in a game that goes on.
LEMMA FleetFinite ==
  ASSUME TypeOK
  PROVE  /\ IsFiniteSet(enemy_alive)
         /\ Cardinality(enemy_alive) \in Nat
         /\ Cardinality(Enemies) = ENEMY_COUNT
<1>1. ENEMY_COUNT \in Nat \ {0}
  BY EnemiesNonEmpty
<1>2. IsFiniteSet(Enemies) /\ Cardinality(Enemies) = ENEMY_COUNT
  BY <1>1, FS_Interval DEF Enemies
<1>3. IsFiniteSet(enemy_alive)
  BY <1>2, FS_Subset DEF TypeOK
<1>4. QED
  BY <1>2, <1>3, FS_CardinalityType

\* A wave is cleared exactly when the enemy hit is the only one left.
LEMMA ClearedMeansLast ==
  ASSUME TypeOK, NEW sw, bullet_hit_enemy(sw)
  PROVE  WaveCleared(sw) <=> enemy_alive = {bullet_hit_index(sw)}
<1> DEFINE e == bullet_hit_index(sw)
<1>1. e \in enemy_alive
  BY HitIndexAlive
<1>2. IsFiniteSet(enemy_alive) /\ Cardinality(enemy_alive) \in Nat
  BY FleetFinite
<1>3. ASSUME Cardinality(enemy_alive) <= 1 PROVE enemy_alive = {e}
  <2>1. Cardinality(enemy_alive) # 0
    BY <1>1, <1>2, FS_EmptySet
  <2>2. Cardinality(enemy_alive) = 1
    BY <1>2, <1>3, <2>1
  <2>3. PICK x : enemy_alive = {x}
    BY <1>2, <2>2, FS_Singleton
  <2>4. QED
    BY <1>1, <2>3
<1>4. ASSUME enemy_alive = {e} PROVE Cardinality(enemy_alive) = 1
  BY <1>4, FS_Singleton
<1>5. QED
  BY <1>3, <1>4 DEF WaveCleared

\* What a tick in play does to the fleet, the wave and the score is a move of
\* the rules' Shoot.
LEMMA PlayTickShoots ==
  ASSUME IInv, NEW key \in Keys, NEW sw \in SwitchSettings, PlayTick(key, sw)
  PROVE  Rules!Shoot
<1>1. TypeOK
  BY DEF IInv
<1>2. enemy_alive' = enemy_alive_next(sw) /\ CountKill(sw)
      /\ wave' = IF WaveCleared(sw) /\ wave # MAX_WAVE THEN wave + 1 ELSE wave
  BY DEF PlayTick
<1>3. CASE ~bullet_hit_enemy(sw)
  <2>1. UNCHANGED <<enemy_alive, wave, score>>
    BY <1>2, <1>3 DEF WaveCleared, enemy_alive_next, CountKill
  <2>2. UNCHANGED ScoreValue
    BY <2>1 DEF score, ScoreValue
  <2>3. QED
    BY <2>1, <2>2 DEF Rules!Shoot
<1>4. CASE bullet_hit_enemy(sw)
  <2> DEFINE e == bullet_hit_index(sw)
  <2>1. e \in enemy_alive
    BY <1>1, <1>4, HitIndexAlive
  <2>2. WaveCleared(sw) <=> enemy_alive = {e}
    BY <1>1, <1>4, ClearedMeansLast
  <2>3. ScoreValue' \in IF ScoreValue < TopScore THEN {ScoreValue + 1} ELSE 0..TopScore
    <3>1. CASE ScoreValue < TopScore
      BY <1>1, <1>2, <1>4, <3>1, KillScores DEF ScoreAfterKill
    <3>2. CASE ~(ScoreValue < TopScore)
      <4>1. score_thousands' \in Digits /\ score_hundreds' \in Digits /\ score_tens' \in Digits
        BY <1>1, <1>2, ScoreStep
      <4>2. ScoreValue' \in 0..TopScore
        BY <4>1, DigitsRange DEF ScoreValue
      <4>3. QED
        BY <3>2, <4>2
    <3>3. QED
      BY <3>1, <3>2
  <2>4. CASE enemy_alive = {e}
    <3>1. enemy_alive' = Enemies /\ wave' = IF wave = MAX_WAVE THEN wave ELSE wave + 1
      BY <1>2, <2>2, <2>4 DEF enemy_alive_next
    <3>2. QED
      BY <2>1, <2>3, <2>4, <3>1 DEF Rules!Shoot
  <2>5. CASE enemy_alive # {e}
    <3>1. enemy_alive' = enemy_alive \ {e} /\ wave' = wave
      BY <1>2, <1>4, <2>2, <2>5 DEF enemy_alive_next
    <3>2. QED
      BY <2>1, <2>3, <2>5, <3>1 DEF Rules!Shoot
  <2>6. QED
    BY <2>4, <2>5
<1>5. QED
  BY <1>3, <1>4

\* The assignments that start a game are the rules' new game.
LEMMA SetUpIsNewGame == SetUpGame => Rules!NewGame
<1>1. SUFFICES ASSUME SetUpGame PROVE Rules!NewGame
  OBVIOUS
<1>2. ScoreValue' = (0 * SCORE_RADIX + 0) * SCORE_RADIX + 0
  BY <1>1 DEF SetUpGame, ScoreValue
<1>3. ScoreValue' = 0
  BY <1>2, ConstantTypes
<1>4. QED
  BY <1>1, <1>3 DEF SetUpGame, Rules!NewGame

\* Every step of the game is a move or a stutter of the rules, from a start of
\* theirs: lives, waves, fleet and score obey GalaxianRules on every grid.
THEOREM RulesHold == Spec => RulesImplemented
<1>1. Init => Rules!Init
  <2>1. SUFFICES ASSUME Init PROVE Rules!Init
    OBVIOUS
  <2>2. ScoreValue = (0 * SCORE_RADIX + 0) * SCORE_RADIX + 0
    BY <2>1 DEF Init, ScoreValue
  <2>3. ScoreValue = 0
    BY <2>2, ConstantTypes
  <2>4. QED
    BY <2>1, <2>3 DEF Init, Rules!Init, Phase
<1>2. IInv /\ [Next]_vars => [Rules!Next]_(Rules!vars)
  <2>1. SUFFICES ASSUME IInv, [Next]_vars PROVE [Rules!Next]_(Rules!vars)
    OBVIOUS
  <2>2. ASSUME NEW key \in Keys, TitleTick(key) PROVE Rules!Next
    BY <2>2, SetUpIsNewGame DEF TitleTick, Phase, Rules!Next, Rules!Title, Rules!Start
  <2>3. ASSUME NEW key \in Keys, NEW sw \in Switches, PlayTick(key, sw) PROVE Rules!Next
    <3>1. Rules!Shoot
      BY <2>1, <2>3, SizeAssumption, PlayTickShoots
    <3>2. Phase = "play"
      BY <2>3 DEF PlayTick, Phase
    <3>3. Rules!Survive \/ Rules!LoseLife \/ Rules!Die
      <4>1. state = "PLAY" /\ LoseLife /\ lives \in Nat
        BY <2>1, <2>3 DEF PlayTick, IInv, TypeOK
      <4>2. CASE Invaded \/ (player_hit_by_enemy /\ lives <= 1)
        BY <4>1, <4>2 DEF LoseLife, Phase, Rules!Die
      <4>3. CASE ~Invaded /\ player_hit_by_enemy /\ lives > 1
        BY <4>1, <4>3 DEF LoseLife, Phase, Rules!LoseLife
      <4>4. CASE ~Invaded /\ ~player_hit_by_enemy
        BY <4>1, <4>4 DEF LoseLife, Phase, Rules!Survive
      <4>5. QED
        BY <4>1, <4>2, <4>3, <4>4
    <3>4. QED
      BY <3>1, <3>2, <3>3 DEF Rules!Next, Rules!Play
  <2>4. ASSUME NEW key \in Keys, LifeLostTick(key) PROVE [Rules!Next]_(Rules!vars)
    <3>1. UNCHANGED <<enemy_alive, lives, wave, ScoreValue>>
      BY <2>4 DEF LifeLostTick, score, ScoreValue
    <3>2. CASE UNCHANGED state
      BY <3>1, <3>2 DEF Rules!vars, Phase
    <3>3. CASE state' = "PLAY"
      BY <2>4, <3>1, <3>3 DEF LifeLostTick, Phase, Rules!Next, Rules!Respawn
    <3>4. QED
      BY <2>4, <3>2, <3>3 DEF LifeLostTick
  <2>5. ASSUME NEW key \in Keys, GameOverTick(key) PROVE UNCHANGED Rules!vars
    BY <2>5 DEF GameOverTick, score, ScoreValue, Rules!vars, Phase
  <2>6. ASSUME NEW key \in Keys, RestartTick(key) PROVE Rules!Next
    BY <2>6, SetUpIsNewGame DEF RestartTick, Phase, Rules!Next, Rules!Start
  <2>7. CASE Reset
    BY <2>7, SetUpIsNewGame DEF Reset, Phase, Rules!Next, Rules!Title
  <2>8. CASE UNCHANGED vars
    BY <2>8 DEF vars, score, ScoreValue, Rules!vars, Phase
  <2>9. QED
    BY <2>1, <2>2, <2>3, <2>4, <2>5, <2>6, <2>7, <2>8 DEF Next, Tick
<1>3. QED
  BY <1>1, <1>2, GameInvariant, PTL DEF Spec, RulesImplemented, Rules!Spec

-----------------------------------------------------------------------------
(***************************************************************************)
(* The score counts the kills                                               *)
(***************************************************************************)
\* Before the last wave a game with an enemy left has room on its score.
LEMMA ScoreRoom ==
  ASSUME TypeOK, ScoreMatchesWaves, wave \in 1..(MAX_WAVE - 1), enemy_alive # {}
  PROVE  ScoreValue < TopScore
<1> DEFINE n == ENEMY_COUNT
           alive == Cardinality(enemy_alive)
<1>1. n \in Nat \ {0} /\ alive \in Nat /\ alive # 0
  BY EnemiesNonEmpty, FleetFinite, FS_EmptySet
<1>2. ScoreValue = (wave - 1) * n + (n - alive) /\ (wave - 1) * n \in Nat
  BY <1>1, ConstantTypes DEF ScoreMatchesWaves
<1>3. (wave - 1) * n + n = wave * n /\ wave * n \in Nat /\ wave * n <= (MAX_WAVE - 1) * n
  BY <1>1, ConstantTypes, TimesMonotone
<1>4. (MAX_WAVE - 1) * n = MAX_WAVE * n - n /\ MAX_WAVE * n \in Nat
  BY <1>1, ConstantTypes
<1>5. MAX_WAVE * n <= TopScore + 1
  <2>1. MAX_WAVE * (ENEMY_ROWS * ENEMY_COLS) = MAX_WAVE * ENEMY_ROWS * ENEMY_COLS
    BY ConstantTypes
  <2>2. SCORE_RADIX * SCORE_RADIX * SCORE_RADIX \in Nat
    BY ConstantTypes
  <2>3. QED
    BY <2>1, <2>2, ScoreAssumption DEF ENEMY_COUNT, TopScore
<1>6. TopScore \in Int
  BY ConstantTypes DEF TopScore
<1> HIDE DEF n, alive
<1>7. QED
  BY <1>1, <1>2, <1>3, <1>4, <1>5, <1>6

LEMMA PlayTickCounts ==
  ASSUME IInv, ScoreMatchesWaves, NEW key \in Keys, NEW sw \in SwitchSettings,
         PlayTick(key, sw)
  PROVE  ScoreMatchesWaves'
<1>1. TypeOK /\ wave \in 1..MAX_WAVE /\ enemy_alive # {}
  BY ConstantTypes DEF IInv, TypeOK, GameAlive, PlayTick
<1>2. /\ enemy_alive' = enemy_alive_next(sw) /\ CountKill(sw)
      /\ wave' = IF WaveCleared(sw) /\ wave # MAX_WAVE THEN wave + 1 ELSE wave
  BY DEF PlayTick
<1>3. SUFFICES ASSUME wave' \in 1..(MAX_WAVE - 1)
               PROVE  ScoreValue' = (wave' - 1) * ENEMY_COUNT
                                      + (ENEMY_COUNT - Cardinality(enemy_alive'))
  BY DEF ScoreMatchesWaves, ENEMY_COUNT
<1>4. wave \in 1..(MAX_WAVE - 1)
  BY <1>1, <1>2, <1>3, ConstantTypes
<1>5. ScoreValue = (wave - 1) * ENEMY_COUNT + (ENEMY_COUNT - Cardinality(enemy_alive))
  BY <1>4 DEF ScoreMatchesWaves
<1>6. CASE ~bullet_hit_enemy(sw)
  <2>1. UNCHANGED <<enemy_alive, wave, score>>
    BY <1>2, <1>6 DEF WaveCleared, enemy_alive_next, CountKill
  <2>2. ScoreValue' = ScoreValue
    BY <2>1 DEF score, ScoreValue
  <2>3. QED
    BY <1>5, <2>1, <2>2
<1>7. CASE bullet_hit_enemy(sw)
  <2> DEFINE e == bullet_hit_index(sw)
             n == ENEMY_COUNT
             alive == Cardinality(enemy_alive)
  <2>1. ScoreValue' = ScoreValue + 1
    BY <1>1, <1>2, <1>4, <1>7, ScoreRoom, KillScores DEF ScoreAfterKill
  <2>2. e \in enemy_alive /\ IsFiniteSet(enemy_alive) /\ alive \in Nat /\ n \in Nat
    BY <1>1, <1>7, HitIndexAlive, FleetFinite, EnemiesNonEmpty
  <2>3. WaveCleared(sw) <=> enemy_alive = {e}
    BY <1>1, <1>7, ClearedMeansLast
  <2>4. (wave - 1) * n \in Nat /\ (wave - 1) * n + n = wave * n
    BY <1>4, <2>2, ConstantTypes
  <2>5. CASE enemy_alive = {e}
    <3>1. enemy_alive' = Enemies /\ wave' = wave + 1
      BY <1>2, <1>4, <2>3, <2>5, ConstantTypes DEF enemy_alive_next
    <3>2. alive = 1 /\ Cardinality(enemy_alive') = n
      BY <1>1, <2>5, <3>1, FS_Singleton, FleetFinite
    <3>3. wave' - 1 = wave
      BY <1>4, <3>1, ConstantTypes
    <3> HIDE DEF n, alive
    <3>4. ScoreValue' = wave * n + (n - n)
      BY <1>5, <2>1, <2>2, <2>4, <3>2 DEF n, alive
    <3>5. QED
      BY <3>2, <3>3, <3>4 DEF n
  <2>6. CASE enemy_alive # {e}
    <3>1. enemy_alive' = enemy_alive \ {e} /\ wave' = wave
      BY <1>2, <1>7, <2>3, <2>6 DEF enemy_alive_next
    <3>2. Cardinality(enemy_alive') = alive - 1
      BY <2>2, <3>1, FS_RemoveElement
    <3> HIDE DEF n, alive
    <3>3. ScoreValue' = (wave - 1) * n + (n - (alive - 1))
      BY <1>5, <2>1, <2>2, <2>4 DEF n, alive
    <3>4. QED
      BY <3>1, <3>2, <3>3 DEF n
  <2>7. QED
    BY <2>5, <2>6
<1>8. QED
  BY <1>6, <1>7

\* A new game has scored nothing and lost no enemy.
LEMMA NewGameCounts ==
  ASSUME SetUpGame
  PROVE  ScoreMatchesWaves'
<1>1. /\ wave' = 1 /\ enemy_alive' = Enemies
      /\ score_thousands' = 0 /\ score_hundreds' = 0 /\ score_tens' = 0
  BY DEF SetUpGame
<1>2. Cardinality(Enemies) = ENEMY_COUNT /\ ENEMY_COUNT \in Nat
  <2>1. ENEMY_COUNT \in Nat
    BY EnemiesNonEmpty
  <2>2. QED
    BY <2>1, FS_Interval DEF Enemies
<1>3. (0 * SCORE_RADIX + 0) * SCORE_RADIX + 0 = 0 /\ (1 - 1) * ENEMY_COUNT = 0
  BY <1>2, ConstantTypes
<1>4. ScoreValue' = 0
  BY <1>1, <1>3 DEF ScoreValue
<1>5. ENEMY_COUNT' = ENEMY_COUNT
  BY DEF ENEMY_COUNT
<1>6. QED
  BY <1>1, <1>2, <1>3, <1>4, <1>5 DEF ScoreMatchesWaves

\* Before the last wave the score is the number of enemies shot in this game.
THEOREM ScoreCountsKills == Spec => []ScoreMatchesWaves
<1>1. Init => ScoreMatchesWaves
  BY DEF Init, ScoreMatchesWaves
<1>2. IInv /\ ScoreMatchesWaves /\ [Next]_vars => ScoreMatchesWaves'
  <2>1. SUFFICES ASSUME IInv, ScoreMatchesWaves, [Next]_vars PROVE ScoreMatchesWaves'
    OBVIOUS
  <2>2. ASSUME NEW key \in Keys, NEW sw \in Switches, PlayTick(key, sw)
        PROVE  ScoreMatchesWaves'
    BY <2>1, <2>2, SizeAssumption, PlayTickCounts
  <2>3. CASE SetUpGame
    BY <2>3, NewGameCounts
  <2>4. CASE UNCHANGED <<enemy_alive, wave, score>>
    BY <2>1, <2>4 DEF score, ScoreMatchesWaves, ScoreValue, ENEMY_COUNT
  <2>5. QED
    BY <2>1, <2>2, <2>3, <2>4 DEF Next, Tick, TitleTick, LifeLostTick, GameOverTick,
       RestartTick, Reset, vars
<1>3. QED
  BY <1>1, <1>2, GameInvariant, PTL DEF Spec

\* With more than one enemy in the fleet every kill shows in it.
LEMMA KillShows ==
  ASSUME TypeOK, ENEMY_COUNT > 1, NEW sw \in Switches, bullet_hit_enemy(sw),
         enemy_alive' = enemy_alive_next(sw)
  PROVE  enemy_alive' # enemy_alive
<1> DEFINE e == bullet_hit_index(sw)
<1>1. e \in enemy_alive
  BY HitIndexAlive
<1>2. WaveCleared(sw) <=> enemy_alive = {e}
  BY ClearedMeansLast
<1>3. CASE enemy_alive = {e}
  <2>1. enemy_alive' = Enemies
    BY <1>2, <1>3 DEF enemy_alive_next
  <2>2. 0 \in Enemies /\ 1 \in Enemies
    BY EnemiesNonEmpty DEF Enemies
  <2>3. QED
    BY <1>3, <2>1, <2>2
<1>4. CASE enemy_alive # {e}
  BY <1>1, <1>2, <1>4 DEF enemy_alive_next
<1>5. QED
  BY <1>3, <1>4

\* The score changes when an enemy dies, in the last wave too, and when a game
\* starts, and at no other step in any state; it falls within a game only where
\* the display ends (lines 455-468).
THEOREM KillsAreScored ==
  ASSUME ENEMY_COUNT > 1
  PROVE  Spec => KillsScore
<1> DEFINE Scored == ScoreValue' = IF StartsGame THEN 0
                                   ELSE IF enemy_alive' # enemy_alive THEN ScoreAfterKill
                                   ELSE ScoreValue
<1>1. IInv /\ [Next]_vars => [Scored]_vars
  <2>1. SUFFICES ASSUME IInv, Next PROVE Scored
    OBVIOUS
  <2>2. ASSUME NEW key \in Keys, NEW sw \in Switches, PlayTick(key, sw)
        PROVE  Scored
    <3>1. state = "PLAY" /\ state' \in {"PLAY", "LIFE_LOST", "GAME_OVER"}
      BY <2>2 DEF PlayTick, LoseLife
    <3>2. CountKill(sw) /\ enemy_alive' = enemy_alive_next(sw) /\ ~StartsGame
      BY <2>2, <3>1 DEF PlayTick, StartsGame
    <3>3. CASE bullet_hit_enemy(sw)
      BY <2>1, <3>2, <3>3, KillScores, KillShows DEF IInv
    <3>4. CASE ~bullet_hit_enemy(sw)
      <4>1. UNCHANGED <<enemy_alive, score>>
        BY <3>2, <3>4 DEF WaveCleared, enemy_alive_next, CountKill
      <4>2. QED
        BY <3>2, <4>1 DEF score, ScoreValue
    <3>5. QED
      BY <3>3, <3>4
  <2>3. CASE SetUpGame /\ StartsGame
    <3>1. (0 * SCORE_RADIX + 0) * SCORE_RADIX + 0 = 0
      BY ConstantTypes
    <3>2. QED
      BY <2>3, <3>1 DEF SetUpGame, ScoreValue
  <2>4. CASE ~StartsGame /\ UNCHANGED <<enemy_alive, score>>
    BY <2>4 DEF score, ScoreValue
  <2>5. ASSUME NEW key \in Keys, TitleTick(key) \/ RestartTick(key)
        PROVE  Scored
    BY <2>3, <2>5 DEF TitleTick, RestartTick, StartsGame
  <2>6. ASSUME NEW key \in Keys, LifeLostTick(key) \/ GameOverTick(key)
        PROVE  Scored
    BY <2>4, <2>6 DEF LifeLostTick, GameOverTick, StartsGame
  <2>7. CASE Reset
    BY <2>3, <2>7 DEF Reset, StartsGame
  <2>8. QED
    BY <2>1, <2>2, <2>5, <2>6, <2>7 DEF Next, Tick
<1>2. QED
  BY <1>1, GameInvariant, PTL DEF Spec, KillsScore

=============================================================================
