------------------------ MODULE FcGalaxianShotProofs ------------------------
(***************************************************************************)
(* What one tick does to the shots in flight, for every grid: the action    *)
(* properties of FcGalaxianGame, from the invariant of FcGalaxianGameProofs. *)
(***************************************************************************)
EXTENDS FcGalaxianGameProofs

-----------------------------------------------------------------------------
(***************************************************************************)
(* Every step but a tick in play                                            *)
(***************************************************************************)
\* Outside of play the shots are taken away; only a stutter keeps them.
NoShots == player_bullet' = NoPlayerBullets /\ enemy_bullet' = NoEnemyBullets

LEMMA StepCases ==
  ASSUME [Next]_vars
  PROVE  \/ \E key \in Keys, sw \in Switches : PlayTick(key, sw)
         \/ NoShots /\ (enemy_alive' = Enemies \/ enemy_alive' = enemy_alive)
         \/ UNCHANGED vars
<1>1. ASSUME NEW key \in Keys, TitleTick(key) PROVE NoShots /\ enemy_alive' = Enemies
  BY <1>1 DEF TitleTick, SetUpGame, SetUpShip, NoShots
<1>2. ASSUME NEW key \in Keys, LifeLostTick(key) PROVE NoShots /\ enemy_alive' = enemy_alive
  BY <1>2 DEF LifeLostTick, SetUpShip, NoShots
<1>3. ASSUME NEW key \in Keys, GameOverTick(key) PROVE NoShots /\ enemy_alive' = enemy_alive
  BY <1>3 DEF GameOverTick, NoShots
<1>4. ASSUME NEW key \in Keys, RestartTick(key) PROVE NoShots /\ enemy_alive' = Enemies
  BY <1>4 DEF RestartTick, SetUpGame, SetUpShip, NoShots
<1>5. ASSUME Reset PROVE NoShots /\ enemy_alive' = Enemies
  BY <1>5 DEF Reset, SetUpGame, SetUpShip, NoShots
<1>6. QED
  BY <1>1, <1>2, <1>3, <1>4, <1>5 DEF Next, Tick

LEMMA NoShotsMeansNone ==
  ASSUME NoShots
  PROVE  /\ \A b \in PlayerSlots : player_bullet'[b] = NoBullet
         /\ \A b \in EnemySlots : enemy_bullet'[b] = NoBullet
BY DEF NoShots, NoPlayerBullets, NoEnemyBullets

-----------------------------------------------------------------------------
(***************************************************************************)
(* A slot is filled only when it was free                                   *)
(***************************************************************************)
LEMMA FreePlayerSlot ==
  ASSUME NEW key, NEW sw, Fires(key, sw)
  PROVE  player_bullet[Min(FreePlayerSlots(sw))] = NoBullet
<1>1. FreePlayerSlots(sw) \in SUBSET Nat /\ FreePlayerSlots(sw) # {}
  BY ConstantTypes DEF Fires, FreePlayerSlots, PlayerSlots
<1>2. Min(FreePlayerSlots(sw)) \in FreePlayerSlots(sw)
  BY <1>1, MinInSet
<1>3. QED
  BY <1>2 DEF FreePlayerSlots

LEMMA FreeEnemySlot ==
  ASSUME NEW sw, EnemyFires(sw)
  PROVE  enemy_bullet[Min(FreeEnemySlots(sw))] = NoBullet
<1>1. FreeEnemySlots(sw) \in SUBSET Nat /\ FreeEnemySlots(sw) # {}
  BY ConstantTypes DEF EnemyFires, FreeEnemySlots, EnemySlots
<1>2. Min(FreeEnemySlots(sw)) \in FreeEnemySlots(sw)
  BY <1>1, MinInSet
<1>3. QED
  BY <1>2 DEF FreeEnemySlots

\* A shot of the ship in flight before and after a tick in play has climbed one
\* step, and the wave goes on.
LEMMA ShotClimbs ==
  ASSUME IInv, NEW key, NEW sw, PlayTick(key, sw), NEW b \in PlayerSlots,
         player_bullet[b] # NoBullet, player_bullet'[b] # NoBullet
  PROVE  /\ ~WaveCleared(sw)
         /\ player_bullet[b].y \in Nat
         /\ player_bullet'[b].y = player_bullet[b].y - PLAYER_BULLET_RISE
<1>1. player_bullet'[b] = player_bullet_next(key, sw)[b]
  BY DEF PlayTick
<1>2. ~WaveCleared(sw) /\ player_bullet'[b] = Climb(player_bullet[b])
  BY <1>1, FreePlayerSlot DEF player_bullet_next
<1>3. player_bullet[b] \in PlayerBullets
  BY DEF IInv, TypeOK
<1>4. player_bullet'[b] = [player_bullet[b] EXCEPT !.y = player_bullet[b].y - PLAYER_BULLET_RISE]
  BY <1>2 DEF Climb
<1>5. player_bullet[b].y \in 0..SCREEN_H
  BY <1>3 DEF PlayerBullets
<1>6. player_bullet'[b].y = player_bullet[b].y - PLAYER_BULLET_RISE
  BY <1>3, <1>4 DEF PlayerBullets
<1>7. QED
  BY <1>2, <1>5, <1>6, ConstantTypes

\* An enemy shot in flight before and after a tick in play has fallen by its
\* speed, which the level's cap bounds.
LEMMA ShotFalls ==
  ASSUME IInv, NEW key, NEW sw \in SwitchSettings, PlayTick(key, sw), NEW b \in EnemySlots,
         enemy_bullet[b] # NoBullet, enemy_bullet'[b] # NoBullet
  PROVE  /\ enemy_bullet[b].y \in Nat
         /\ enemy_bullet'[b].y \in Nat
         /\ enemy_bullet'[b].y <= enemy_bullet[b].y + ENEMY_BULLET_SPEED + MAX_LEVEL \div 2
<1> DEFINE v == enemy_bullet_speed(difficulty_level(sw))
<1>1. enemy_bullet'[b] = enemy_bullet_next(sw)[b]
  BY DEF PlayTick
<1>2. enemy_bullet'[b] = Fall(enemy_bullet[b], sw)
  BY <1>1, FreeEnemySlot DEF enemy_bullet_next
<1>3. enemy_bullet[b] \in EnemyBullets
  BY DEF IInv, TypeOK
<1>4. enemy_bullet'[b] = [enemy_bullet[b] EXCEPT !.y = enemy_bullet[b].y + v]
  BY <1>2 DEF Fall
<1>5. enemy_bullet[b].y \in 0..SCREEN_H
  BY <1>3 DEF EnemyBullets
<1>6. enemy_bullet'[b].y = enemy_bullet[b].y + v
  BY <1>3, <1>4 DEF EnemyBullets
<1>7. v \in Nat /\ v <= ENEMY_BULLET_SPEED + MAX_LEVEL \div 2
  <2>1. difficulty_level(sw) \in 0..MAX_LEVEL
    BY LevelRange DEF IInv
  <2>2. QED
    BY <2>1, ConstantTypes DEF enemy_bullet_speed, capped_wave
<1> HIDE DEF v
<1>8. QED
  BY <1>5, <1>6, <1>7, ConstantTypes

\* While the wave goes on, an enemy comes down by at most one drop.
LEMMA EnemyComesDown ==
  ASSUME IInv, NEW key, NEW s, PlayTick(key, s), ~WaveCleared(s),
         NEW i \in Enemies, NEW sw \in SwitchSettings
  PROVE  /\ enemy_y_pos(i, sw) \in Int
         /\ enemy_y_pos(i, sw)' \in {enemy_y_pos(i, sw), enemy_y_pos(i, sw) + ENEMY_MOVE_Y}
<1>1. wave' = wave
  BY DEF PlayTick
<1>2. OffsetY(i, sw)' = OffsetY(i, sw)
  BY <1>1 DEF OffsetY, Forward
<1>3. enemy_base_y' \in {enemy_base_y, enemy_base_y + ENEMY_MOVE_Y}
  BY DEF PlayTick, MoveFormation
<1>4. OffsetY(i, sw) \in Int /\ enemy_base_y \in Int
  BY OffsetRange DEF IInv, TypeOK
<1>5. Row(i) * ENEMY_Y_STEP \in Int
  BY RowColType, ConstantTypes
<1>6. ASSUME NEW a \in Int, NEW r \in Int, NEW o \in Int, NEW c \in {a, a + ENEMY_MOVE_Y}
      PROVE  a + r + o \in Int /\ c + r + o \in {a + r + o, a + r + o + ENEMY_MOVE_Y}
  BY ConstantTypes
<1>7. enemy_y_pos(i, sw) = enemy_base_y + Row(i) * ENEMY_Y_STEP + OffsetY(i, sw)
  BY DEF enemy_y_pos
<1>8. enemy_y_pos(i, sw)' = enemy_base_y' + Row(i) * ENEMY_Y_STEP + OffsetY(i, sw)
  <2>1. Row(i)' = Row(i)
    BY DEF Row
  <2>2. enemy_y_pos(i, sw)' = enemy_base_y' + Row(i)' * ENEMY_Y_STEP + OffsetY(i, sw)'
    BY DEF enemy_y_pos
  <2>3. QED
    BY <1>2, <2>1, <2>2
<1>9. QED
  BY <1>3, <1>4, <1>5, <1>6, <1>7, <1>8

-----------------------------------------------------------------------------
(***************************************************************************)
(* The theorems                                                             *)
(***************************************************************************)
\* No shot passes through what it is aimed at from one tick to the next.
THEOREM ShotsMeetTheirTargets == Spec => NoTunnelling
<1> DEFINE Step == /\ \A b \in PlayerSlots, i \in enemy_alive \cap enemy_alive', sw \in Switches :
                        ~ShotPassesEnemy(b, i, sw)
                   /\ \A b \in EnemySlots : ~ShotPassesShip(b)
<1>1. IInv /\ [Next]_vars => Step
  <2>1. SUFFICES ASSUME IInv, [Next]_vars PROVE Step
    OBVIOUS
  <2>2. ASSUME NEW key \in Keys, NEW s \in Switches, PlayTick(key, s) PROVE Step
    <3>1. s \in SwitchSettings
      BY SizeAssumption
    <3>2. ASSUME NEW b \in PlayerSlots, NEW i \in enemy_alive, NEW sw \in Switches,
                 ShotPassesEnemy(b, i, sw)
          PROVE  FALSE
      <4> DEFINE y == player_bullet[b].y
                 e == enemy_y_pos(i, sw)
      <4>1. /\ ~WaveCleared(s) /\ y \in Nat
            /\ player_bullet'[b].y = y - PLAYER_BULLET_RISE
        BY <2>1, <2>2, <3>2, ShotClimbs DEF ShotPassesEnemy
      <4>2. i \in Enemies /\ sw \in SwitchSettings
        BY <2>1, SizeAssumption DEF IInv, TypeOK
      <4>3. e \in Int /\ e' \in {e, e + ENEMY_MOVE_Y}
        BY <2>1, <2>2, <4>1, <4>2, EnemyComesDown
      <4>4. y >= e + ENEMY_H /\ player_bullet'[b].y + PLAYER_BULLET_H <= e'
        BY <3>2 DEF ShotPassesEnemy
      <4> HIDE DEF y, e
      <4>5. QED
        BY <4>1, <4>3, <4>4, ConstantTypes, TunnelAssumption
    <3>3. ASSUME NEW b \in EnemySlots, ShotPassesShip(b) PROVE FALSE
      <4> DEFINE y == enemy_bullet[b].y
      <4>1. /\ y \in Nat /\ enemy_bullet'[b].y \in Nat
            /\ enemy_bullet'[b].y <= y + ENEMY_BULLET_SPEED + MAX_LEVEL \div 2
        BY <2>1, <2>2, <3>1, <3>3, ShotFalls DEF ShotPassesShip
      <4>2. player_y \in Nat /\ player_y' \in Int /\ player_y' >= player_y - PLAYER_STEP
        BY <2>1, <2>2, ConstantTypes DEF IInv, TypeOK, PlayTick, player_y_next
      <4>3. y + ENEMY_BULLET_H <= player_y /\ enemy_bullet'[b].y >= player_y' + PLAYER_H
        BY <3>3 DEF ShotPassesShip
      <4> HIDE DEF y
      <4>4. MAX_LEVEL \div 2 \in Int
        BY ConstantTypes
      <4>5. QED
        BY <4>1, <4>2, <4>3, <4>4, ConstantTypes, TunnelAssumption
    <3>4. QED
      BY <3>2, <3>3
  <2>3. CASE NoShots
    BY <2>3, NoShotsMeansNone DEF ShotPassesEnemy, ShotPassesShip
  <2>4. CASE UNCHANGED vars
    <3>1. ASSUME NEW b \in PlayerSlots, NEW i \in enemy_alive, NEW sw \in Switches,
                 ShotPassesEnemy(b, i, sw)
          PROVE  FALSE
      <4>1. i \in Enemies /\ sw \in SwitchSettings
        BY <2>1, SizeAssumption DEF IInv, TypeOK
      <4>3. enemy_y_pos(i, sw)' = enemy_y_pos(i, sw)
        BY <2>4 DEF vars, formation, enemy_y_pos, Row, OffsetY, Forward
      <4>4. player_bullet'[b] = player_bullet[b] /\ player_bullet[b] \in PlayerBullets
        BY <2>1, <2>4, <3>1 DEF vars, IInv, TypeOK, ShotPassesEnemy
      <4>5. enemy_y_pos(i, sw) \in Int
        <5>1. OffsetY(i, sw) \in Int /\ enemy_base_y \in Int /\ Row(i) * ENEMY_Y_STEP \in Int
          BY <2>1, <4>1, OffsetRange, RowColType, ConstantTypes DEF IInv, TypeOK
        <5>2. QED
          BY <5>1 DEF enemy_y_pos
      <4>6. player_bullet[b].y \in Int
        BY <4>4 DEF PlayerBullets
      <4>7. QED
        BY <3>1, <4>3, <4>4, <4>5, <4>6, ConstantTypes DEF ShotPassesEnemy
    <3>2. ASSUME NEW b \in EnemySlots, ShotPassesShip(b) PROVE FALSE
      <4>1. enemy_bullet'[b] = enemy_bullet[b] /\ player_y' = player_y
        BY <2>4 DEF vars, ship
      <4>2. enemy_bullet[b].y \in Int /\ player_y \in Int
        BY <2>1, <3>2 DEF IInv, TypeOK, ShotPassesShip, EnemyBullets
      <4>3. QED
        BY <3>2, <4>1, <4>2, ConstantTypes DEF ShotPassesShip
    <3>3. QED
      BY <3>1, <3>2
  <2>5. QED
    BY <2>1, <2>2, <2>3, <2>4, StepCases
<1>2. QED
  BY <1>1, GameInvariant, PTL DEF Spec, NoTunnelling

\* The enemy that dies was touched by the shot that is taken away for it.
LEMMA KillTick ==
  ASSUME IInv, NEW key, NEW sw \in Switches, PlayTick(key, sw),
         NEW i \in enemy_alive \ enemy_alive'
  PROVE  \E b \in PlayerSlots : Hits(b, i, sw) /\ player_bullet'[b] = NoBullet
<1> DEFINE S == {b \in PlayerSlots : Hits(b, bullet_hit_index(sw), sw)}
<1>1. enemy_alive' = enemy_alive_next(sw) /\ enemy_alive \subseteq Enemies
  BY DEF PlayTick, IInv, TypeOK
<1>2. bullet_hit_enemy(sw) /\ i = bullet_hit_index(sw)
  BY <1>1 DEF enemy_alive_next
<1>3. bullet_hit_index(sw) \in HitEnemies(sw)
  <2>1. enemy_alive \subseteq Nat
    BY <1>1, EnemiesNonEmpty DEF Enemies
  <2>2. HitEnemies(sw) \subseteq enemy_alive
    BY DEF HitEnemies
  <2>3. HitEnemies(sw) \in SUBSET Nat /\ HitEnemies(sw) # {}
    BY <1>2, <2>1, <2>2, Zenon DEF bullet_hit_enemy
  <2>4. QED
    BY <2>3, MinInSet DEF bullet_hit_index
<1>4. S \in SUBSET Nat /\ S # {}
  BY <1>3, ConstantTypes DEF HitEnemies, PlayerSlots
<1>5. bullet_hit_player_bullet_index(sw) \in S
  BY <1>4, MinInSet DEF bullet_hit_player_bullet_index
<1>6. player_bullet'[bullet_hit_player_bullet_index(sw)] = NoBullet
  BY <1>2, <1>5 DEF PlayTick, player_bullet_next
<1>7. QED
  BY <1>2, <1>5, <1>6

\* Every kill spends a shot that touched the enemy.
THEOREM KillsSpendShots == Spec => KillSpendsShot
<1> DEFINE Step == \A i \in enemy_alive \ enemy_alive' :
                     \E b \in PlayerSlots, sw \in Switches :
                       Hits(b, i, sw) /\ player_bullet'[b] = NoBullet
<1>1. IInv /\ [Next]_vars => Step
  <2>1. SUFFICES ASSUME IInv, [Next]_vars PROVE Step
    OBVIOUS
  <2>2. ASSUME NEW key \in Keys, NEW sw \in Switches, PlayTick(key, sw) PROVE Step
    BY <2>1, <2>2, KillTick
  <2>3. CASE enemy_alive' = Enemies \/ enemy_alive' = enemy_alive
    BY <2>1, <2>3 DEF IInv, TypeOK
  <2>4. CASE UNCHANGED vars
    BY <2>4 DEF vars
  <2>5. QED
    BY <2>1, <2>2, <2>3, <2>4, StepCases
<1>2. QED
  BY <1>1, GameInvariant, PTL DEF Spec, KillSpendsShot

\* A new wave meets at most the shot its predecessor fired on its last tick.
THEOREM WavesStartQuiet == Spec => WaveStartsQuiet
<1> DEFINE Quiet == /\ \A b, c \in EnemySlots :
                         enemy_bullet'[b] # NoBullet /\ enemy_bullet'[c] # NoBullet =>
                           b = c /\ enemy_bullet[b] = NoBullet
                    /\ player_bullet' = NoPlayerBullets
           Step == wave' = wave + 1 /\ state # "TITLE" => Quiet
<1>1. IInv /\ [Next]_vars => Step
  <2>1. SUFFICES ASSUME IInv, [Next]_vars, wave' = wave + 1 PROVE Quiet
    OBVIOUS
  <2>2. wave \in Nat
    BY <2>1, ConstantTypes DEF IInv, TypeOK
  <2>3. ASSUME NEW key \in Keys, NEW sw \in Switches, PlayTick(key, sw) PROVE Quiet
    <3>1. WaveCleared(sw)
      BY <2>1, <2>2, <2>3 DEF PlayTick
    <3>2. player_bullet' = NoPlayerBullets
      BY <2>3, <3>1 DEF PlayTick, player_bullet_next, NoPlayerBullets
    <3>3. ASSUME NEW b \in EnemySlots, enemy_bullet'[b] # NoBullet
          PROVE  EnemyFires(sw) /\ b = Min(FreeEnemySlots(sw))
      BY <2>3, <3>1, <3>3 DEF PlayTick, enemy_bullet_next
    <3>4. QED
      BY <3>2, <3>3, FreeEnemySlot
  <2>4. CASE NoShots
    BY <2>4, NoShotsMeansNone DEF NoShots
  <2>5. CASE UNCHANGED vars
    BY <2>1, <2>2, <2>5 DEF vars
  <2>6. QED
    BY <2>1, <2>3, <2>4, <2>5, StepCases
<1>2. QED
  BY <1>1, GameInvariant, PTL DEF Spec, WaveStartsQuiet

-----------------------------------------------------------------------------
(***************************************************************************)
(* The ship's shots keep apart                                              *)
(***************************************************************************)
\* The strengthening: the ship has fallen behind every shot of its own by what
\* the shot gained since the last one was fired, one tick per cool-down step.
Gain == PLAYER_BULLET_RISE - PLAYER_STEP
ShotsAhead ==
  \A b \in PlayerSlots :
    player_bullet[b] # NoBullet =>
      player_y - player_bullet[b].y
        >= PLAYER_BULLET_H + (FIRE_COOLDOWN - fire_cooldown) * Gain
Apart(p, q) == p.y >= q.y + PLAYER_BULLET_H \/ q.y >= p.y + PLAYER_BULLET_H

\* One more tick of cool-down is one more gain.
LEMMA GainPerTick ==
  ASSUME NEW n \in Nat, NEW g \in Nat
  PROVE  n * g \in Nat /\ (n + 1) * g = n * g + g
OBVIOUS

LEMMA GainType == Gain \in Nat /\ FIRE_COOLDOWN * Gain + PLAYER_BULLET_RISE >= PLAYER_BULLET_H
<1>1. Gain \in Nat
  BY ConstantTypes, ShotAssumption DEF Gain
<1>2. ASSUME NEW c \in Nat, NEW r \in Nat, NEW s \in Nat
      PROVE  c * (r - s) + r = (c + 1) * r - c * s
  OBVIOUS
<1>3. FIRE_COOLDOWN * Gain + PLAYER_BULLET_RISE
        = (FIRE_COOLDOWN + 1) * PLAYER_BULLET_RISE - FIRE_COOLDOWN * PLAYER_STEP
  BY <1>2, ConstantTypes DEF Gain
<1>4. QED
  BY <1>1, <1>3, ShotAssumption

\* A shot in flight after a tick in play was fired by it or climbed in it.
LEMMA ShotIsNewOrClimbs ==
  ASSUME IInv, NEW key, NEW sw, PlayTick(key, sw), NEW b \in PlayerSlots,
         player_bullet'[b] # NoBullet
  PROVE  \/ /\ Fires(key, sw)
            /\ b = Min(FreePlayerSlots(sw))
            /\ player_bullet'[b].y = player_y - PLAYER_BULLET_H
         \/ /\ player_bullet[b] # NoBullet
            /\ player_bullet[b].y \in Nat
            /\ player_bullet'[b].y = player_bullet[b].y - PLAYER_BULLET_RISE
<1>1. CASE player_bullet[b] # NoBullet
  BY <1>1, ShotClimbs
<1>2. CASE player_bullet[b] = NoBullet
  <2>1. Fires(key, sw) /\ b = Min(FreePlayerSlots(sw)) /\ player_bullet'[b] = PlayerShot
    BY <1>2 DEF PlayTick, player_bullet_next
  <2>2. QED
    BY <2>1 DEF PlayerShot
<1>3. QED
  BY <1>1, <1>2

\* What the tick does to the ship's height and the cool-down.
LEMMA ShipAndCoolDown ==
  ASSUME IInv, NEW key, NEW sw, PlayTick(key, sw)
  PROVE  /\ player_y \in Nat /\ player_y' \in Int /\ fire_cooldown \in 0..FIRE_COOLDOWN
         /\ Fires(key, sw) => /\ player_y' = player_y
                              /\ fire_cooldown = 0 /\ fire_cooldown' = FIRE_COOLDOWN
         /\ ~Fires(key, sw) => /\ player_y' >= player_y - PLAYER_STEP
                               /\ fire_cooldown' = IF fire_cooldown = 0 THEN 0
                                                   ELSE fire_cooldown - 1
<1>1. player_y \in Nat /\ fire_cooldown \in 0..FIRE_COOLDOWN
  BY ConstantTypes DEF IInv, TypeOK
<1>2. player_y' = player_y_next(key)
  BY DEF PlayTick
<1>3. player_y' \in Int /\ player_y' >= player_y - PLAYER_STEP
  BY <1>1, <1>2, ConstantTypes DEF player_y_next
<1>4. ASSUME Fires(key, sw)
      PROVE  player_y' = player_y /\ fire_cooldown = 0 /\ fire_cooldown' = FIRE_COOLDOWN
  BY <1>2, <1>4 DEF Fires, key_fire, player_y_next, PlayTick
<1>5. ASSUME ~Fires(key, sw)
      PROVE  fire_cooldown' = IF fire_cooldown = 0 THEN 0 ELSE fire_cooldown - 1
  BY <1>5 DEF PlayTick, CoolDown
<1>6. QED
  BY <1>1, <1>3, <1>4, <1>5

LEMMA ShotsAheadStep ==
  ASSUME IInv, ShotsAhead, NEW key, NEW sw, PlayTick(key, sw)
  PROVE  ShotsAhead'
<1> DEFINE gained == (FIRE_COOLDOWN - fire_cooldown) * Gain
<1>1. SUFFICES ASSUME NEW b \in PlayerSlots, player_bullet'[b] # NoBullet
               PROVE  player_y' - player_bullet'[b].y
                        >= PLAYER_BULLET_H + (FIRE_COOLDOWN - fire_cooldown') * Gain
  BY DEF ShotsAhead
<1>2. /\ fire_cooldown \in 0..FIRE_COOLDOWN /\ FIRE_COOLDOWN - fire_cooldown \in Nat
      /\ Gain \in Nat /\ gained \in Nat
  BY ShipAndCoolDown, GainType, GainPerTick, ConstantTypes
<1>3. (FIRE_COOLDOWN - FIRE_COOLDOWN) * Gain = 0
  BY <1>2, ConstantTypes
<1>4. CASE Fires(key, sw)
  <2>1. (FIRE_COOLDOWN - fire_cooldown') * Gain = 0
    BY <1>3, <1>4, ShipAndCoolDown
  <2>2. CASE player_bullet'[b].y = player_y - PLAYER_BULLET_H
    BY <1>4, <2>1, <2>2, ShipAndCoolDown, ConstantTypes
  <2>3. CASE /\ player_bullet[b] # NoBullet /\ player_bullet[b].y \in Nat
             /\ player_bullet'[b].y = player_bullet[b].y - PLAYER_BULLET_RISE
    <3>1. player_y - player_bullet[b].y >= PLAYER_BULLET_H + gained
      BY <2>3 DEF ShotsAhead
    <3> HIDE DEF gained
    <3>2. QED
      BY <1>2, <1>4, <2>1, <2>3, <3>1, ShipAndCoolDown, ConstantTypes
  <2>4. QED
    BY <1>1, <2>2, <2>3, ShotIsNewOrClimbs
<1>5. CASE ~Fires(key, sw)
  <2>1. /\ player_bullet[b] # NoBullet /\ player_bullet[b].y \in Nat
        /\ player_bullet'[b].y = player_bullet[b].y - PLAYER_BULLET_RISE
    BY <1>1, <1>5, ShotIsNewOrClimbs
  <2>2. player_y - player_bullet[b].y >= PLAYER_BULLET_H + gained
    BY <2>1 DEF ShotsAhead
  <2>3. player_y' - player_bullet'[b].y >= PLAYER_BULLET_H + gained + Gain
    <3> HIDE DEF gained
    <3>1. QED
      BY <1>2, <1>5, <2>1, <2>2, ShipAndCoolDown, ConstantTypes DEF Gain
  <2>4. (FIRE_COOLDOWN - fire_cooldown') * Gain <= gained + Gain
    <3>1. CASE fire_cooldown = 0
      BY <1>2, <1>5, <3>1, ShipAndCoolDown
    <3>2. CASE fire_cooldown # 0
      <4>1. FIRE_COOLDOWN - fire_cooldown' = (FIRE_COOLDOWN - fire_cooldown) + 1
        BY <1>2, <1>5, <3>2, ShipAndCoolDown, ConstantTypes
      <4>2. (FIRE_COOLDOWN - fire_cooldown') * Gain = gained + Gain
        BY <1>2, <4>1, GainPerTick
      <4>3. QED
        BY <1>2, <4>2
    <3>3. QED
      BY <3>1, <3>2
  <2>5. (FIRE_COOLDOWN - fire_cooldown') * Gain \in Int /\ player_y' - player_bullet'[b].y \in Int
    <3>1. FIRE_COOLDOWN - fire_cooldown' \in Int
      BY <1>2, <1>5, ShipAndCoolDown, ConstantTypes
    <3>2. QED
      BY <1>2, <2>1, <3>1, ShipAndCoolDown, ConstantTypes
  <2> DEFINE left == (FIRE_COOLDOWN - fire_cooldown') * Gain
             ahead == player_y' - player_bullet'[b].y
  <2>6. left \in Int /\ ahead \in Int /\ left <= gained + Gain
        /\ ahead >= PLAYER_BULLET_H + gained + Gain
    BY <2>3, <2>4, <2>5
  <2> HIDE DEF left, ahead, gained
  <2>7. ahead >= PLAYER_BULLET_H + left
    BY <1>2, <2>6, ConstantTypes
  <2>8. QED
    BY <2>7 DEF left, ahead
<1>6. QED
  BY <1>4, <1>5

LEMMA ApartStep ==
  ASSUME IInv, ShotsAhead, ShotsKeepApart, NEW key, NEW sw, PlayTick(key, sw)
  PROVE  ShotsKeepApart'
<1> DEFINE old(b) == /\ player_bullet[b] # NoBullet /\ player_bullet[b].y \in Nat
                     /\ player_bullet'[b].y = player_bullet[b].y - PLAYER_BULLET_RISE
           new(b) == /\ Fires(key, sw) /\ b = Min(FreePlayerSlots(sw))
                     /\ player_bullet'[b].y = player_y - PLAYER_BULLET_H
<1>1. SUFFICES ASSUME NEW b \in PlayerSlots, NEW c \in PlayerSlots, b # c,
                      player_bullet'[b] # NoBullet, player_bullet'[c] # NoBullet
               PROVE  Apart(player_bullet'[b], player_bullet'[c])
  BY DEF ShotsKeepApart, Apart
<1>2. (new(b) \/ old(b)) /\ (new(c) \/ old(c))
  BY <1>1, ShotIsNewOrClimbs
<1>3. CASE old(b) /\ old(c)
  <2>1. Apart(player_bullet[b], player_bullet[c])
    BY <1>1, <1>3 DEF ShotsKeepApart, Apart
  <2>2. QED
    BY <1>3, <2>1, ConstantTypes DEF Apart
<1>4. ASSUME NEW n \in PlayerSlots, NEW o \in PlayerSlots, new(n), old(o)
      PROVE  player_bullet'[n].y >= player_bullet'[o].y + PLAYER_BULLET_H
  <2>1. player_y - player_bullet[o].y
          >= PLAYER_BULLET_H + (FIRE_COOLDOWN - fire_cooldown) * Gain
    BY <1>4 DEF ShotsAhead
  <2>2. FIRE_COOLDOWN - fire_cooldown = FIRE_COOLDOWN
    BY <1>4, ShipAndCoolDown, ConstantTypes
  <2> DEFINE g == FIRE_COOLDOWN * Gain
  <2>3. g \in Nat /\ g + PLAYER_BULLET_RISE >= PLAYER_BULLET_H
    BY GainType, GainPerTick, ConstantTypes
  <2>4. player_y - player_bullet[o].y >= PLAYER_BULLET_H + g
    BY <2>1, <2>2
  <2> HIDE DEF g
  <2>5. QED
    BY <1>4, <2>3, <2>4, ShipAndCoolDown, ConstantTypes
<1>5. CASE new(b) /\ old(c)
  BY <1>4, <1>5 DEF Apart
<1>6. CASE old(b) /\ new(c)
  BY <1>4, <1>6 DEF Apart
<1>7. QED
  BY <1>1, <1>2, <1>3, <1>5, <1>6

\* The ship's shots never overlap, whatever the player and the switches do.
THEOREM ShotsApart == Spec => []ShotsKeepApart
<1> DEFINE Inv == ShotsAhead /\ ShotsKeepApart
<1>1. Init => Inv
  BY DEF Init, NoPlayerBullets, ShotsAhead, ShotsKeepApart
<1>2. IInv /\ Inv /\ [Next]_vars => Inv'
  <2>1. SUFFICES ASSUME IInv, Inv, [Next]_vars PROVE Inv'
    OBVIOUS
  <2>2. ASSUME NEW key \in Keys, NEW sw \in Switches, PlayTick(key, sw) PROVE Inv'
    BY <2>1, <2>2, ShotsAheadStep, ApartStep
  <2>3. CASE NoShots
    BY <2>3, NoShotsMeansNone DEF ShotsAhead, ShotsKeepApart
  <2>4. CASE UNCHANGED vars
    BY <2>1, <2>4 DEF vars, ship, timers, ShotsAhead, ShotsKeepApart
  <2>5. QED
    BY <2>1, <2>2, <2>3, <2>4, StepCases
<1>3. QED
  BY <1>1, <1>2, GameInvariant, PTL DEF Spec

=============================================================================
