\* The localparams and literals of fc_galaxian_game.sv; but 15 lives, so that the
\* idle ship outlives the descent and the formation lands.
CONSTANTS
  SCREEN_W = 640
  SCREEN_H = 480
  PLAYER_W = 32
  PLAYER_H = 18
  PLAYER_START_X = 304
  PLAYER_START_Y = 432
  PLAYER_MIN_Y = 344
  PLAYER_MAX_Y = 452
  PLAYER_STEP = 5
  PLAYER_MAX_BULLETS = 4
  PLAYER_BULLET_W = 4
  PLAYER_BULLET_H = 12
  PLAYER_BULLET_RISE = 8
  PLAYER_BULLET_TOP = 30
  ENEMY_MAX_BULLETS = 4
  ENEMY_BULLET_W = 6
  ENEMY_BULLET_H = 12
  ENEMY_BULLET_SPEED = 4
  ENEMY_ROWS = 4
  ENEMY_COLS = 8
  ENEMY_W = 24
  ENEMY_H = 16
  ENEMY_X_STEP = 56
  ENEMY_Y_STEP = 34
  ENEMY_MOVE_X = 4
  ENEMY_MOVE_Y = 16
  ENEMY_START_X = 70
  ENEMY_START_Y = 84
  WAVE_START_Y = 72
  LEFT_EDGE = 20
  RIGHT_EDGE = 620
  MOVE_PERIOD = 20
  FIRE_PERIOD = 96
  FIRE_SPEEDUP = 6
  FIRE_COOLDOWN = 10
  RESPAWN_TICKS = 45
  START_LIVES = 15
  MAX_WAVE = 15
  MAX_LEVEL = 10
  SCORE_RADIX = 10
  Keys <- IdleKeys
  Switches <- HardSwitches
SPECIFICATION Spec
INVARIANTS
  FormationOnScreen
