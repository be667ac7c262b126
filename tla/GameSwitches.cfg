\* The switches move at any tick: formations, shot limits and difficulty.
CONSTANTS
  SCREEN_W = 223
  SCREEN_H = 350
  PLAYER_W = 92
  PLAYER_H = 45
  PLAYER_START_X = 80
  PLAYER_START_Y = 240
  PLAYER_MIN_Y = 170
  PLAYER_MAX_Y = 260
  PLAYER_STEP = 40
  PLAYER_MAX_BULLETS = 1
  PLAYER_BULLET_W = 4
  PLAYER_BULLET_H = 65
  PLAYER_BULLET_RISE = 50
  PLAYER_BULLET_TOP = 60
  ENEMY_MAX_BULLETS = 2
  ENEMY_BULLET_W = 6
  ENEMY_BULLET_H = 61
  ENEMY_BULLET_SPEED = 60
  ENEMY_ROWS = 1
  ENEMY_COLS = 2
  ENEMY_W = 24
  ENEMY_H = 50
  ENEMY_X_STEP = 40
  ENEMY_Y_STEP = 60
  ENEMY_MOVE_X = 40
  ENEMY_MOVE_Y = 20
  ENEMY_START_X = 70
  ENEMY_START_Y = 60
  WAVE_START_Y = 56
  LEFT_EDGE = 60
  RIGHT_EDGE = 210
  MOVE_PERIOD = 3
  FIRE_PERIOD = 4
  FIRE_SPEEDUP = 1
  FIRE_COOLDOWN = 2
  RESPAWN_TICKS = 1
  START_LIVES = 2
  MAX_WAVE = 3
  MAX_LEVEL = 2
  SCORE_RADIX = 2
  Keys <- FireKeys
  Switches <- MovingSwitches
SPECIFICATION Spec
INVARIANTS
  FormationOnScreen
  ScoreMatchesWaves
PROPERTY KillsScore
