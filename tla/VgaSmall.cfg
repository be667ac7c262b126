\* A picture of 13 by 11 with every interval of the real one; resets at any edge.
CONSTANTS
  hpixels = 12
  vlines = 10
  DISPLAY_W = 8
  DISPLAY_H = 6
  HSYNC_FIRST = 9
  HSYNC_END = 11
  VSYNC_FIRST = 8
  VSYNC_LAST = 9
SPECIFICATION FairSpec
INVARIANTS
  TypeOK
  OneTickPerPicture
PROPERTIES
  TickAtOrigin
  SyncInBlanking
  FramesKeepComing
