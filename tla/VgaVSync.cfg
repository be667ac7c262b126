\* The lines of the source, eight columns.
CONSTANTS
  hpixels = 7
  vlines = 524
  DISPLAY_W = 4
  DISPLAY_H = 480
  HSYNC_FIRST = 5
  HSYNC_END = 7
  VSYNC_FIRST = 490
  VSYNC_LAST = 491
SPECIFICATION Spec
PROPERTY
  VSyncAtItsLines
