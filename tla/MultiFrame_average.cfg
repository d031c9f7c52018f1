SPECIFICATION PixelSpec
CONSTANTS
  Byte = 3
  U32 = 2304
  FrameNumbers = {1, 2, 3, 4, 8, 16}
  BiToLi = TRUE
CHECK_DEADLOCK FALSE
INVARIANTS
  Averaged
