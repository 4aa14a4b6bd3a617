CONSTANTS
  p1 = p1
  p2 = p2
  Processes = {p1, p2}
  Profilers = {p1, p2}
  None = None
  MAX_BUFFER_SIZE = 2
  WORD = 6
  VIDEO_WIDTH = 6
  VIDEO_HEIGHT = 4
  frame_buffer_line = 8
  FRAME_NUMBER = 3
SPECIFICATION Spec
SYMMETRY Symmetry
INVARIANTS DriverIsWhole ReadsLastWrites LedFollowsBuffer PrintsLastInterval PixelInPlace FramesFollow
\* The player ends after its last frame.
CHECK_DEADLOCK FALSE
