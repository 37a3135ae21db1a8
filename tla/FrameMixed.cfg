\* A client that issues any request in any order beside one that waits for its callbacks.
CONSTANTS
  Surface = {s1, s2}
  Buffer = {b1, b2}
  Throttled = {s2}
  TexName = {1, 2, 3, 4}
  PacedFrames = 1
  FreeFrames = 1
  MaxFrames <- MCMaxFrames
  MaxDestroyed = 0
  NULL = NULL
  Garbage = Garbage
SPECIFICATION Spec
SYMMETRY Symmetry
VIEW View
CHECK_DEADLOCK FALSE
INVARIANTS
  TypeOK
  DoubleBuffered
  SettledScreen
PROPERTY TexturesStable
