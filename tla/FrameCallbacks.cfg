\* One client that issues any request in any order, with several callbacks at once.
CONSTANTS
  Surface = {s1}
  Buffer = {b1, b2}
  Throttled = {}
  TexName = {1, 2}
  PacedFrames = 0
  FreeFrames = 3
  MaxFrames <- MCMaxFrames
  MaxDestroyed = 0
  NULL = NULL
  Garbage = Garbage
SPECIFICATION FairSpec
CHECK_DEADLOCK FALSE
INVARIANT CallbacksConserved
PROPERTY CallbackFires
