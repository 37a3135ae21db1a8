\* Two clients that wait for their callbacks.
CONSTANTS
  Surface = {s1, s2}
  Buffer = {b1, b2}
  Throttled = {s1, s2}
  TexName = {1, 2, 3, 4}
  PacedFrames = 3
  FreeFrames = 0
  MaxFrames <- MCMaxFrames
  MaxDestroyed = 1
  NULL = NULL
  Garbage = Garbage
SPECIFICATION FairSpec
CHECK_DEADLOCK FALSE
INVARIANTS
  TwoBuffersSuffice
  LatestContentDrawn
PROPERTIES
  FrameShown
  DrainEnds
