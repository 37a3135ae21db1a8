CONSTANTS
  Connector = {c1, c2}
  Chosen = c1
  Encoder <- MCEncoder
  Crtc <- MCCrtc
  Size = {small, large}
  Refresh <- MCRefresh
  MaxModes = 2
  NoMode = NoMode
SPECIFICATION Spec
CHECK_DEADLOCK FALSE
INVARIANTS
  CrtcExclusive
  FoundWhenFree
  WindowIsMode
