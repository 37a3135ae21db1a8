\* Draws one after the other, with what the last one left in memory.
CONSTANTS
  Window <- MCWindow
  Place <- MCPlace
  Size <- MCSize
  Rotation = {0, 1, 2, 3}
  Pivot <- MCPivot
SPECIFICATION RenderSpec
INVARIANT PixelsPlaced
