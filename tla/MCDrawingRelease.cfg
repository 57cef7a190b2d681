SPECIFICATION DrawingSpec
CONSTANTS
  U32 = 128
  OverflowChecks = FALSE
  Surfaces <- MCFrames
  Draws <- MCDraws
  MaxDraws = 2
  Unit = 4
  One = 2
  I32 = 128
  Meshes <- MCMeshes
  Segments <- MCSegments
  DepthSizes <- MCDepthSizes
  Black <- MCBlack
  MaxCalls = 2
INVARIANTS
  OutsideRefused
