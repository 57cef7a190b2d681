SPECIFICATION StoresSpec
CONSTANTS
  Value = {0, 1}
  Sizes = {1, 2}
  CopySizes = {1, 2}
  MaxHandles = 2
  MaxList = 2
  Descriptors <- MCDescriptors
  Uploads <- MCUploads
  Paint <- MCPaint
  Coordinates <- MCCoordinates
  Grid = 4
  OffsetUnits = 8
  OffsetChecks = TRUE
  MaxTextures = 2
  MaxSamplers = 1
INVARIANTS
  AllOrNothing
  OkMeansWholeList
  AnswersExact
