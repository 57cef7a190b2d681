SPECIFICATION TransportsSpec
CONSTANTS
  Lists <- MCLists
  Snapshots <- MCSnapshots
  Windows <- MCWindows
  MaxCommands = 2
  MaxU64 = 127
  Base = 5
  Magic = 123
  MaxPayload = 60
  Frames <- MCFrames
  Shapes <- MCShapes
  VulkanFeature = TRUE
INVARIANTS
  DecodesExactly
  ParsesExactly
  HonestReports
