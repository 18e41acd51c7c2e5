\* The instance of MCDisplay.cfg, for what the recognition of a display promises.
SPECIFICATION Spec
CONSTANTS
  Displays <- MCDisplays
  Geometries = {"32x16", "64x16"}
  Characterized = "32x16"
  MaxLinks = 2
  Levels = {100, 200}
  MaxConnections = 2
  MaxRuns = 3
  Late = FALSE
  Symbols = {0, 1}
  N = 8
  F = 4
  THRESHOLD = 2
  MaxLength = 11
  TileWidth = 2
  ChunkSize = 5
  Width = 3
  Height = 2
  Contents <- MCContents
  MaxUploads = 2
  MaxReceipts = 2
  Stray = FALSE
INVARIANTS
  DisagreementsWithdrawRecognition
CHECK_DEADLOCK FALSE
