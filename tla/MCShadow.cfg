CONSTANTS
  p1 = p1  p2 = p2  good = good  other = other
  r1 = r1  r2 = r2  r2b = r2b  r3 = r3
  None = None
  Proc <- TwoProcs
  Row <- Rows
  Views <- SomeViews
  Cursor <- Cursors
  Bytes <- Sizes
  Malformed <- NoRows
  Padding = 1
  PageSize = 1
  MaxRowBytes = 4
  MaxRecords = 2
  MaxBytes = 6
  MaxCommits = 1
  Contents <- TwoContents
  Registered = good
  MaxWrites = 1
  MaxRuns = 1
  MaxKills = 1
  NoValue = NoValue
  Name <- Names
  ScoreOf <- Scores
  Tile = 8
  Cell = 4
  CellRadius = 2
  LatPad = 3
  LngPad <- LngPads
  Metres <- Distances
  NearbyLimit = 2
SPECIFICATION HostSpec
INVARIANTS ReturnsOneSnapshot LockCoversRun PrefetchIsBoxScan ReplacesLegacy
PROPERTIES ShadowSettles
CHECK_DEADLOCK FALSE
