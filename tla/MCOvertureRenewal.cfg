CONSTANTS
  a = a  b = b
  None = None
  RegionCount = 2
  Procs = {a, b}
  Launchd = a
  Plans <- TacoOverture
  Total = 2
  FileEnds = {2}
  Matching = {1, 2}
  Limit = 1
  MaxScan = 2
  MaxFiles = 1
  MaxRelease = 2
  Tiles = 2
  TileEnd <- SmallReleases
  PageLimit = 1
  MaxCatalog = 2
  CellsOf <- OneCell
  Pieces = {1, 2}
  RetryFailed = FALSE
  Threshold <- OnlyOsmRotates
  RegionsPerRun <- OnePage
  TilesPerRun = 1
  Spiders = 3
  SpidersPerRun = 2
  MaxUnits = 2
SPECIFICATION SpecSources
PROPERTIES RenewedOnlyAfterDelivery
