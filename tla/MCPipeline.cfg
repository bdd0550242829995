CONSTANTS
  p1 = p1  p2 = p2  s1 = s1  s2 = s2  c1 = c1  c2 = c2  m1 = m1  m2 = m2
  None = None
  Places <- OnePlace
  Workers <- ScraperAndClassifier
  Scrapers <- OneScraper
  Classifiers <- OneClassifier
  Parsers <- Nobody
  Scope <- AllScopes
  Priority <- OnePriority
  MaxAttempts = 2
  MaxRequeues = 1
  ReusedIds = TRUE
  RequeueBatch = TRUE
  PendingMax = 0
  BusyQueue = TRUE
  SlowBinding = FALSE
  ManualRecover = TRUE
  Reconciler = TRUE
  MaxCrashes = 1
SPECIFICATION SpecWorkers
INVARIANTS TypeOKWorkers HandedOff AttemptBudget
PROPERTIES RequeueCountNeverReset LostOnlyToHolders UsesQueue
