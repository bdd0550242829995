CONSTANTS
  p1 = p1  p2 = p2  s1 = s1  s2 = s2  c1 = c1  c2 = c2  m1 = m1  m2 = m2
  None = None
  Places <- OnePlace
  Workers <- OneScraper
  Scrapers <- OneScraper
  Classifiers <- Nobody
  Parsers <- Nobody
  Scope <- AllScopes
  Priority <- OnePriority
  MaxAttempts = 3
  MaxRequeues = 1
  ReusedIds = TRUE
  RequeueBatch = TRUE
  PendingMax = 1
  BusyQueue = FALSE
  SlowBinding = FALSE
  ManualRecover = FALSE
  Reconciler = FALSE
  MaxCrashes = 2
SPECIFICATION FairSpecWorkers
PROPERTIES ScrapeSettles
