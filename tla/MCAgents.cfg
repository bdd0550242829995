CONSTANTS
  p1 = p1  p2 = p2  s1 = s1  s2 = s2  c1 = c1  c2 = c2  m1 = m1  m2 = m2
  None = None
  Places <- OnePlace
  Workers <- AllAgents
  Scrapers <- TwoScrapers
  Classifiers <- Nobody
  Parsers <- TwoParsers
  Scope <- AllScopes
  Priority <- OnePriority
  MaxAttempts = 2
  MaxRequeues = 1
  ReusedIds = FALSE
  RequeueBatch = FALSE
  PendingMax = 1
  BusyQueue = FALSE
  SlowBinding = FALSE
  ManualRecover = FALSE
  Reconciler = FALSE
  MaxCrashes = 1
SPECIFICATION SpecWorkers
INVARIANTS ClaimExclusive
CHECK_DEADLOCK FALSE
