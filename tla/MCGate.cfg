CONSTANTS
  a = a  b = b  k1 = k1  k2 = k2
  None = None  Nothing = Nothing
  Abandoned = Abandoned
  Procs <- TwoProcs
  Tokens <- TwoTokens
  ReusedInodes = FALSE
  ReaperCrashes = TRUE
  MaxCrashes = 2
  Input <- SomeInputs
  Records <- Counts
  Lifetimes = {1, 2}
  DiskSize = 3
  MaxTime = 1
  MaxContexts = 2
  MaxRuns = 3
  MaxDatasets = 3
  MaxSubjects = 1
SPECIFICATION HostSpec
INVARIANTS ExclusiveUse NoStrayTicket WritesHonourSources ReservationsHonoured ChecksAgree
PROPERTIES IsExclusiveResource Served
CHECK_DEADLOCK FALSE
