CONSTANTS
  detroit = detroit  annArbor = annArbor  permit = permit
  A = A  B = B  Bad = Bad  tip = tip
  None = None  Malformed = Malformed  Gone = Gone
  Cities <- TwoCities
  Obj <- TwoIdsAndOne
  Identity <- OnePermit
  Version <- ThreeVersions
  Refused <- OneRefused
  BatchSize = 2
  MaxBatches = 1
  Tip <- OneTip
  MaxScans <- TwoScansAndOne
  MaxStops = 1
SPECIFICATION FairSpec
INVARIANTS KeyNamesOneCommand LedgerIsWebsite
PROPERTIES CursorPassesDelivered ScanEnds
