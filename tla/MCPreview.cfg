CONSTANTS
  p1 = p1  r1 = r1  r2 = r2  a = a  b = b
  None = None
  Proc <- OneProc
  Run <- TwoRuns
  Port <- Ports
  Stage <- ThreeStages
  StageCount = 3
  Source <- ThreeSources
  Inputs <- ThreeInputs
  Declared <- ThreeDeclared
  Required <- ThreeRequired
  Ephemeral <- InMemory
  Content <- OwnContent
  StoreFaults = TRUE
  MaxCrashes = 1
SPECIFICATION FairSpec
CHECK_DEADLOCK FALSE
INVARIANTS LedgerConsistent ArtifactsBacked SettledStageIsClean RegistryExact AbortedRunIsNotServed
PROPERTIES RunSettles
