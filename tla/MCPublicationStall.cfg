CONSTANTS
  a = a  b = b  k1 = k1  k2 = k2  alien = alien  luigi = luigi  pizzeria = pizzeria
  None = None
  Ids = {1, 2}
  Keys = {k1, k2, alien}
  Names = {luigi, pizzeria}
  Procs = {a, b}
  Launchd = a
  Plans <- LatePlan
  Limit = 1
  MaxBatches = 2
  QaLimit = 1
SPECIFICATION Spec
PROPERTIES StopsOnlyWhenIdle
