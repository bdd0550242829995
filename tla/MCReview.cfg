CONSTANTS
  a = a  b = b  r1 = r1  r2 = r2
  luigi = luigi  pizzeria = pizzeria  c1 = c1  c2 = c2
  None = None
  Names = {luigi, pizzeria}
  Score <- Similar
  Contacts = {c1, c2}
  Records = {r1, r2}
  BrandNames <- LuigisReport
  BrandRules <- PizzeriasAreLuigis
  Priority <- OsmFirst
  Procs = {a, b}
  Plans <- ReviewPlans
  MaxPlaces = 3
SPECIFICATION Spec
INVARIANTS NoDuplicates ImportedAsAccepted
PROPERTIES ContactKept
CHECK_DEADLOCK FALSE
