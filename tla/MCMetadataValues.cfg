CONSTANTS
  k1 = k1
  k2 = k2
  d1 = d1
  d2 = d2
  a = a
  b = b
  c1 = c1
  c2 = c2
  c3 = c3
  None = None
  Keys <- MCKeys
  Docs <- MCDocs
  Values <- MCValues
  Calls <- MCCalls
  MaxRows = 4
  MaxFaults = 1
SPECIFICATION Spec
SYMMETRY MCSymmetry
INVARIANTS
  ListRespected
PROPERTIES
  ReplacementIsExact
CHECK_DEADLOCK FALSE
