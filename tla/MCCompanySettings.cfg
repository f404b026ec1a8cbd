CONSTANTS
  a = a
  b = b
  png = png
  svg = svg
  u = u
  c1 = c1
  c2 = c2
  Companies <- MCCompanies
  First <- MCFirst
  Kinds <- MCKinds
  Urls <- MCUrls
  Calls <- MCCalls
  None = None
  Operations = 5
  Faults = 1
SPECIFICATION Spec
INVARIANTS
  LogoIsServable
  DetailsAreOwn
CHECK_DEADLOCK FALSE
