CONSTANTS
  a = a
  b = b
  k = k
  c1 = c1
  c2 = c2
  Docs <- MCDocs
  Keys <- MCKeys
  Calls <- MCCalls
  None = None
  Generations = 2
  Fetches = 2
  Polls = 1
  Operations = 4
  Faults = 1
SPECIFICATION Spec
INVARIANTS
  OpenedShowsItsOwn
  TimersAreRegistered
SYMMETRY Symmetry
CHECK_DEADLOCK FALSE
