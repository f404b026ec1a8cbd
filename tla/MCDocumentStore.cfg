CONSTANTS
  h1 = h1
  h2 = h2
  w = w
  d1 = d1
  d2 = d2
  NoDoc = NoDoc
  Handlers <- MCHandlers
  Workers <- MCWorkers
  Docs <- MCDocs
  BatchSize = 1
  MaxFaults = 1
SPECIFICATION FairSpec
INVARIANTS
  LiveHasObject
  NoOrphans
  ReportedAreGone
PROPERTIES
  ContentMovedFirst
  ArchivedIsPurged
CHECK_DEADLOCK FALSE
