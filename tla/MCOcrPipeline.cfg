CONSTANTS
  c1 = c1
  c2 = c2
  c3 = c3
  Calls <- MCCalls
  MaxFaults = 1
SPECIFICATION FairSpec
INVARIANTS
  KeysKeptWhileOpen
  OcrInProgressHasCall
PROPERTIES
  OcrSettles
  ExtractionSettles
  ImplementsDocumentProgress
CHECK_DEADLOCK FALSE
