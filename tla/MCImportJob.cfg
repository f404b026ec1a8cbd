CONSTANTS
  Jobs = {j1}
  Files = {f1, f2}
  FilesOf <- MCFilesOf
  Documents <- MCDocuments
  MaxPolls = 2
SPECIFICATION FairSpec
INVARIANTS
  FailureStaysVisible
PROPERTIES
  SuccessMeansDone
  JobsEnd
CHECK_DEADLOCK FALSE
