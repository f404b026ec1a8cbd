CONSTANTS
  d1 = d1
  d2 = d2
  p1 = p1
  p2 = p2
  Documents <- MCDocuments
  Ids <- MCIds
  Labels <- MCLabels
  Values <- MCValues
  Blank = ""
  SystemKeys <- MCSystemKeys
  MetaKeys <- MCMetaKeys
  Missing = Missing
  Nil = Nil
  FirstStates <- MCFirst
  Changes = 1
  Pending = 1
  MaxRows = 1
SPECIFICATION TreeSpec
INVARIANTS
  NodeShowsItsDocuments
  TreeHoldsEveryDocument
  RowsAreActive
CHECK_DEADLOCK FALSE
