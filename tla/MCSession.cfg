CONSTANTS
  Users = {u1, u2}
  Companies = {"c1", "c2"}
  Keys = {"documents.manage"}
  SuperAdmins = {u2}
  NoUser = NoUser
  NoCompany = NoCompany
  FirstRows <- MCRows
  Changes = 1
  Pending = 2
  Repeats = 1
SPECIFICATION SessionSpec
INVARIANTS
  OfferedIsAllowed
  ShownIsSignedIn
CHECK_DEADLOCK FALSE
