CONSTANTS
  Users = {u}
  Admins = {admin}
  SuperAdmins = {s}
  Others = Others
  Persons = {p}
  Folders = {f1, f2}
  Files = {x}
  Names = {n1, n2}
  Calls = {c1, c2}
  NoFolder = NoFolder
  Anywhere = Anywhere
  OtherName = OtherName
SPECIFICATION Spec
INVARIANTS
  FolderNamedAfterPerson
  
  ListedCanBeOpened
PROPERTIES
  RemovalKeepsLevels
SYMMETRY MCSymmetry
CHECK_DEADLOCK FALSE
