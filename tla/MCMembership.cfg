CONSTANTS
  u1 = u1
  m = m
  k1 = k1
  i1 = i1
  c1 = c1
  c2 = c2
  c3 = c3
  None = None
  People <- MCMixedUsers
  MixedCase <- MCMixedCase
  Roles <- MCRoles
  Invites <- MCInvites
  Requests <- MCCalls
  MaxRows = 4
  MaxFaults = 1
SPECIFICATION MembersSpec
SYMMETRY MCSymmetry
PROPERTIES
  LastAdminKept
  RoleUnusedWhenDeleted
  RemovalComplete
CHECK_DEADLOCK FALSE
