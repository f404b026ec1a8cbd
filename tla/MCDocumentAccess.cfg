CONSTANTS
  u1 = u1
  g1 = g1
  d1 = d1
  r1 = r1
  r2 = r2
  plain = plain
  person = person
  c1 = c1
  None = None
  Users <- MCUsers
  Groups <- MCGroups
  Docs <- MCDocs
  Rules <- MCRules
  Facts <- MCFacts
  SystemFacts <- MCSystemFacts
  Calls <- MCCalls
  MaxChanges = 1
SPECIFICATION Spec
SYMMETRY MCSymmetry
INVARIANTS
  GrantedWasAllowed
  OpenImpliesListed
  OfferIsExact
PROPERTIES
  RevocationNarrows
CHECK_DEADLOCK FALSE
