CONSTANTS
  PageCount = 3
  Proposals <- MCProposals
  MaxPolls = 3
  TypeIds = {t1}
  NoType = NoType
  NoReview = NoReview
SPECIFICATION FairSplitSpec
INVARIANTS
  PartsAsReviewed
  NormalizedIsAccepted
  ResumableIsLive
PROPERTIES
  ReviewedIsFiled
  ProposalEnds
CHECK_DEADLOCK FALSE
