SPECIFICATION Spec
CONSTANTS
  Forms <- AllForms
  MaxAttempts = 2
  MaxRequests = 2
  MaxBlocks = 2
  MaxChanges = 1
  Contents = {1, 2}
  Endpoints = {e1, e2}
  Approvals = {1}
  MaxProbes = 1
  MaxReplaced = 2
SYMMETRY EndpointSymmetry
INVARIANTS
  KnownOutcomeIsTrue
  UsedAsApproved
  EvidenceIsLast
PROPERTY
  ModeNotWidened
CHECK_DEADLOCK FALSE
