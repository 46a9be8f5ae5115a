SPECIFICATION FairSpec
CONSTANTS
  Grace = 2
INVARIANTS
  ReleaseIsSafe
PROPERTIES
  KillIsLast
  EventuallyStopped
