SPECIFICATION FairSpec
CONSTANTS
  extract = extract
  review = review
  Keys = {extract, review}
  Plans <- ThreePlans
  CommandKeys = {k1}
  MaxChildren = 2
  MaxTokens = 4
  MaxAttempts = 2
  Spends = {1, 3}
  MaxTries = 2
  MaxActive = 2
  MaxRevisions = 2
CHECK_DEADLOCK FALSE
INVARIANTS
  BudgetNotOversold
  EndedIsStopped
  OnlyCurrentPlanRuns
  HandedOverFirst
PROPERTIES
  ChildrenEnd
  KeepsContracts
