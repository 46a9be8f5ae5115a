SPECIFICATION FairSpec
CONSTANTS
  Tasks = {1, 2}
  Plain = {1}
  Keys = {k1, k2}
  Retainers = {r1, r2}
  Retention = 1
  Horizon = 0
  MaxAttempts = 1
  MaxTime = 1
PROPERTIES
  NothingOrphaned
  KeyRemembered
  EveryIntentCompletes
