SPECIFICATION FairSpec
CONSTANTS
  Tasks = {1, 2}
  Workers = {1}
  Keys = {k1, k2}
  SpecOf <- SharedSpecs
  Runtimes = {"run", "write"}
  WorkerForms <- TwoForms
  MaxActive = 1
  WorkerTTL = 1
  AnswerTokens = {}
  WarmupCommands = 0
  IdentityMayFail = TRUE
  MaxTime = 1
  MaxRows = 2
  MaxLaunch = 1
  Relaunched = {1}
  MaxSequence <- NoBeats
  MaxFaults = 1
INVARIANTS
  CapacityBound
  SlotsMatchTasks
PROPERTIES
  ImplementsContract
  EventuallyDecided
