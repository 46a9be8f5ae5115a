SPECIFICATION Spec
CONSTANTS
  Tasks = {1}
  Workers = {1}
  Keys = {k1, k2}
  SpecOf <- BudgetedSpecs
  Runtimes = {"run", "write"}
  WorkerForms <- OneForm
  MaxActive = 1
  WorkerTTL = 1
  AnswerTokens = {1}
  WarmupCommands = 1
  IdentityMayFail = TRUE
  MaxTime = 3
  MaxRows = 2
  MaxLaunch = 2
  Relaunched = {1}
  MaxSequence <- FirstBeats
  MaxFaults = 0
SYMMETRY KeySymmetry
INVARIANTS
  AcceptedOutcome
  RetryDiscipline
  ExecutionHoldsSlot
  OneRunnerPerTask
  OverruledUnheard
  UsageConservation
  RequestWithinBudget
PROPERTIES
  TerminalFrozen
  UnknownAwaitsOperator
  ClaimedOnce
