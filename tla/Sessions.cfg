SPECIFICATION FairSpec
CONSTANTS
  first = first
  second = second
  next = next
  both = both
  main = main
  None = None
  Jobs = {first, second, next, both}
  Named = {main}
  Deps <- Following
  Mention <- SharedMention
  ReplaySafe = {second, next}
  Callers = {p1, p2}
  MaxAttempts = 2
INVARIANTS
  RunHoldsSession
  GivenInFull
  UnknownRunIsLast
PROPERTIES
  SentSafely
  KeepsJobContract
  DependentsReleased
