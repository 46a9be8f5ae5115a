SPECIFICATION Spec
CONSTANTS
  first = first
  second = second
  next = next
  both = both
  main = main
  None = None
  Jobs = {first, second}
  Named = {main}
  Deps <- Following
  Mention <- SharedMention
  ReplaySafe = {first}
  Callers = {p1}
  MaxAttempts = 1
PROPERTIES
  RecordedNeverRerun
