SPECIFICATION FairOpening
CONSTANTS
  Openers = {p1, p2}
  OldCommands = {c1}
  NewCommands = {c2}
  MaxCrashes = 2
INVARIANTS
  CommandsKept
PROPERTIES
  EventuallyMigrated
