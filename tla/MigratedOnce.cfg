SPECIFICATION OpeningSpec
CONSTANTS
  Openers = {p1, p2}
  OldCommands = {c1}
  NewCommands = {c2}
  MaxCrashes = 2
INVARIANT
  MigratedOnce
