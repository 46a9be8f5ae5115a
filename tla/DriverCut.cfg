SPECIFICATION Spec
CONSTANTS
  Children = {c1}
  Quiet = 1
  GiveUp = 1
  LostAfter = 2
  MaxTurns = 2
  MaxEvents = 1
  MaxStops = 1
INVARIANT
  CutTurnIsUnknown
CHECK_DEADLOCK FALSE
