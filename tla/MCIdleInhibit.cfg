SPECIFICATION Spec
CONSTANTS
  a = a  b = b
  Clients = {a, b}
  Durations = {0, 1}
  Deltas <- OneMinute
  PerMinute = 2  Width = 64  MaxEdits = 2  MaxHolds = 2
INVARIANTS TypeOK
PROPERTIES RunFollowsCountdown CountdownEnds HoldsBelong DepartedHoldNothing
CHECK_DEADLOCK FALSE
