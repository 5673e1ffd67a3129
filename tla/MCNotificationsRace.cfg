SPECIFICATION Spec
CONSTANTS
  a = a  b = b  main = main  bus = bus  timer = timer
  NoName = NoName  NoOwner = NoOwner
  Apps = {a, b}
  Kinds <- TimedKinds
  Blocklists <- BIsBlocked
  Callers = {main, bus}
  Callbacks = {timer}
  MaxId = 2  MaxStamp = 2  MaxCrashes = 0
INVARIANTS PopupsAreIndexed ClosedOnce
PROPERTIES HaltedPopupStays
