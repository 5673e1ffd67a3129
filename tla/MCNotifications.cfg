SPECIFICATION Spec
CONSTANTS
  a = a  b = b  main = main  bus = bus  timer = timer
  NoName = NoName  NoOwner = NoOwner
  Apps = {a, b}
  Kinds <- StoredKind
  Blocklists <- NoBlocklists
  Callers = {main}
  Callbacks = {timer}
  MaxId = 2  MaxStamp = 2  MaxCrashes = 1
INVARIANTS TypeOK HistoryIsIndexed ClosedIdStaysClosed
PROPERTIES ServesAsPromised TimedThingsGo
