SPECIFICATION Spec
CONSTANTS
  MaxRequests = 3
  Faults <- AllFaults
  MaxLoad = 4
INVARIANTS QueueIsSound ScreenMatchesQueue
PROPERTIES KeepsItsPromise ShownInOrder RepliesCome
CHECK_DEADLOCK FALSE
