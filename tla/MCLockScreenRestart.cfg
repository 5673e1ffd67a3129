SPECIFICATION Spec
CONSTANTS
  Configs <- AutologinConfig
  Logind = TRUE
  Faults <- NoFaults
  MaxRequests = 1  MaxTries = 2  MaxActivity = 0  MaxCrashes = 1  MaxQueue = 1
PROPERTIES OrphanIsRetaken ConversationIsDecided LocksAsPromised
CHECK_DEADLOCK FALSE
