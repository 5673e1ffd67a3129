SPECIFICATION Spec
CONSTANTS
  Configs <- ReloadedConfigs
  Logind = FALSE
  Faults <- LockFails
  MaxRequests = 2  MaxTries = 2  MaxActivity = 1  MaxCrashes = 0  MaxQueue = 2
INVARIANTS
  TypeOK LockIsWhole InputHasItsConversation AnswersMeetTheirPrompt
  AttemptsDecideInput
CHECK_DEADLOCK FALSE
