SPECIFICATION HostSpec
CONSTANTS
  a = a  main = main  timer = timer
  NoName = NoName  NoOwner = NoOwner
  Apps = {a}
  Kinds <- BackedKinds
  Blocklists <- BlocklistOrNone
  Configs <- TwoConfigs
  Callers = {main}
  Callbacks = {timer}
  MaxId = 2  MaxStamp = 2  MaxCrashes = 1
INVARIANTS StackIsSound CardsFollowPopups
PROPERTIES CardsKeepTheirOrder
