\* Two shards and one id; two versions of a message, channels of one message.
SPECIFICATION FairSpec
CONSTANTS
  Shards = {1, 2}
  Ids = {1}
  NoId = NoId
  Maglev <- Spread
  Default = TRUE
  NoLimit = NoLimit
  MaxKeyUpdates = 2
  Capacity = 1
  Asked <- FromFirst
  Mixes <- SomeMixes
  MaxRequests = 3
  MaxFaults = 1
INVARIANTS
  TypeOK
  ShardsAgree
  RemovedStaysRemoved
  HistoryReachable
  EmptyOnlyWhenEnded
PROPERTIES
  NobodyLeftWaiting
CHECK_DEADLOCK FALSE
