\* A sender and a subscriber that asks for everything from sequence 1.
SPECIFICATION Spec
CONSTANTS
  Ids = {"a"}
  Extends <- Unrelated
  IdRank <- Lexicographic
  U64Max = 4
  NoId = NoId
  Queues = {q1}
  NoQueue = NoQueue
  Threads = {t1}
  Conns = {c1}
  CounterKey <- DistinctKeys
  MaxKeyUpdates = NoLimit
  NoLimit = NoLimit
  Capacity = 2
  DefaultQueues = {q1}
  CustomSeqs = {}
  SequenceParams <- FromOne
  Free = Free
  MaxSends = 1
  MaxAdmin = 0
INVARIANT
  AllUpdatesSent
CHECK_DEADLOCK FALSE
