\* One worker and two ids, one a prefix of the other.
SPECIFICATION Spec
CONSTANTS
  Ids = {"a", "ab"}
  Extends <- Nested
  IdRank <- Lexicographic
  U64Max = 4
  NoId = NoId
  Queues = {q1}
  NoQueue = NoQueue
  Threads = {t1}
  Conns = {}
  CounterKey <- DistinctKeys
  MaxKeyUpdates = NoLimit
  NoLimit = NoLimit
  Capacity = 2
  DefaultQueues = {q1}
  CustomSeqs = {}
  SequenceParams <- AnyParam
  Free = Free
  MaxSends = 1
  MaxAdmin = 1
PROPERTY
  DeleteOnlyItsId
CHECK_DEADLOCK FALSE
