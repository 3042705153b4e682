\* Two senders, a delete or a close, on a queue that trims its history.
SPECIFICATION Spec
CONSTANTS
  Ids = {"a"}
  Extends <- Unrelated
  IdRank <- Lexicographic
  U64Max = 6
  NoId = NoId
  Queues = {q1}
  NoQueue = NoQueue
  Threads = {t1, t2}
  Conns = {}
  CounterKey <- DistinctKeys
  MaxKeyUpdates = 3
  NoLimit = NoLimit
  Capacity = 2
  DefaultQueues = {q1}
  CustomSeqs = {}
  SequenceParams <- AnyParam
  Free = Free
  MaxSends = 4
  MaxAdmin = 1
SYMMETRY Symmetric
INVARIANTS
  VersionsKept
CHECK_DEADLOCK FALSE
