\* Two senders, a delete or a close, and a crash at any step.
SPECIFICATION RestartSpec
CONSTANTS
  Ids = {"a"}
  Extends <- Unrelated
  IdRank <- Lexicographic
  U64Max = 6
  NoId = NoId
  Queues = {q1}
  NoQueue = NoQueue
  Threads = {t1, t2}
  Conns = {}
  CounterKey <- DistinctKeys
  MaxKeyUpdates = 2
  NoLimit = NoLimit
  Capacity = 2
  DefaultQueues = {q1}
  CustomSeqs = {}
  SequenceParams <- AnyParam
  Free = Free
  MaxSends = 4
  MaxAdmin = 1
  MaxCrashes = 1
SYMMETRY Symmetric
INVARIANTS
  FlushedKept
  FlushedNeverReused
  RetentionRecovers
CHECK_DEADLOCK FALSE
