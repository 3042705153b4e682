\* Two senders and a subscriber to the history of one queue and one id, of
\* which the trim keeps one version.
SPECIFICATION Spec
CONSTANTS
  Ids = {"a"}
  Extends <- Unrelated
  IdRank <- Lexicographic
  U64Max = 4
  NoId = NoId
  Queues = {q1}
  NoQueue = NoQueue
  Threads = {t1, t2}
  Conns = {c1}
  CounterKey <- DistinctKeys
  MaxKeyUpdates = 2
  NoLimit = NoLimit
  Capacity = 2
  DefaultQueues = {q1}
  CustomSeqs = {}
  SequenceParams <- LastOrTwo
  Free = Free
  MaxSends = 3
  MaxAdmin = 1
SYMMETRY Symmetric
INVARIANTS
  TypeOK
  SequencesDense
  RealTimeOrder
  NoLossOutsideWindow
  NoDuplicateOutsideWindow
  TrimmedOnlyIfSuperseded
  RetentionBound
CHECK_DEADLOCK FALSE
