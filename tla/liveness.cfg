\* Workers that contend for the mutex, and the streams they close or outrun.
SPECIFICATION FairSpec
CONSTANTS
  Ids = {"a"}
  Extends <- Unrelated
  IdRank <- Lexicographic
  U64Max = 4
  NoId = NoId
  Queues = {q1}
  NoQueue = NoQueue
  Threads = {t1, t2}
  Conns = {c1}
  CounterKey <- DistinctKeys
  MaxKeyUpdates = NoLimit
  NoLimit = NoLimit
  Capacity = 1
  DefaultQueues = {q1}
  CustomSeqs = {}
  SequenceParams <- NoneOrLast
  Free = Free
  MaxSends = 2
  MaxAdmin = 1
PROPERTIES
  RequestAnswered
  StreamCloses
  LongpollAnswers
CHECK_DEADLOCK FALSE
