\* Two requests, each with a sequence of its own or without.
SPECIFICATION FairSpec
CONSTANTS
  Subs = {s1, s2}
  Clients = {1, 2}
  NoClient = NoClient
  Capacity = 1
  MaxFrames = 2
  MaxReloads = 1
CHECK_DEADLOCK FALSE
INVARIANTS
  TypeOK
  DeliveredInOrder
  CreatorServed
  OrphansOnlyFromRace
PROPERTIES
  SubscribeReturns
  DeadSocketCloses
  NothingLeaks
