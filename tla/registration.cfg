\* One server, time in seconds, a request takes up to one.
SPECIFICATION FairSpec
CONSTANTS
  Servers = {s1}
  Second = 1
  Latency = 1
  MaxReconnects = 2
  MaxFaults = 3
  MaxStarts = 2
  MaxLeases = 5
INVARIANTS
  TypeOK
  StaysListed
  GhostsExpire
  QuitsLast
PROPERTIES
  ImplementsMembership
  MembershipCorrected
  Settles
