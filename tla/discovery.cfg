\* Both kinds of discovery, two registry threads, an upstream client.
SPECIFICATION FairSpec
CONSTANTS
  Shards = {1, 2}
  Kinds = {"etcd", "api"}
  Defaults <- One
  Registries = {r1, r2}
  Clients = {c1}
  AllClients = {c1}
  Route <- Lowest
  NoMsg = NoMsg
  MaxReconnects = 1
  MaxChanges = 2
  MaxFaults = 2
INVARIANTS
  TypeOK
  FollowsEtcdOutsideWindow
  ConnectedOutsideWindow
  GivesUpLast
  NoWakeUpLost
PROPERTIES
  ReloadsAfterUpdate
