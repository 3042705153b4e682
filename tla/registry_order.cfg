\* Two lists are posted to a proxy with two registry threads.
SPECIFICATION Spec
CONSTANTS
  Shards = {1, 2}
  Kinds = {"api"}
  Defaults <- One
  Registries = {r1, r2}
  Clients = {c1}
  AllClients = {c1}
  Route <- Lowest
  NoMsg = NoMsg
  MaxReconnects = 1
  MaxChanges = 2
  MaxFaults = 0
INVARIANT
  KnowsAllShards
