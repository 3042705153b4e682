\* A queue-wide client opens its connections while a list is posted.
SPECIFICATION Spec
CONSTANTS
  Shards = {1, 2}
  Kinds = {"api"}
  Defaults <- One
  Registries = {r1}
  Clients = {c1}
  AllClients = {c1}
  Route <- Lowest
  NoMsg = NoMsg
  MaxReconnects = 1
  MaxChanges = 2
  MaxFaults = 0
INVARIANT
  OnEveryShard
