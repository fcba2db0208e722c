SPECIFICATION FairSpec
CONSTANTS
  na = na  nb = nb  v1 = v1
  Clients = {c1}
  c1 = c1
  Boot = Boot
  Deleted = Deleted
  Names = {na, nb}
  PortOrder <- MCPorts
  Docs = {"dns"}
  Versions = {v1}
  NUsers = 1
  Hosts = {2, 3}
  SetBodies <- MCSetBodies
  HubBodies <- MCHubBodies
  Seeds <- MCSeeds
  Batches <- MCBatches
  Ops = {"create", "put", "delete", "activate", "deactivate", "fromPresets", "fromDemux", "wg", "doc", "user", "sub", "commit"}
  Faults = {"apply"}
  MaxCommits = 2
  MaxRequests = 2
  MaxCrashes = 1
PROPERTY CommitEnds
INVARIANTS PortsDisjoint Served 
CHECK_DEADLOCK FALSE
