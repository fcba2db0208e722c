SPECIFICATION FairSpec
CONSTANTS
  h1 = h1  h2 = h2  s1 = s1  s2 = s2
  UserIds = {1}
  Names <- OneName
  Handlers = {h1}
  Bridge = Bridge  Ticker = Ticker  Flusher = Flusher
  Loops = {Bridge, Ticker, Flusher}
  SyncIds = {s1}
  Ops = {"patchUsed", "pull"}
  Batches = {}
  Quota = 2
  Amounts = {1}
  Seeds <- OneUser
  Faults = {"users"}
  MaxBytes = 2
  MaxFaults = 1
  MaxCrashes = 0
  MaxRequests = 1
  MaxRev = 4
INVARIANTS CountedOnce 
PROPERTIES UsageConverges 
CHECK_DEADLOCK FALSE
