SPECIFICATION Spec
CONSTANTS
  h1 = h1  h2 = h2  s1 = s1  s2 = s2
  UserIds = {1, 2, 3}
  Names <- TwoNames
  Handlers = {h1}
  Bridge = Bridge  Ticker = Ticker  Flusher = Flusher
  Loops = {}
  SyncIds = {s1, s2}
  Ops = {"create", "patchName", "patchSync", "patchReset", "disable", "delete", "hardDelete",
         "rotate", "toggle", "membership", "import", "metrics"}
  Batches <- HubBatches
  Quota = 2
  Amounts = {0}
  Seeds <- TwoUsers
  Faults = {"users", "counters", "apply"}
  MaxBytes = 0
  MaxFaults = 1
  MaxCrashes = 1
  MaxRequests = 2
  MaxRev = 6
INVARIANTS ImportIdempotent
PROPERTIES ProfileVersioned
CHECK_DEADLOCK FALSE
