SPECIFICATION FairSpec
CONSTANTS
  c1 = c1  c2 = c2
  Clients = {c1, c2}
  Operation <- OneEach
  s1 = s1  s2 = s2
  Specs = {s1, s2}
  NoSpec = NoSpec
  Seed = s1
  NoFile = NoFile
  MaxTokens = 3
  MaxRequests = 3
  MaxFaults = 1
  MaxCrashes = 1
INVARIANTS NoLockout AnswersHold OffStaysOff
PROPERTY KeepsPosting
CHECK_DEADLOCK FALSE
