SPECIFICATION FairSpec
CONSTANTS
  h1 = h1  h2 = h2  s1 = s1  s2 = s2
  Handlers = {h1, h2}
  Sched = Sched  Ticker = Ticker  Main = Main
  Sets = {s1}
  Ops = {"post", "activate"}
  Tickers = {Ticker}
  Faults = {}
  YamlPull = FALSE
  MaxFaults = 0
  MaxCrashes = 0
  MaxRequests = 2
PROPERTIES ScheduleRuns RequestsEnd
CHECK_DEADLOCK FALSE
