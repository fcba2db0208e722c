SPECIFICATION Spec
CONSTANTS
  h1 = h1  h2 = h2  s1 = s1  s2 = s2
  Handlers = {h1}
  Sched = Sched  Ticker = Ticker  Main = Main
  Sets = {s1, s2}
  Ops = {"put", "post", "delete", "refresh", "activate", "deactivate"}
  Tickers = {}
  Faults = {"disk", "apply", "fetch"}
  YamlPull = FALSE
  MaxFaults = 1
  MaxCrashes = 1
  MaxRequests = 3
INVARIANTS NoHalfState OwnerWrote
PROPERTIES ModeDurable BootRepairs
CHECK_DEADLOCK FALSE
