SPECIFICATION FairSpec
CONSTANTS
  c1 = c1  c2 = c2  c3 = c3
  i1 = i1  i2 = i2
  t1 = t1  t2 = t2  l1 = l1  l2 = l2
  p1 = p1  p2 = p2
  Configs = {c1, c2, c3}
  NoFile = NoFile
  Insts = {i1, i2}
  NoInst = NoInst
  Callers = {t1, t2}
  Main = Main
  Loops = {l1}
  Valid = {c1, c2, c3}
  Unstartable = {c3}
  Binds <- MCBinds
  Requests <- LiveRequests
  Ops = {"apply", "start", "stop"}
  Faults = {"disk", "start", "die", "cancel", "shutdown"}
  ProbeEnabled = TRUE
  MaxRevision = 1
  MaxBackoff = 2
  MaxCrashes = 0
INVARIANTS TypeOK Mutex NoOrphan
PROPERTIES FlagReleased ShutdownCompletes
CHECK_DEADLOCK FALSE
