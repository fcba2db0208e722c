SPECIFICATION Spec
CONSTANTS
  c1 = c1  c2 = c2  c3 = c3
  i1 = i1  i2 = i2
  t1 = t1  t2 = t2  l1 = l1  l2 = l2
  p1 = p1  p2 = p2
  Configs = {c1, c2, c3}
  NoFile = NoFile
  Insts = {i1, i2}
  NoInst = NoInst
  Callers = {t1, t2}
  Main = Main
  Loops = {l1}
  Valid = {c1, c2, c3}
  Unstartable = {c3}
  Binds <- MCBinds
  Requests <- PutRequests
  Ops = {"apply", "start"}
  Faults = {}
  ProbeEnabled = TRUE
  MaxRevision = 3
  MaxBackoff = 2
  MaxCrashes = 2
INVARIANT LastGoodServes
