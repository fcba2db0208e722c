SPECIFICATION Spec
CONSTANTS
  grp = grp  lone = lone  dom = dom  prof = prof  sa = sa  sb = sb  sc = sc
  c1 = c1  c2 = c2
  Clients = {c1}
  Names = {grp, lone}
  Presets <- MCPresets
  SlotOf <- MCSlotOf
  Snis = {sa, sb, sc, dom}
  Defaults = {sa, sb}
  Pools = {{sb, sc}}
  Host = Host
  Default = Default
  Profiles = {Default, prof}
  Bodies <- MCBodies
  PrivatePorts = {1, 2, 3, 4, 5, 6}
  Installs <- MCInstalls
  Keys = {1, 2, 3, 4, 5, 6, 7, 8}
  Gens = {1, 2, 3}
  None = None
  Ops = {"install"}
  Faults = {}
  MaxRequests = 2
INVARIANT ClientReaches
CHECK_DEADLOCK FALSE
