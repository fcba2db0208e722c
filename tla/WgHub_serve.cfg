SPECIFICATION Spec
CONSTANTS
  c1 = c1  c2 = c2
  Clients = {c1, c2}
  Users = {1, 2}
  Bodies <- MCBodies
  Modes = {"", "manual", "pathology"}
  OwnKey = 99
  Ops = {"put", "regenerate", "block", "user", "sub"}
  Faults = {"apply"}
  MaxRequests = 3
INVARIANTS EndsMeet
PROPERTY KeySticky
CHECK_DEADLOCK FALSE
