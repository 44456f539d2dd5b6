SPECIFICATION Spec
CONSTANTS
  Checks = {v1, v2}
  Calls = {c1, c2}
  Day = 2
  CacheTTL = 2
  Offline = 4
  GoodTTL = 5
  Grace = 2
  Terms = {2}
  Extension = 2
  MaxEvents = 4
SYMMETRY Symmetry
INVARIANTS
  TypeOK
  PaidPanelRuns
  
  WordIsKept
CHECK_DEADLOCK FALSE
