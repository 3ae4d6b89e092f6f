SPECIFICATION Spec
CONSTANTS
  k1 = k1
  k2 = k2
  r1 = r1
  r2 = r2
  s1 = s1
  s2 = s2
  None = None
  Keys = {k1, k2}
  Requests = {r1, r2}
  KeyOf <- OneEach
  StartModes <- FullAndStandard
  Slots = {s1, s2}
  Costs = {1}
  Retention = 0
  MaxPending = 0
  MaxAttempts = 1
  MaxRows = 4
  MaxEdits = 1
  MaxCrashes = 1
  MaxTime = 2
INVARIANTS
  ContextIsBrief
  
  UsageIsLogged
  

  
SYMMETRY Interchangeable
CHECK_DEADLOCK FALSE
