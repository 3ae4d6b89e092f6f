SPECIFICATION Spec
CONSTANTS
  ann = ann
  t1 = t1
  t2 = t2
  None = None
  Ids = {i1, i2}
  Names <- MCNames
  Telegrams <- MCTelegrams
  Slots = {s1, s2}
  RegistrationOpen = TRUE
  RequireApproval = TRUE
  LockAfter = 2
  LockFor = 1
  SessionTTL = 0
  MaxEdits = 1
  MaxTroubles = 1
  MaxCalls = 5
  MaxTime = 2
SYMMETRY Interchangeable
INVARIANTS
  TypeOK
  
  TelegramSignsOwn
  
PROPERTIES
  LockHolds
CHECK_DEADLOCK FALSE
