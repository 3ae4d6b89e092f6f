SPECIFICATION Spec
CONSTANTS
  u1 = u1
  k1 = k1
  k2 = k2
  r1 = r1
  r2 = r2
  r3 = r3
  s1 = s1
  s2 = s2
  NoRef = NoRef
  NoReq = NoReq
  Users = {u1}
  Owner <- TheOwner
  Refs <- BillingRefs
  Keys = {k1, k2}
  Requests = {r1, r2, r3}
  Slots = {s1}
  KeyOf <- TwoAndOne
  Plan <- TightAndFree
  Uses <- SmallAndLarge
  HoldTokens = 2
  HoldMicro = 2
  StartUsers <- Users6
  StartLedger <- Ledger6
  MaxUses = 1
  KeyRequests = 2
  KeyCalls = 1
  LateUsage = FALSE
  MaxCrashes = 0
  MaxTime = 2
  PeriodLen = 1
  StaleAge = 0
  Limits = {0}
  MaxEdits = 1
INVARIANTS
  TypeOK
  NeverOversold
PROPERTY
  
  ImplementsAccount
CHECK_DEADLOCK FALSE
