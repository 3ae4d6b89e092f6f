SPECIFICATION Spec
CONSTANTS
  u1 = u1
  k1 = k1
  k2 = k2
  r1 = r1
  r2 = r2
  r3 = r3
  s1 = s1
  s2 = s2
  NoRef = NoRef
  NoReq = NoReq
  Users = {u1}
  Owner <- TheOwner
  Refs <- BillingRefs
  Keys = {k1}
  Requests = {r1, r2}
  Slots = {s1, s2}
  KeyOf <- OneKey
  Plan <- TightTokens
  Uses <- AllUses
  HoldTokens = 2
  HoldMicro = 2
  StartUsers <- Users3
  StartLedger <- Ledger3
  MaxUses = 1
  KeyRequests = 2
  KeyCalls = 2
  LateUsage = FALSE
  MaxCrashes = 0
  MaxTime = 1
  PeriodLen = 1
  StaleAge = 0
  Limits = {0}
  MaxEdits = 0
INVARIANT
  NeverOversold
CHECK_DEADLOCK FALSE
