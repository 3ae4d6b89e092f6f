SPECIFICATION BootSpec
CONSTANTS
  u1 = u1
  k1 = k1
  k2 = k2
  r1 = r1
  r2 = r2
  r3 = r3
  s1 = s1
  s2 = s2
  NoRef = NoRef
  NoReq = NoReq
  Users = {u1}
  Owner <- TheOwner
  Refs <- BillingRefs
  Keys = {k1, k2}
  Requests = {r1, r2}
  Slots = {s1, s2}
  KeyOf <- TwoKeys
  Plan <- TightAndWallet
  Uses <- SmallAndLarge
  HoldTokens = 2
  HoldMicro = 2
  StartUsers <- UsersCredit
  StartLedger <- LedgerCredit
  MaxUses = 1
  KeyRequests = 1
  KeyCalls = 1
  LateUsage = TRUE
  MaxCrashes = 1
  MaxTime = 2
  PeriodLen = 1
  StaleAge = 0
  Limits = {0}
  MaxEdits = 1
INVARIANTS
  WalletHoldsReconcile
  LedgerExplainsBalance
  CrashLosesAtMost
PROPERTY
  FloorHolds
  FailedHoldFreed
  StaleHoldFreed
CHECK_DEADLOCK FALSE
