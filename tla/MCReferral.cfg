SPECIFICATION ReferralSpec
CONSTANTS
  u1 = u1
  u2 = u2
  u3 = u3
  t1 = t1
  s1 = s1
  s2 = s2
  NoRef = NoRef
  NoUser = NoUser
  Users = {u1, u2, u3}
  Refs = {t1}
  Txs = {t1}
  Deposit <- MCDeposit
  Amounts = {1, 2}
  Paid = {1, 2}
  Newcomers = {u3}
  StartUpline <- MCUpline
  Limits <- MCLimits
  MaxRows = 3
  Slots = {s1, s2}
  Tiers <- MCTiers
  Fixed = 1
  Qualify = 3
  MaxEdits = 1
  MaxCrashes = 1
INVARIANTS
  TelegramRefOnce
  AcceptedMeansCredited
  FixedOncePerPair
  EarningsReconcile
  EarningsHaveRecharges
  ThresholdPays
PROPERTY
  ImplementsRecharge
SYMMETRY Interchangeable
CHECK_DEADLOCK FALSE
