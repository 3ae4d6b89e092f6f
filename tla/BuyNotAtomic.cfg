SPECIFICATION Spec
CONSTANTS
  u1 = u1
  u2 = u2
  p1 = p1
  p2 = p2
  k1 = k1
  k2 = k2
  s1 = s1
  s2 = s2
  None = None
  NoRef = NoRef
  Users = {u1, u2}
  Packages = {p1, p2}
  Keys = {k1, k2}
  Slots = {s1, s2}
  Refs <- ShopRefs
  PackageRows <- Rows
  AdminInputs <- Inputs
  SwitchInputs <- Switches
  DefaultAmount = 2
  StartUsers <- Wallets
  StartLedger <- Opening
  StartPackages <- Catalogue
  StartKeys <- Ending
  KeyWriters = 2
  MaxRows = 3
  MaxEdits = 1
  MaxFaults = 0
  MaxTime = 2
INVARIANT PaidIsDelivered
CHECK_DEADLOCK FALSE
