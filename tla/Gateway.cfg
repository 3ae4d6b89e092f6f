SPECIFICATION Spec
CONSTANTS
  k1 = k1
  a1 = a1
  a2 = a2
  full = full
  s1 = s1
  s2 = s2
  r1 = r1
  r2 = r2
  r3 = r3
  r4 = r4
  Keys = {k1}
  Accounts = {a1, a2, full}
  Candidates = {a1, a2}
  Matching <- SameId
  Whole = 2
  Window = 1
  Requests = {r1, r2, r3, r4}
  KeyOf <- TheKey
  Slots = {s1, s2}
  Limits <- SomeRPM
  BindingLists <- Lists
  CandidateLists <- Offers
  StartBindings <- Halves
  MaxPicks = 3
  MaxEdits = 1
  MaxCrashes = 1
  MaxTime = 3
INVARIANTS
  LimitKept
  SharesKept
SYMMETRY Interchangeable
CHECK_DEADLOCK FALSE
