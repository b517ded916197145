\* Consumption of a limited-use lease by concurrent services, racing its withdrawal.
CONSTANTS
  w1 = w1
  k1 = k1
  seg = seg
  read = read
  svc = svc
  None = None
  Segment = {seg}
  Star = star
  BadSegment = bad
  BadEntry = badEntry
  Action = {read}
  Audience = {svc}
  Vocabulary = {amount}
  AmountKey = amount
  Malformed = malformed
  MaxAmount = 1
  DepthLimit = 2
  MaxTTL = 3
  Grant <- MCGrant
  Workload = {w1}
  Key = {k1}
  LeaseId = {l1}
  IdempotencyKey = {i1, i2, i3}
  Proc = {p1, p2, p3}
  Call = {c1, c2}
  ClockSkew = 1
  Enrolled <- MCEnrolled
  MintRequest <- MCMint
  DelegateRequest = {}
  Overlap = {}
  Ops = {"mint", "consume", "revoke", "disable"}
  MaxClock = 1
  MaxDelay = 0
SYMMETRY Symmetry
SPECIFICATION UseSpec
CHECK_DEADLOCK FALSE
INVARIANT UsesWithinBudget
PROPERTY NoUseAfterWithdrawal
PROPERTY KeepsBudget
