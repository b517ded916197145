\* Registrations and key rotations racing requests signed with the old
\* key, and uses of a lease racing a rotation that revokes it.
CONSTANTS
  w1 = w1
  w2 = w2
  w3 = w3
  k1 = k1
  k2 = k2
  k3 = k3
  seg = seg
  read = read
  write = write
  svc = svc
  amount = amount
  None = None
  Segment = {seg}
  Star = star
  BadSegment = bad
  BadEntry = badEntry
  Action = {read, write}
  Audience = {svc}
  Vocabulary = {amount}
  AmountKey = amount
  Malformed = malformed
  MaxAmount = 1
  DepthLimit = 2
  MaxTTL = 3
  Grant <- MCGrant
  Workload = {w1, w2}
  Key = {k1, k2, k3}
  LeaseId = {l1}
  IdempotencyKey = {i1}
  Proc = {p1, p2}
  Enrolled <- MCEnrolledOne
  MintRequest <- LimitedMint
  DelegateRequest <- LineageDelegate
  Overlap = {0, 1}
  Ops = {"mint", "register", "rotate", "consume"}
  MaxClock = 2
  MaxDelay = 1
SYMMETRY KeySymmetry
SPECIFICATION Spec
CHECK_DEADLOCK FALSE
INVARIANT TypeOK
INVARIANT KeysExclusive
PROPERTY CreatedFromCurrentState
PROPERTY NoUseAfterWithdrawal
