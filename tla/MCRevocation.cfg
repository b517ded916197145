\* Mints and delegations racing lineage revocations, disables and rotations that
\* revoke.
CONSTANTS
  w1 = w1
  w2 = w2
  w3 = w3
  k1 = k1
  k2 = k2
  k3 = k3
  seg = seg
  read = read
  write = write
  svc = svc
  amount = amount
  None = None
  Segment = {seg}
  Star = star
  BadSegment = bad
  BadEntry = badEntry
  Action = {read, write}
  Audience = {svc}
  Vocabulary = {amount}
  AmountKey = amount
  Malformed = malformed
  MaxAmount = 1
  DepthLimit = 2
  MaxTTL = 3
  Grant <- MCGrant
  Workload = {w1, w2}
  Key = {k1, k2}
  LeaseId = {l1, l2, l3}
  IdempotencyKey = {}
  Proc = {p1, p2}
  Enrolled <- MCEnrolledTwo
  MintRequest <- LineageMint
  DelegateRequest <- LineageDelegate
  Overlap = {0}
  Ops = {"mint", "delegate", "revoke", "disable", "rotate"}
  MaxClock = 0
  MaxDelay = 0
SYMMETRY ProcSymmetry
SPECIFICATION Spec
CHECK_DEADLOCK FALSE
INVARIANT WithinGrant
INVARIANT LineageRevoked
INVARIANT DisabledHoldsNothing
INVARIANT AuditAccounts
PROPERTY CreatedFromCurrentState
