\* One lineage: grants, root requests and delegations over small sets.
CONSTANTS
  a = a
  b = b
  star = star
  bad = bad
  badEntry = badEntry
  read = read
  write = write
  amount = amount
  env = env
  prod = prod
  malformed = malformed
  svc = svc
  other = other
  Segment = {a, b}
  Star = star
  BadSegment = bad
  BadEntry = badEntry
  Action = {read, write}
  Audience = {svc, other}
  Vocabulary = {amount, env}
  AmountKey = amount
  Malformed = malformed
  MaxAmount = 3
  DepthLimit = 2
  MaxTTL = 3
  Now = 1
  Skew = 1
  Grants <- MCGrants
  Requests <- MCRequests
  Probes <- MCProbes
SPECIFICATION Spec
INVARIANT NeverWidens
INVARIANT CoversExact
INVARIANT LineageBounded
CHECK_DEADLOCK FALSE
