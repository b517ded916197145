\* Rotations, emergency rotations and retirements over two replicas, with slow
\* and failing fetches and copies in a shared cache.
CONSTANTS
  None = None
  k1 = k1
  Key = {k1, k2, k3}
  FirstKey = k1
  Replica = {r1, r2}
  HttpCache = {h1}
  Call = {p1, p2}
  MaxTTL = 1
  ClockSkew = 0
  CacheTTL = 1
  MaxAge = 2
  FetchTimeout = 1
  MaxClock = 3
SPECIFICATION Spec
INVARIANTS DroppedKeyBound GenuineTokenKnown
SYMMETRY Symmetry
CHECK_DEADLOCK FALSE
