\* Concurrent requests, slow fetches, a control plane that may fail or run ahead.
CONSTANTS
  None = None
  Lease = {l1}
  Expiry = 5
  Expiration <- MCExpiration
  Call = {p1, p2}
  Modes = {"STRICT", "BOUNDED_STALE", "EXPIRY_ONLY"}
  Offsets = {0, 2}
  RevocationCacheTTL = 1
  MaxStaleness = 2
  ClockSkew = 1
  FetchTimeout = 1
  MaxClock = 5
SPECIFICATION Spec
INVARIANT RevocationBound
PROPERTY RevokedStaysRevoked
PROPERTY AuthorizeReturns
CHECK_DEADLOCK FALSE
