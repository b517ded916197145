\* Replays while the map fills up, is swept, and refuses.
CONSTANTS
  a = a
  b = b
  d = d
  None = None
  ProofId = {a, b, d}
  Proof <- MCProof
  Call = {p1, p2}
  Second = 2
  ProofWindow = 2
  Capacity = 2
  MaxTick = 5
  MaxAccepted = 4
SYMMETRY CallSymmetry
SPECIFICATION Spec
INVARIANT ProofOnce
CHECK_DEADLOCK FALSE
