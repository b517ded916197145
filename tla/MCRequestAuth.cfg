\* Replays, delays and nonce reuse within the window.
CONSTANTS
  n1 = n1
  n2 = n2
  None = None
  Nonce = {n1, n2}
  Request <- MCRequest
  Proc = {p1, p2}
  Window = 1
  TicksPerSecond = 2
  MaxTick = 8
  MaxAccepted = 3
  MaxDelay = 2
SYMMETRY ProcSymmetry
SPECIFICATION Spec
INVARIANT OncePerWindow
CHECK_DEADLOCK FALSE
