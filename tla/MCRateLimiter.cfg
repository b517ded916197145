SPECIFICATION Spec
CONSTANTS
    c1 = c1
    c2 = c2
    addr1 = addr1
    addr2 = addr2
    Call = {c1, c2}
    Address = {addr1, addr2}
    Burst = 4
    Cost = 1
    IdleTime = 3
    SweepEvery = 3
    MaxVisitors = 1
    MaxDelay = 1
    MaxClock = 5
SYMMETRY Symmetry
INVARIANTS
    RateBound
    SweepsKeepUp
