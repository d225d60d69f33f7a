SPECIFICATION Spec
CONSTANTS
    N = 3
    Sample = {s1, s2}
    MaxCnt = 4
INVARIANT UnregisteredWaits
