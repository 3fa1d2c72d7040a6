SPECIFICATION Spec
CONSTANTS
    Conns = {c1}
    Fds = {f1}
    None = none
    MaxRequests = 1
    MaxSends = 1
    Steady = {}
INVARIANT NoCrash
