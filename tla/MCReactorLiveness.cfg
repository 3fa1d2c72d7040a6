SPECIFICATION FairSpec
CONSTANTS
    Conns = {c1}
    Fds = {f1}
    None = none
    MaxRequests = 2
    MaxSends = 2
    Steady = {c1}
PROPERTIES RequestsHandled RepliesWritten ClosedIsReclaimed
