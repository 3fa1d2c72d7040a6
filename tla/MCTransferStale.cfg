SPECIFICATION Spec
CONSTANTS
    Sizes = {0, 1, 2}
    HeapValues = {0}
    MaxConns = 2
    MaxRequests = 1
    MaxPushes = 0
    Patient = TRUE
CHECK_DEADLOCK FALSE
INVARIANT StoredBytesAreTheUploaders
