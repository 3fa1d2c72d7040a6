SPECIFICATION FairSpec
CONSTANTS
    Sizes = {0, 1, 2}
    HeapValues = {0}
    MaxConns = 2
    MaxRequests = 2
    MaxPushes = 2
    Patient = TRUE
CHECK_DEADLOCK FALSE
INVARIANTS FramesStayAligned UploadedFileIsWhole SuccessMeansWhole NobodyWaitsInVain
PROPERTIES EveryRequestEnds
