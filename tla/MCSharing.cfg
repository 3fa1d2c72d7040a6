SPECIFICATION Spec
CONSTANTS
    u1 = u1
    u2 = u2
    a = a
    b = b
    Users = {u1, u2}
    Names = {a, b}
    NoNode = nonode
    InitLink <- MCLink
    InitDirs <- MCDirs
    InitData <- MCData
    Blocks = 1
    MaxDepth = 2
    MaxChanges = 2
    MaxShares = 1
INVARIANTS OnlyOfferedArrives
PROPERTIES CopyIsWhole EntriesAreCopied OnlyOwnerWrites
CHECK_DEADLOCK FALSE
