SPECIFICATION Spec
CONSTANTS
    Dir = dir
    Login = user
    a = a
    b = b
    f1 = f1
    f2 = f2
    f3 = f3
    Names = {a, b}
    NoName = noname
    FirstWord <- MCFirstWord
    Typable <- MCTypable
    Trees <- MCTrees
    Gifts <- MCGifts
    MaxClicks <- MCHasty
    MaxGifts = 1
INVARIANT ListIsOfPath
CHECK_DEADLOCK FALSE
