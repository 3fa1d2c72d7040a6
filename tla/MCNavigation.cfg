SPECIFICATION FairSpec
CONSTANTS
    Dir = dir
    Login = user
    a = a
    b = b
    f1 = f1
    f2 = f2
    f3 = f3
    Names = {a, b}
    NoName = noname
    FirstWord <- MCFirstWord
    Typable <- MCTypable
    Trees <- MCTrees
    Gifts <- MCGifts
    MaxClicks <- MCMaxClicks
    MaxGifts = 1
INVARIANTS EntryIsPending PatientSeesPath
PROPERTIES IsBrowser NothingLost ClicksAreAnswered
CHECK_DEADLOCK FALSE
