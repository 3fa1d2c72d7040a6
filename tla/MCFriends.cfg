SPECIFICATION FairSpec
CONSTANTS
    Users = {u1, u2}
    NoPdu = noPdu
    MaxClicks = 3
INVARIANTS TypeOK StrangersHearNothing
PROPERTIES IsFriendship NewsArrives
