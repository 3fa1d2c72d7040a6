SPECIFICATION FairSpec
CONSTANTS
    Loops = {l1, l2}
    Main = main
    Free = free
    MaxEvents = 2
INVARIANTS NoLostWakeup NoCircularWait
PROPERTIES IsFairMailbox
