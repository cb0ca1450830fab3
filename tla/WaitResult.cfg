SPECIFICATION FairSpec
CONSTANTS
    MaxDeliveries = 1
    MaxWaits = 2
    MaxReplays = 1
INVARIANT
    WaitShowsItsReplay
CHECK_DEADLOCK FALSE
