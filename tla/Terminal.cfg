SPECIFICATION FairSpec
CONSTANTS
    Replays = {r1}
    Listener = listener
    Updater = updater
    Free = free
    MaxEvents = 3
INVARIANTS
    CardsInOrder
    ShutdownIsClean
PROPERTIES
    StoppingEndsTheRun
CHECK_DEADLOCK FALSE
