SPECIFICATION Spec
CONSTANTS
    Replays = {r1}
    Listener = listener
    Updater = updater
    Free = free
    MaxEvents = 1
INVARIANTS
    FinalFrameIsStopped
CHECK_DEADLOCK FALSE
